--------------------- MODULE ReferenceComparison_proofs ---------------------
(***************************************************************************)
(* Proofs about ReferenceComparison, for any scenarios that the loader     *)
(* accepts, whatever their memories, queries and oracles are.  The arms    *)
(* are functions of the scenario, so that one invariant says what they     *)
(* are and the properties follow from lemmas about a single arm.           *)
(***************************************************************************)
EXTENDS ReferenceComparison, ReferenceMemory_proofs

\* What an arm gives, and whether it isolates its memory, is determined by the
\* scenario and the initial state.
LEMMA OutputStays ==
    ASSUME UNCHANGED <<scenario, base>>
    PROVE  /\ ArmNames' = ArmNames
           /\ \A name : Output(name)' = Output(name)
           /\ \A name : Isolates(name)' = Isolates(name)
           /\ \A name : Executable(name)' = Executable(name)
           /\ Labelled' = Labelled
<1>1. ArmNames' = ArmNames
  BY DEF ArmNames
<1>2. ASSUME NEW name
      PROVE  Output(name)' = Output(name) /\ Isolates(name)' = Isolates(name)
  <2>1. Begun(name)' = Begun(name)
    BY DEF Begun
  <2>2. VictimQuery(name)' = VictimQuery(name) /\ VictimMemory(name)' = VictimMemory(name)
    BY DEF VictimQuery, VictimMemory
  <2>3. Isolates(name)' = Isolates(name)
    BY <2>1, <2>2 DEF Isolates, Isolated
  <2>4. CrafOutput(name)' = CrafOutput(name)
    BY <2>1 DEF CrafOutput, Decision, Evidence, Closed, Safe, Critical
  <2>5. RisiOutput(name)' = RisiOutput(name)
    BY <2>1, <2>2 DEF RisiOutput, Decision, Closed, Safe
  <2>6. QED
    BY <2>3, <2>4, <2>5 DEF Output
<1>3. Labelled' = Labelled
  BY DEF Labelled, Critical
<1>4. \A name : Executable(name)' = Executable(name)
  BY <1>2, <1>3 DEF Executable
<1>5. QED
  BY <1>1, <1>2, <1>3, <1>4

\* The verdicts are determined by the arms.
LEMMA VerdictStays ==
    ASSUME UNCHANGED <<scenario, base, arms>>
    PROVE  Recovered' = Recovered
<1>1. QED
  BY DEF Recovered, Pair

LEMMA ReplayStays ==
    ASSUME UNCHANGED <<scenario, base, arms, result>>
    PROVE  Replays' = Replays
<1>1. \A a : \A n : ArmReplays(a, n)' = ArmReplays(a, n)
  BY DEF ArmReplays
<1>2. \A a : Localized(a)' = Localized(a)
  BY DEF Localized, Critical
<1>3. \A name : VictimQuery(name)' = VictimQuery(name)
  BY DEF VictimQuery
<1>4. CrafReplays' = CrafReplays
  BY <1>1, <1>2 DEF CrafReplays, ExpectedCraf
<1>5. RisiReplays' = RisiReplays
  BY <1>1, <1>3, VerdictStays DEF RisiReplays
<1>6. QED
  BY <1>4, <1>5 DEF Replays

\* The comparison starts with no arm.
LEMMA ComparisonStarts == ComparisonInit => ComparisonInv
<1>1. SUFFICES ASSUME ComparisonInit PROVE ComparisonInv
  OBVIOUS
<1>2. scenario \in Scenario /\ LoaderAccepts(scenario)
  BY <1>1 DEF ComparisonInit
<1>3. /\ base = InitialState(scenario) /\ arms = <<>>
      /\ result = "running" /\ replay = "none"
  BY <1>1 DEF ComparisonInit
<1>4. 0 \in 0 .. Len(ArmNames) /\ arms = [i \in 1 .. 0 |-> Output(ArmNames[i])]
  BY <1>3 DEF ArmNames, CrafArms, RisiArms
<1>5. \A i \in 1 .. 0 : Executable(ArmNames[i])
  OBVIOUS
<1>6. QED
  BY <1>2, <1>3, <1>4, <1>5 DEF ComparisonInv

\* Every step makes the next arm as the scenario has it, or a verdict.
LEMMA ComparisonGoesOn == ComparisonInv /\ [ComparisonNext]_allVars => ComparisonInv'
<1>1. SUFFICES ASSUME ComparisonInv, [ComparisonNext]_allVars
               PROVE  ComparisonInv'
  OBVIOUS
<1> DEFINE Made(n) == /\ arms = [i \in 1 .. n |-> Output(ArmNames[i])]
                      /\ \A i \in 1 .. n : Executable(ArmNames[i])
                      /\ result = "invalid" =>
                             \/ n = 0 /\ ~ Labelled
                             \/ n < Len(ArmNames) /\ ~ Isolates(ArmNames[n + 1])
                      /\ result = "crashed" =>
                             /\ n < Len(ArmNames) /\ Labelled /\ ~ scenario.typed
                             /\ Isolates(ArmNames[n + 1])
<1>2. PICK n \in 0 .. Len(ArmNames) : Made(n)
  BY <1>1 DEF ComparisonInv
<1>3. Len(ArmNames) \in Nat
  BY DEF ArmNames, CrafArms, RisiArms
<1>4. Len(arms) = n /\ n \in Nat
  BY <1>2, <1>3
<1>5. UNCHANGED <<scenario, base>>
  BY <1>1 DEF ComparisonNext, Refuse, Fail, CrafArm, RisiArm, Concluded, Compare, Replay,
     Finished, allVars, vars
<1>6. /\ ArmNames' = ArmNames /\ Labelled' = Labelled /\ Len(ArmNames)' = Len(ArmNames)
      /\ \A name : /\ Output(name)' = Output(name) /\ Isolates(name)' = Isolates(name)
                   /\ Executable(name)' = Executable(name)
  BY <1>5, OutputStays
<1>7. ASSUME NEW m \in 0 .. Len(ArmNames), arms' = [i \in 1 .. m |-> Output(ArmNames[i])],
             \A i \in 1 .. m : Executable(ArmNames[i]),
             result' = "invalid" =>
                 \/ m = 0 /\ ~ Labelled
                 \/ m < Len(ArmNames) /\ ~ Isolates(ArmNames[m + 1]),
             result' = "crashed" =>
                 /\ m < Len(ArmNames) /\ Labelled /\ ~ scenario.typed
                 /\ Isolates(ArmNames[m + 1])
      PROVE  (\E k \in 0 .. Len(ArmNames) : Made(k))'
  <2>1. arms' = [i \in 1 .. m |-> Output(ArmNames[i])'] /\ m \in 0 .. Len(ArmNames')
    BY <1>6, <1>7
  <2>2. \A i \in 1 .. m : Executable(ArmNames[i])'
    BY <1>6, <1>7
  <2>3. /\ ArmNames[m + 1]' = ArmNames[m + 1] /\ scenario.typed' = scenario.typed
        /\ Isolates(ArmNames[m + 1])' = Isolates(ArmNames[m + 1])
    BY <1>5, <1>6
  <2>4. QED
    BY <1>6, <1>7, <2>1, <2>2, <2>3
<1>8. scenario' \in Scenario /\ LoaderAccepts(scenario)' /\ base' = InitialState(scenario)'
  BY <1>1, <1>5 DEF ComparisonInv
<1>9. CASE Refuse \/ Compare \/ Replay \/ Finished \/ UNCHANGED allVars
  <2>1. UNCHANGED arms
    BY <1>9 DEF Refuse, Fail, Compare, Replay, Finished, allVars
  <2>2. Recovered' = Recovered /\ Len(arms)' = Len(arms)
    BY <1>5, <2>1, VerdictStays
  <2>3. CASE Refuse
    <3>1. /\ result = "running" /\ result' = "invalid" /\ ~ Labelled /\ arms = <<>>
          /\ UNCHANGED replay
      BY <2>3 DEF Refuse, Running, Fail
    <3>2. replay = "none" /\ n = 0
      BY <1>1, <1>4, <3>1 DEF ComparisonInv
    <3>3. (\E k \in 0 .. Len(ArmNames) : Made(k))'
      BY <1>2, <1>7, <2>1, <3>1, <3>2
    <3>4. QED
      BY <1>8, <3>1, <3>2, <3>3 DEF ComparisonInv
  <2>4. CASE Compare
    <3>1. /\ result = "running" /\ result' = (IF Recovered THEN "recovered" ELSE "failed")
          /\ Len(arms) = Len(ArmNames) /\ UNCHANGED replay
      BY <2>4 DEF Compare
    <3>2. replay = "none"
      BY <1>1, <3>1 DEF ComparisonInv
    <3>3. (\E k \in 0 .. Len(ArmNames) : Made(k))'
      BY <1>2, <1>7, <2>1, <3>1
    <3>4. QED
      BY <1>6, <1>8, <2>2, <3>1, <3>2, <3>3 DEF ComparisonInv
  <2>5. CASE Replay
    <3>1. /\ result \in {"recovered", "failed"} /\ UNCHANGED result
          /\ replay' = (IF Replays THEN "accepted" ELSE "rejected")
      BY <2>5 DEF Replay
    <3>2. Replays' = Replays
      BY <1>5, <2>1, <3>1, ReplayStays
    <3>3. (\E k \in 0 .. Len(ArmNames) : Made(k))'
      BY <1>2, <1>7, <2>1, <3>1
    <3>4. QED
      BY <1>1, <1>6, <1>8, <2>2, <3>1, <3>2, <3>3 DEF ComparisonInv
  <2>6. CASE Finished \/ UNCHANGED allVars
    <3>1. UNCHANGED <<result, replay>>
      BY <2>6 DEF Finished, allVars
    <3>2. Replays' = Replays
      BY <1>5, <2>1, <3>1, ReplayStays
    <3>3. (\E k \in 0 .. Len(ArmNames) : Made(k))'
      BY <1>2, <1>7, <2>1, <3>1
    <3>4. QED
      BY <1>1, <1>6, <1>8, <2>2, <3>1, <3>2, <3>3 DEF ComparisonInv
  <2>7. QED
    BY <1>9, <2>3, <2>4, <2>5, <2>6
<1>10. CASE CrafArm \/ RisiArm
  <2>1. PICK name : name = ArmNames[n + 1]
    OBVIOUS
  <2>2. /\ n + 1 \in 0 .. Len(ArmNames) /\ n < Len(ArmNames)
        /\ result = "running" /\ UNCHANGED replay /\ Labelled
        /\ \/ Isolates(name) /\ scenario.typed /\ Concluded(Output(name))
           \/ Isolates(name) /\ ~ scenario.typed /\ Fail("crashed")
           \/ ~ Isolates(name) /\ Fail("invalid")
    <3>1. CASE CrafArm
      <4>1. Running /\ UNCHANGED replay /\ Labelled
        BY <3>1 DEF CrafArm, Concluded, Fail
      <4>2. \/ Isolates(name) /\ scenario.typed /\ Concluded(Output(name))
            \/ Isolates(name) /\ ~ scenario.typed /\ Fail("crashed")
            \/ ~ Isolates(name) /\ Fail("invalid")
        BY <3>1, <2>1, <1>4 DEF CrafArm, Isolates, Output, ArmNames
      <4>3. QED
        BY <4>1, <4>2, <1>3, <1>4 DEF Running
    <3>2. CASE RisiArm
      <4>1. Running /\ UNCHANGED replay /\ Labelled
        BY <3>2 DEF RisiArm, Concluded, Fail
      <4>2. \/ Isolates(name) /\ scenario.typed /\ Concluded(Output(name))
            \/ Isolates(name) /\ ~ scenario.typed /\ Fail("crashed")
            \/ ~ Isolates(name) /\ Fail("invalid")
        BY <3>2, <2>1, <1>4 DEF RisiArm, Isolates, Output, ArmNames
      <4>3. QED
        BY <4>1, <4>2, <1>3, <1>4 DEF Running
    <3>3. QED
      BY <1>10, <3>1, <3>2
  <2>3. replay = "none"
    BY <1>1, <2>2 DEF ComparisonInv
  <2>4. CASE Isolates(name) /\ scenario.typed /\ Concluded(Output(name))
    <3>1. arms' = Append(arms, Output(name)) /\ UNCHANGED result
      BY <2>4 DEF Concluded
    <3>2. arms' = [i \in 1 .. n + 1 |-> Output(ArmNames[i])]
      BY <1>2, <1>4, <2>1, <3>1
    <3>3. \A i \in 1 .. n + 1 : Executable(ArmNames[i])
      <4>1. \A i \in 1 .. n + 1 : i \in 1 .. n \/ i = n + 1
        BY <1>4
      <4>2. QED
        BY <1>2, <2>1, <2>2, <2>4, <4>1 DEF Executable
    <3>4. (\E k \in 0 .. Len(ArmNames) : Made(k))'
      BY <1>7, <2>2, <3>1, <3>2, <3>3
    <3>5. QED
      BY <1>8, <2>2, <2>3, <3>1, <3>4 DEF ComparisonInv
  <2>5. CASE \/ Isolates(name) /\ ~ scenario.typed /\ Fail("crashed")
             \/ ~ Isolates(name) /\ Fail("invalid")
    <3>1. UNCHANGED <<arms, replay>> /\ result' \in {"invalid", "crashed"}
      BY <2>5 DEF Fail
    <3>2. /\ result' = "invalid" => ~ Isolates(name)
          /\ result' = "crashed" => Isolates(name) /\ ~ scenario.typed
      BY <2>5 DEF Fail
    <3>3. (\E k \in 0 .. Len(ArmNames) : Made(k))'
      BY <1>2, <1>7, <2>1, <2>2, <3>1, <3>2
    <3>4. QED
      BY <1>8, <2>3, <3>1, <3>3 DEF ComparisonInv
  <2>6. QED
    BY <2>2, <2>4, <2>5
<1>11. QED
  BY <1>1, <1>9, <1>10 DEF ComparisonNext

\* The invariant holds in every reachable state.
LEMMA ComparisonInvariance == ComparisonSpec => []ComparisonInv
BY ComparisonStarts, ComparisonGoesOn, PTL DEF ComparisonSpec

----------------------------------------------------------------------------
\* What the loader guarantees of an arm: a policy that the memory accepts, for as
\* many results as its queries ask.

\* The largest of up to three numbers is one of them.
LEMMA LargestOf ==
    ASSUME NEW a \in Nat, NEW b \in Nat, NEW c \in Nat
    PROVE  /\ Largest({a, b, c}) \in {a, b, c}
           /\ a <= Largest({a, b, c}) /\ b <= Largest({a, b, c}) /\ c <= Largest({a, b, c})
<1>1. \E n \in {a, b, c} : \A m \in {a, b, c} : m <= n
  OBVIOUS
<1>2. QED
  BY <1>1 DEF Largest

\* Four names with four different values are different.
LEMMA FourDiffer ==
    ASSUME NEW a, NEW b, NEW c, NEW d, Cardinality({a, b, c, d}) = 4
    PROVE  a # b /\ a # c /\ a # d /\ b # c /\ b # d /\ c # d
<1>1. ASSUME NEW x, NEW y, NEW z PROVE Cardinality({x, y, z}) <= 3
  <2>1. IsFiniteSet({}) /\ Cardinality({}) = 0
    BY FS_EmptySet
  <2>2. IsFiniteSet({x}) /\ Cardinality({x}) = 1
    BY FS_Singleton
  <2>3. {x, y} = {x} \cup {y} /\ {x, y, z} = {x, y} \cup {z}
    OBVIOUS
  <2>4. IsFiniteSet({x, y}) /\ Cardinality({x, y}) \in {1, 2}
    BY <2>2, <2>3, FS_AddElement
  <2>5. Cardinality({x, y, z}) \in {1, 2, 3}
    BY <2>3, <2>4, FS_AddElement
  <2>6. QED
    BY <2>5
<1>2. \A x, y, z : {a, b, c, d} # {x, y, z}
  <2>1. SUFFICES ASSUME NEW x, NEW y, NEW z, {a, b, c, d} = {x, y, z}
                 PROVE  FALSE
    OBVIOUS
  <2>2. Cardinality({x, y, z}) <= 3
    BY <1>1
  <2>3. 4 <= 3
    BY <2>1, <2>2
  <2>4. QED
    BY <2>3
<1>3. /\ a = b \/ a = c \/ a = d => {a, b, c, d} = {b, c, d}
      /\ b = c \/ b = d => {a, b, c, d} = {a, c, d}
      /\ c = d => {a, b, c, d} = {a, b, c}
  OBVIOUS
<1>4. QED
  BY <1>2, <1>3

\* A policy has room for some result.
LEMMA TopKPositive ==
    ASSUME NEW sc \in Scenario, LoaderAccepts(sc)
    PROVE  TopK(sc) \in Nat /\ TopK(sc) > 0
<1>1. CASE sc.kind = "craf"
  BY <1>1, ReadsAssumption DEF LoaderAccepts, TopK, Queries
<1>2. CASE sc.kind = "risi"
  <2>1. sc.decision.k \in Nat /\ sc.decision.k > 0 /\ sc.sham.k = 1 /\ sc.probe.k = 1
    BY <1>2, ReadsAssumption DEF LoaderAccepts, RisiAccepted, Queries
  <2>2. QED
    BY <1>2, <2>1, LargestOf DEF TopK
<1>3. QED
  BY <1>1, <1>2, ReadsAssumption

\* The memories and principals of the RISI-C protocol are different ones.
LEMMA ProtocolDiffers ==
    ASSUME NEW sc, RisiAccepted(sc)
    PROVE  /\ sc.canary # sc.shamMemory
           /\ sc.canary # sc.noHidden /\ sc.canary # sc.hidden /\ sc.noHidden # sc.hidden
           /\ {sc.canary, sc.noHidden, sc.hidden} \subseteq Memory
           /\ sc.victim # sc.observer
<1>1. Cardinality({sc.canary, sc.shamMemory, sc.noHidden, sc.hidden}) = 4
  <2>1. {sc.canary, sc.shamMemory} \cup {sc.noHidden, sc.hidden}
            = {sc.canary, sc.shamMemory, sc.noHidden, sc.hidden}
    OBVIOUS
  <2>2. Cardinality({sc.canary, sc.shamMemory} \cup {sc.noHidden, sc.hidden}) = 4
    BY DEF RisiAccepted
  <2>3. QED
    BY <2>1, <2>2
<1>2. /\ sc.canary # sc.shamMemory /\ sc.canary # sc.noHidden /\ sc.canary # sc.hidden
      /\ sc.noHidden # sc.hidden
  BY <1>1, FourDiffer
<1>3. {sc.canary, sc.noHidden, sc.hidden} \subseteq Memory /\ sc.victim # sc.observer
  BY DEF RisiAccepted
<1>4. QED
  BY <1>2, <1>3

\* The memory accepts the policy of every arm.
LEMMA ArmPolicyValid ==
    ASSUME NEW sc \in Scenario, LoaderAccepts(sc), NEW name,
           name \in ToSet(IF sc.kind = "craf" THEN CrafArms ELSE RisiArms)
    PROVE  ArmPolicy(sc, name) \in Policy /\ ValidPolicy(ArmPolicy(sc, name))
<1>1. ArmPolicy(sc, name) \in Policy
  BY ArmAssumption
<1>2. TopK(sc) > 0
  BY TopKPositive
<1>3. CASE sc.kind = "craf"
  <2>1. name \in {"control", "vulnerable", "protected"}
    BY <1>3 DEF CrafArms, ToSet
  <2>2. {sc.trigger, sc.required} \subseteq Memory /\ sc.trigger # sc.required
    BY <1>3 DEF LoaderAccepts, CrafAccepted
  <2>3. QED
    BY <1>1, <1>2, <1>3, <2>1, <2>2
       DEF ArmPolicy, CrafPolicy, PureRead, Eclipsing, ValidPolicy, Adaptive
<1>4. CASE sc.kind # "craf"
  <2>1. RisiAccepted(sc)
    BY <1>4 DEF LoaderAccepts
  <2>3. /\ sc.canary # sc.noHidden /\ sc.canary # sc.hidden /\ sc.noHidden # sc.hidden
        /\ {sc.canary, sc.noHidden, sc.hidden} \subseteq Memory /\ sc.victim # sc.observer
    BY <2>1, ProtocolDiffers
  <2>4. ValidPolicy(PureRead(sc))
    BY <1>2 DEF PureRead, ValidPolicy, Adaptive
  <2>5. ValidPolicy(SharedCounter(sc))
    <3> DEFINE policy == SharedCounter(sc)
    <3>1. /\ policy.name = "risi-shared-counter" /\ policy.k = TopK(sc)
          /\ policy.canary = sc.canary /\ policy.victim = sc.victim
          /\ policy.observer = sc.observer
          /\ policy.noHidden = sc.noHidden /\ policy.hidden = sc.hidden
      BY DEF SharedCounter
    <3>2. ~ Adaptive(policy)
      BY <3>1 DEF Adaptive
    <3> HIDE DEF policy
    <3>3. ValidPolicy(policy)
      BY <1>2, <2>3, <3>1, <3>2 DEF ValidPolicy
    <3>4. QED
      BY <3>3 DEF policy
  <2>6. QED
    BY <1>1, <1>4, <2>4, <2>5 DEF ArmPolicy, RisiPolicy
<1>5. QED
  BY <1>3, <1>4

\* The state that every arm begins from.
LEMMA SharedBase ==
    ASSUME ComparisonInv
    PROVE  /\ base \in States /\ base.seq = 0 /\ base.time = 0
           /\ base.policy = PureRead(scenario) /\ ValidPolicy(base.policy)
           /\ base.derived.suppressed = {}
           /\ base.derived = [NoDerived EXCEPT !.counter =
                                  IF scenario.kind = "craf" THEN None ELSE 0]
<1>1. scenario \in Scenario /\ LoaderAccepts(scenario) /\ base = InitialState(scenario)
  BY DEF ComparisonInv
<1>2. PureRead(scenario) \in Policy
  BY <1>1, ArmAssumption
<1>3. TopK(scenario) > 0
  BY <1>1, TopKPositive
<1>4. ValidPolicy(PureRead(scenario))
  BY <1>3 DEF PureRead, ValidPolicy, Adaptive
<1> DEFINE counter == IF scenario.kind = "craf" THEN None ELSE 0
           derived == [NoDerived EXCEPT !.counter = counter]
<1>5. counter \in Nat \cup {None}
  OBVIOUS
<1> HIDE DEF counter
<1>6. /\ derived \in [suppressed : SUBSET Memory, trigger : Memory \cup {None},
                      counter : Nat \cup {None}]
      /\ derived.suppressed = {}
  BY <1>5 DEF NoDerived
<1> HIDE DEF derived
<1>7. base = [time |-> 0, seq |-> 0, policy |-> PureRead(scenario), derived |-> derived,
              interactions |-> 0]
  BY <1>1 DEF InitialState, Initial, derived, counter
<1>8. 0 \in 0 .. MaxTime
  BY TimeAssumption
<1>9. base \in States
  BY <1>2, <1>6, <1>7, <1>8 DEF States
<1>10. QED
  BY <1>4, <1>6, <1>7, <1>9 DEF derived, counter

----------------------------------------------------------------------------
\* What an arm's log is.

\* A log that verifies and replays: well formed, told by its events, and on one clock.
Kept(log, b) ==
    /\ Good(log, b) /\ Told(log, b)
    /\ \A i \in 1 .. Len(log.trace) : log.trace[i].type # "state_hash"

\* A trace that goes on with one event.
Longer(longer, log, type, payload) ==
    /\ Len(log.trace) \in Nat /\ Len(longer.trace) = Len(log.trace) + 1
    /\ \A i \in 1 .. Len(log.trace) : longer.trace[i] = log.trace[i]
    /\ longer.trace[Len(log.trace) + 1].type = type
    /\ longer.trace[Len(log.trace) + 1].payload = payload

LEMMA CommitAdds ==
    ASSUME NEW log, NEW b, Good(log, b), NEW type, NEW payload, NEW after
    PROVE  /\ Longer(Commit(log, type, payload, after), log, type, payload)
           /\ Commit(log, type, payload, after).state = [after EXCEPT !.seq = log.state.seq + 1]
<1> DEFINE event == [seq     |-> log.state.seq,
                     time    |-> [after EXCEPT !.seq = log.state.seq + 1].time,
                     type    |-> type,
                     prev    |-> IF log.trace = <<>> THEN None ELSE Last(log.trace).seq,
                     before  |-> log.state,
                     after   |-> [after EXCEPT !.seq = log.state.seq + 1],
                     payload |-> payload]
<1>1. Commit(log, type, payload, after)
          = [state |-> [after EXCEPT !.seq = log.state.seq + 1],
             trace |-> Append(log.trace, event)]
  BY DEF Commit
<1>2. event.type = type /\ event.payload = payload
  OBVIOUS
<1> HIDE DEF event
<1>3. Sequence(log.trace)
  BY DEF Good
<1>4. QED
  BY <1>1, <1>2, <1>3, SequenceAppend DEF Longer

LEMMA CommitClock ==
    ASSUME NEW log, NEW b, Good(log, b), NEW type, NEW payload, NEW after,
           type # "state_hash", \A i \in 1 .. Len(log.trace) : log.trace[i].type # "state_hash"
    PROVE  LET longer == Commit(log, type, payload, after)
           IN  \A i \in 1 .. Len(longer.trace) : longer.trace[i].type # "state_hash"
<1> DEFINE longer == Commit(log, type, payload, after)
<1>0. Longer(longer, log, type, payload)
  BY CommitAdds
<1> HIDE DEF longer
<1>1. /\ Len(log.trace) \in Nat /\ Len(longer.trace) = Len(log.trace) + 1
      /\ \A i \in 1 .. Len(log.trace) : longer.trace[i] = log.trace[i]
      /\ longer.trace[Len(log.trace) + 1].type = type
  BY <1>0 DEF Longer
<1>2. \A i \in 1 .. Len(longer.trace) : i \in 1 .. Len(log.trace) \/ i = Len(log.trace) + 1
  BY <1>1
<1>3. \A i \in 1 .. Len(longer.trace) : longer.trace[i].type # "state_hash"
  BY <1>1, <1>2
<1>4. QED
  BY <1>3 DEF longer

\* An event that only records keeps a log.
LEMMA RecordKept ==
    ASSUME NEW log, NEW b \in States, Kept(log, b), NEW type, NEW payload,
           type \notin {"policy_configured", "read_side_update", "state_hash",
                        "retrieval_set_change"}
    PROVE  Kept(Record(log, type, payload), b)
<1>1. Good(Record(log, type, payload), b) /\ Told(Record(log, type, payload), b)
  BY RecordGood, RecordTold DEF Kept
<1>2. QED
  BY <1>1, CommitClock DEF Kept, Record

\* So does a whole retrieval, and the assembly of its context.
LEMMA AskedKept ==
    ASSUME NEW log, NEW b \in States, Kept(log, b), NEW q
    PROVE  Kept(Asked(log, q), b)
<1> DEFINE hits      == Hits(log.state, q)
           completed == Record(log, "retrieval_completed", [query |-> q, hits |-> hits])
           changed   == SetChange(completed, q)
           updated   == ReadSideUpdate(changed, q, hits)
           Clocked(events) == \A i \in 1 .. Len(events) : events[i].type # "state_hash"
<1>1. Good(completed, b) /\ Clocked(completed.trace)
  <2>1. Kept(completed, b)
    BY RecordKept
  <2>2. QED
    BY <2>1 DEF Kept
<1> HIDE DEF completed, hits
<1>2. Good(changed, b) /\ Clocked(changed.trace)
  BY <1>1, RecordGood, CommitClock DEF SetChange, Record
<1> HIDE DEF changed
<1>3. Clocked(updated.trace)
  BY <1>2, CommitClock DEF ReadSideUpdate, CounterUpdate, EclipseUpdate
<1>4. Retrieved(log, q) = updated
  BY DEF Retrieved, updated, changed, completed, hits
<1>5. Good(updated, b) /\ Told(updated, b)
  BY <1>4, RetrievedGood, RetrievedTold DEF Kept
<1> HIDE DEF updated
<1>6. Kept(updated, b)
  BY <1>3, <1>5 DEF Kept
<1>7. QED
  BY <1>4, <1>6, RecordKept DEF Asked

\* So does the end of an arm.
LEMMA ClosedKept ==
    ASSUME NEW log, NEW b \in States, Kept(log, b), NEW name, NEW decision, NEW suppressed
    PROVE  Kept(Closed(log, name, decision, suppressed), b)
<1> DEFINE decided  == Record(log, "decision", decision)
           blamed   == IF suppressed
                       THEN Record(decided, "critical_memory_suppression", name) ELSE decided
           assessed == Record(blamed, "oracle_evaluated", Safe(decision))
<1>1. Kept(decided, b)
  BY RecordKept
<1> HIDE DEF decided
<1>2. Kept(blamed, b)
  BY <1>1, RecordKept
<1> HIDE DEF blamed
<1>3. Kept(assessed, b)
  BY <1>2, RecordKept
<1> HIDE DEF assessed
<1>4. Kept(Record(assessed, "episode_completed", name), b)
  BY <1>3, RecordKept
<1>5. QED
  BY <1>4 DEF Closed, assessed, blamed, decided

\* Two states are the same if their fields are.
LEMMA SameState ==
    ASSUME NEW s, NEW t,
           s = [f \in {"time", "seq", "policy", "derived", "interactions"} |-> s[f]],
           t = [f \in {"time", "seq", "policy", "derived", "interactions"} |-> t[f]],
           s.time = t.time, s.seq = t.seq, s.policy = t.policy, s.derived = t.derived,
           s.interactions = t.interactions
    PROVE  s = t
OBVIOUS

LEMMA StateFields ==
    ASSUME NEW s \in States
    PROVE  /\ s = [f \in {"time", "seq", "policy", "derived", "interactions"} |-> s[f]]
           /\ DOMAIN s = {"time", "seq", "policy", "derived", "interactions"}
BY DEF States

\* An arm begins from the shared state, with its own policy and nothing else changed.
LEMMA BegunKept ==
    ASSUME ComparisonInv, NEW name \in ToSet(ArmNames)
    PROVE  /\ Kept(Begun(name), base)
           /\ Begun(name).state = [base EXCEPT !.seq = 2, !.policy = ArmPolicy(scenario, name)]
           /\ Begun(name).state \in States
<1> DEFINE fresh   == [state |-> base, trace |-> <<>>]
           started == Record(fresh, "episode_started", name)
           policy  == ArmPolicy(scenario, name)
           after   == [started.state EXCEPT !.policy = policy]
<1>1. base \in States /\ base.seq = 0 /\ ValidPolicy(base.policy) /\ base.derived.suppressed = {}
  BY SharedBase
<1>2. policy \in Policy /\ ValidPolicy(policy)
  <2>1. scenario \in Scenario /\ LoaderAccepts(scenario)
    BY DEF ComparisonInv
  <2>2. name \in ToSet(IF scenario.kind = "craf" THEN CrafArms ELSE RisiArms)
    BY DEF ArmNames
  <2>3. QED
    BY <2>1, <2>2, ArmPolicyValid
<1>3. Kept(fresh, base)
  <2>1. /\ fresh.trace \in Seq({}) /\ Len(fresh.trace) = 0 /\ fresh.trace = <<>>
        /\ fresh.state = base
    OBVIOUS
  <2> HIDE DEF fresh
  <2>2. Good(fresh, base)
    <3>1. Sequence(fresh.trace)
      BY <2>1 DEF Sequence
    <3>2. Linked(fresh, base)
      BY <1>1, <2>1 DEF Linked
    <3>3. QED
      BY <1>1, <2>1, <3>1, <3>2 DEF Good
  <2>3. Told(fresh, base)
    BY <1>1, <2>1 DEF Told, StateAfter
  <2>4. QED
    BY <2>1, <2>2, <2>3 DEF Kept
<1>4. started.state = [base EXCEPT !.seq = 1]
  BY <1>1 DEF Record, Commit
<1> HIDE DEF fresh
<1>5. Kept(started, base)
  BY <1>1, <1>3, RecordKept
<1> HIDE DEF started, policy
<1>6. /\ started.state \in States /\ started.state.seq = 1
      /\ started.state.derived.suppressed = {}
  BY <1>1, <1>4 DEF States
<1>7. /\ after \in States /\ after.policy = policy /\ after.seq = started.state.seq
      /\ after.time = started.state.time /\ after.derived = started.state.derived
  BY <1>2, <1>6 DEF States
<1>8. Described(started.state, "policy_configured", policy) = after
  BY DEF Described
<1>9. [after EXCEPT !.seq = started.state.seq + 1] = [base EXCEPT !.seq = 2, !.policy = policy]
  <2> DEFINE s == [after EXCEPT !.seq = started.state.seq + 1]
             t == [base EXCEPT !.seq = 2, !.policy = policy]
  <2>1. /\ DOMAIN after = {"time", "seq", "policy", "derived", "interactions"}
        /\ DOMAIN base = {"time", "seq", "policy", "derived", "interactions"}
    BY <1>1, <1>7, StateFields
  <2>2. /\ s = [f \in {"time", "seq", "policy", "derived", "interactions"} |-> s[f]]
        /\ t = [f \in {"time", "seq", "policy", "derived", "interactions"} |-> t[f]]
    BY <2>1
  <2>3. /\ s.time = t.time /\ s.seq = t.seq /\ s.policy = t.policy
        /\ s.derived = t.derived /\ s.interactions = t.interactions
    BY <1>1, <1>4, <1>6, <2>1 DEF States
  <2> HIDE DEF s, t
  <2>4. s = t
    BY <2>2, <2>3, SameState
  <2>5. QED
    BY <2>4 DEF s, t
<1> DEFINE begun == Commit(started, "policy_configured", policy, after)
<1>10. Begun(name) = begun
  BY DEF Begun, begun, after, policy, started, fresh
<1>11. after.time >= started.state.time
  BY <1>6, <1>7 DEF States
<1> HIDE DEF after
<1>12. Good(begun, base) /\ Told(begun, base)
  <2>1. Good(started, base) /\ Told(started, base)
    BY <1>5 DEF Kept
  <2>2. ValidPolicy(after.policy)
    BY <1>2, <1>7
  <2>3. after.derived.suppressed \ started.state.derived.suppressed = {}
    BY <1>7
  <2>4. Good(begun, base)
    BY <1>1, <1>7, <1>11, <2>1, <2>2, CommitGood
  <2>5. Told(begun, base)
    BY <1>1, <1>7, <1>8, <2>1, <2>3, CommitTold
  <2>6. QED
    BY <2>4, <2>5
<1>13. \A i \in 1 .. Len(begun.trace) : begun.trace[i].type # "state_hash"
  BY <1>5, CommitClock DEF Kept
<1>14. begun.state = [base EXCEPT !.seq = 2, !.policy = policy]
  BY <1>9 DEF Commit
<1> HIDE DEF begun
<1>15. begun.state \in States
  BY <1>12 DEF Good
<1>16. QED
  BY <1>10, <1>12, <1>13, <1>14, <1>15 DEF Kept, policy

\* So the log of every arm is kept to its end.
LEMMA OutputKept ==
    ASSUME ComparisonInv, NEW name \in ToSet(ArmNames)
    PROVE  Kept([state |-> Output(name).final, trace |-> Output(name).events], base)
<1>1. base \in States /\ Kept(Begun(name), base)
  BY BegunKept, SharedBase
<1>2. ASSUME NEW log, Kept(log, base)
      PROVE  Kept([state |-> log.state, trace |-> log.trace], base)
  BY <1>2 DEF Kept, Good, Told, Linked
<1>3. CASE scenario.kind = "craf"
  <2> DEFINE touched    == Asked(Begun(name), scenario.interaction)
             hits       == Hits(touched.state, scenario.decision)
             asked      == Asked(touched, scenario.decision)
             suppressed == Assessment(Evidence(hits, Decision(hits))).classification = "core_craf"
             closed     == Closed(asked, name, Decision(hits), suppressed)
  <2>1. Output(name).final = closed.state /\ Output(name).events = closed.trace
    BY <1>3 DEF Output, CrafOutput
  <2>2. Kept(touched, base)
    BY <1>1, AskedKept
  <2> HIDE DEF touched
  <2>3. Kept(asked, base)
    BY <1>1, <2>2, AskedKept
  <2> HIDE DEF asked, hits, suppressed
  <2>4. Kept(closed, base)
    BY <1>1, <2>3, ClosedKept
  <2> HIDE DEF closed
  <2>5. QED
    BY <1>2, <2>1, <2>4
<1>4. CASE scenario.kind # "craf"
  <2> DEFINE touched    == Asked(Begun(name), VictimQuery(name))
             probed     == Asked(touched, scenario.probe)
             hits       == Hits(probed.state, scenario.decision)
             asked      == Asked(probed, scenario.decision)
             closed     == Closed(asked, name, Decision(hits), FALSE)
  <2>1. Output(name).final = closed.state /\ Output(name).events = closed.trace
    BY <1>4 DEF Output, RisiOutput
  <2>2. Kept(touched, base)
    BY <1>1, AskedKept
  <2> HIDE DEF touched
  <2>3. Kept(probed, base)
    BY <1>1, <2>2, AskedKept
  <2> HIDE DEF probed
  <2>4. Kept(asked, base)
    BY <1>1, <2>3, AskedKept
  <2> HIDE DEF asked, hits
  <2>5. Kept(closed, base)
    BY <1>1, <2>4, ClosedKept
  <2> HIDE DEF closed
  <2>6. QED
    BY <1>2, <2>1, <2>5
<1>5. QED
  BY <1>3, <1>4

\* The arms executed so far are the outputs of different arms of the comparison.
LEMMA ArmsAre ==
    ASSUME ComparisonInv
    PROVE  /\ Len(arms) \in 0 .. Len(ArmNames) /\ DOMAIN arms = 1 .. Len(arms)
           /\ \A i \in 1 .. Len(arms) :
                  /\ ArmNames[i] \in ToSet(ArmNames)
                  /\ arms[i] = Output(ArmNames[i]) /\ Isolates(ArmNames[i])
           /\ ToSet(arms) = {arms[i] : i \in 1 .. Len(arms)}
<1>1. PICK n \in 0 .. Len(ArmNames) :
         /\ arms = [i \in 1 .. n |-> Output(ArmNames[i])]
         /\ \A i \in 1 .. n : Isolates(ArmNames[i])
  BY DEF ComparisonInv, Executable
<1>2. /\ Len(ArmNames) \in Nat
      /\ \A i \in 1 .. Len(ArmNames) : ArmNames[i] \in ToSet(ArmNames)
  BY DEF ArmNames, CrafArms, RisiArms, ToSet
<1>3. Len(arms) = n /\ n \in Nat
  BY <1>1, <1>2
<1>4. QED
  BY <1>1, <1>2, <1>3 DEF ToSet

\* The variables keep their types, the arms share one initial state, and the sequence
\* number that an arm ends with counts its events: nothing of the arm before it, and
\* nothing that is not in its trace, has moved it.
THEOREM ComparisonTyped == ComparisonSpec => []ComparisonTypeOK
<1>1. ComparisonInv => ComparisonTypeOK
  <2>1. SUFFICES ASSUME ComparisonInv PROVE ComparisonTypeOK
    OBVIOUS
  <2>2. /\ scenario \in Scenario /\ base = InitialState(scenario)
        /\ result \in {"running", "invalid", "crashed", "recovered", "failed"}
        /\ replay \in {"none", "accepted", "rejected"}
    BY <2>1 DEF ComparisonInv
  <2>3. Len(arms) <= Len(ArmNames)
    BY <2>1, ArmsAre DEF ArmNames, CrafArms, RisiArms
  <2>4. ASSUME NEW a \in ToSet(arms)
        PROVE  a.final.seq = Len(a.events)
    <3>1. PICK i \in 1 .. Len(arms) : a = arms[i]
      BY <2>1, ArmsAre
    <3>2. Kept([state |-> a.final, trace |-> a.events], base)
      BY <2>1, <3>1, ArmsAre, OutputKept
    <3>3. /\ [state |-> a.final, trace |-> a.events].state.seq
                = base.seq + Len([state |-> a.final, trace |-> a.events].trace)
          /\ Sequence([state |-> a.final, trace |-> a.events].trace)
      BY <3>2 DEF Kept, Good, Linked
    <3>4. a.final.seq = base.seq + Len(a.events) /\ Sequence(a.events)
      BY <3>3
    <3>5. base.seq = 0 /\ Len(a.events) \in Nat
      BY <2>1, <3>4, SharedBase, SequenceAppend
    <3>6. QED
      BY <3>4, <3>5
  <2>5. QED
    BY <2>2, <2>3, <2>4 DEF ComparisonTypeOK
<1>2. QED
  BY <1>1, ComparisonInvariance, PTL

----------------------------------------------------------------------------
\* What a query does to a state, and what it leaves in the trace.

\* Results depend on the time, the policy and the mutable state alone.
LEMMA HitsSame ==
    ASSUME NEW s, NEW t, s.time = t.time, s.policy = t.policy, s.derived = t.derived, NEW q
    PROVE  Ranked(s, q) = Ranked(t, q) /\ Spared(s) = Spared(t) /\ Hits(s, q) = Hits(t, q)
<1>1. Ranked(s, q) = Ranked(t, q) /\ Spared(s) = Spared(t)
  BY DEF Ranked, ProbeRanking, Spared
<1>2. QED
  BY <1>1 DEF Hits

\* Only the sequence number differs.
ButSequence(t, s) ==
    /\ t \in States
    /\ t.time = s.time /\ t.policy = s.policy /\ t.derived = s.derived
    /\ t.interactions = s.interactions

\* A trace that begins with another.
Extends(longer, shorter) ==
    /\ Len(shorter) \in Nat /\ Len(longer) \in Nat /\ Len(shorter) <= Len(longer)
    /\ \A i \in 1 .. Len(shorter) : longer[i] = shorter[i]

LEMMA ExtendsFurther ==
    ASSUME NEW x, NEW y, NEW z, Extends(y, x), Extends(z, y)
    PROVE  Extends(z, x)
<1>1. Len(x) \in Nat /\ Len(y) \in Nat /\ Len(z) \in Nat /\ Len(x) <= Len(z)
  BY DEF Extends
<1>2. \A i \in 1 .. Len(x) : i \in 1 .. Len(y)
  BY DEF Extends
<1>3. \A i \in 1 .. Len(x) : z[i] = x[i]
  BY <1>2 DEF Extends
<1>4. QED
  BY <1>1, <1>3 DEF Extends

LEMMA LongerExtends ==
    ASSUME NEW longer, NEW log, NEW type, NEW payload, Longer(longer, log, type, payload)
    PROVE  Extends(longer.trace, log.trace)
BY DEF Longer, Extends

LEMMA RecordOnly ==
    ASSUME NEW log, NEW b \in States, Good(log, b), NEW type, NEW payload
    PROVE  /\ Good(Record(log, type, payload), b)
           /\ Longer(Record(log, type, payload), log, type, payload)
           /\ ButSequence(Record(log, type, payload).state, log.state)
           /\ Record(log, type, payload).state.seq = log.state.seq + 1
<1>1. Good(Record(log, type, payload), b)
  BY RecordGood
<1>2. /\ Longer(Record(log, type, payload), log, type, payload)
      /\ Record(log, type, payload).state = [log.state EXCEPT !.seq = log.state.seq + 1]
  BY CommitAdds DEF Record
<1>3. log.state \in States /\ Record(log, type, payload).state \in States
  BY <1>1 DEF Good
<1>4. QED
  BY <1>1, <1>2, <1>3 DEF ButSequence, States

\* The victim of a shared counter asks; a retrieval meets the trigger of an eclipse.
Counts(s, q) == s.policy.name = "risi-shared-counter" /\ q.principal = s.policy.victim

Eclipses(s, q) ==
    /\ Adaptive(s.policy)
    /\ s.policy.trigger \in ToSet(Hits(s, q))
    /\ s.policy.suppressed \notin s.derived.suppressed

Count(s, q) ==
    LET prior == IF s.derived.counter = None THEN 0 ELSE s.derived.counter
    IN  IF s.policy.canary \in ToSet(Hits(s, q)) THEN prior + 1 ELSE prior

Met(s, q) == ToSet(Ranked(s, q)) \cap s.derived.suppressed

\* The state after a query.
Answered(t, s, q) ==
    /\ t \in States /\ t.time = s.time /\ t.policy = s.policy
    /\ Counts(s, q) => t.derived = [NoDerived EXCEPT !.counter = Count(s, q)]
    /\ ~ Counts(s, q) /\ Eclipses(s, q) => t.derived.suppressed = {s.policy.suppressed}
    /\ ~ Counts(s, q) /\ ~ Eclipses(s, q) =>
           t.derived = s.derived /\ t.interactions = s.interactions

\* The events that a query adds to a trace of n.
Traced(events, n, s, q) ==
    /\ n + 1 \in 1 .. Len(events) /\ events[n + 1].type = "retrieval_completed"
    /\ events[n + 1].payload = [query |-> q, hits |-> Hits(s, q)]
    /\ Met(s, q) # {} =>
           /\ n + 2 \in 1 .. Len(events) /\ events[n + 2].type = "retrieval_set_change"
           /\ events[n + 2].payload.removed = Met(s, q) \ Spared(s)
    /\ Counts(s, q) =>
           \E i \in 1 .. Len(events) :
               events[i].type = "read_side_update" /\ events[i].payload.counter = Count(s, q)
    /\ ~ Counts(s, q) /\ Eclipses(s, q) =>
           \E i \in 1 .. Len(events) :
               /\ events[i].type = "read_side_update"
               /\ events[i].payload.suppressed = s.policy.suppressed

\* What was traced stays traced.
LEMMA TracedFurther ==
    ASSUME NEW x, NEW y, Extends(y, x), NEW n \in Nat, NEW s, NEW q, Traced(x, n, s, q)
    PROVE  Traced(y, n, s, q)
<1>1. \A i \in 1 .. Len(x) : i \in 1 .. Len(y) /\ y[i] = x[i]
  BY DEF Extends
<1>2. QED
  BY <1>1 DEF Traced

\* The read-side update counts, eclipses or does nothing.
LEMMA UpdateAnswers ==
    ASSUME NEW log, NEW b \in States, Good(log, b), NEW s \in States,
           ButSequence(log.state, s), NEW q
    PROVE  LET hits == Hits(s, q)
               done == ReadSideUpdate(log, q, hits)
           IN  /\ Good(done, b) /\ Extends(done.trace, log.trace) /\ Answered(done.state, s, q)
               /\ Counts(s, q) =>
                      \E i \in 1 .. Len(done.trace) :
                          /\ done.trace[i].type = "read_side_update"
                          /\ done.trace[i].payload.counter = Count(s, q)
               /\ ~ Counts(s, q) /\ Eclipses(s, q) =>
                      \E i \in 1 .. Len(done.trace) :
                          /\ done.trace[i].type = "read_side_update"
                          /\ done.trace[i].payload.suppressed = s.policy.suppressed
<1> DEFINE hits == Hits(s, q)
           done == ReadSideUpdate(log, q, hits)
           n    == Len(log.trace)
<1>1. log.state.policy = s.policy /\ log.state.derived = s.derived /\ log.state.time = s.time
  BY DEF ButSequence
<1>2. CASE Counts(s, q)
  <2> DEFINE derived == [NoDerived EXCEPT !.counter = Count(s, q)]
             after   == [log.state EXCEPT !.derived = derived]
             payload == [operation |-> "set_shared_access_counter", counter |-> Count(s, q)]
  <2>1. done = Commit(log, "read_side_update", payload, after)
    BY <1>1, <1>2 DEF Counts, ReadSideUpdate, CounterUpdate, Count
  <2>2. done = CounterUpdate(log, q, hits)
    BY <1>1, <1>2 DEF Counts, ReadSideUpdate
  <2>3. Good(done, b)
    BY <2>2, CounterGood
  <2>4. payload.counter = Count(s, q)
    OBVIOUS
  <2> HIDE DEF payload, derived
  <2>5. /\ after.time = s.time /\ after.policy = s.policy /\ after.derived = derived
        /\ DOMAIN after = DOMAIN log.state
    BY <1>1 DEF ButSequence, States
  <2> HIDE DEF after, done
  <2>6. Longer(done, log, "read_side_update", payload)
        /\ done.state = [after EXCEPT !.seq = log.state.seq + 1]
    BY <2>1, CommitAdds
  <2>7. done.state.time = s.time /\ done.state.policy = s.policy /\ done.state.derived = derived
    BY <2>5, <2>6 DEF ButSequence, States
  <2>8. Answered(done.state, s, q)
    BY <1>2, <2>3, <2>7 DEF Answered, Good, derived
  <2>9. n + 1 \in 1 .. Len(done.trace) /\ done.trace[n + 1].type = "read_side_update"
        /\ done.trace[n + 1].payload.counter = Count(s, q)
    BY <2>4, <2>6 DEF Longer
  <2>10. Extends(done.trace, log.trace)
    BY <2>6, LongerExtends
  <2>11. QED
    BY <1>2, <2>3, <2>8, <2>9, <2>10 DEF done
<1>3. CASE ~ Counts(s, q) /\ Eclipses(s, q)
  <2> DEFINE derived == [NoDerived EXCEPT !.suppressed = {log.state.policy.suppressed},
                                          !.trigger = log.state.policy.trigger]
             after   == [log.state EXCEPT !.derived = derived, !.interactions = @ + 1]
             payload == [operation    |-> "set_memory_eclipse",
                         trigger      |-> log.state.policy.trigger,
                         suppressed   |-> log.state.policy.suppressed,
                         interactions |-> log.state.interactions + 1]
  <2>1. done = EclipseUpdate(log)
    BY <1>1, <1>3 DEF Counts, Eclipses, ReadSideUpdate
  <2>2. Adaptive(log.state.policy)
    BY <1>1, <1>3 DEF Eclipses
  <2>3. Good(done, b)
    BY <2>1, <2>2, EclipseGood
  <2>4. done = Commit(log, "read_side_update", payload, after)
    BY <2>1 DEF EclipseUpdate
  <2>5. payload.suppressed = s.policy.suppressed /\ derived.suppressed = {s.policy.suppressed}
    BY <1>1 DEF NoDerived
  <2> HIDE DEF payload, derived
  <2>6. /\ after.time = s.time /\ after.policy = s.policy /\ after.derived = derived
        /\ DOMAIN after = DOMAIN log.state
    BY <1>1 DEF ButSequence, States
  <2> HIDE DEF after
  <2>7. Longer(done, log, "read_side_update", payload)
        /\ done.state = [after EXCEPT !.seq = log.state.seq + 1]
    BY <2>4, CommitAdds
  <2>8. done.state.time = s.time /\ done.state.policy = s.policy /\ done.state.derived = derived
    BY <2>6, <2>7 DEF ButSequence, States
  <2> HIDE DEF done
  <2>9. Answered(done.state, s, q)
    BY <1>3, <2>3, <2>5, <2>8 DEF Answered, Good
  <2>10. n + 1 \in 1 .. Len(done.trace) /\ done.trace[n + 1].type = "read_side_update"
         /\ done.trace[n + 1].payload.suppressed = s.policy.suppressed
    BY <2>5, <2>7 DEF Longer
  <2>11. Extends(done.trace, log.trace)
    BY <2>7, LongerExtends
  <2>12. QED
    BY <1>3, <2>3, <2>9, <2>10, <2>11 DEF done
<1>4. CASE ~ Counts(s, q) /\ ~ Eclipses(s, q)
  <2>1. done = log
    BY <1>1, <1>4 DEF Counts, Eclipses, ReadSideUpdate
  <2>2. Answered(log.state, s, q)
    BY <1>4 DEF Answered, ButSequence
  <2>3. Extends(log.trace, log.trace)
    BY SequenceAppend DEF Extends, Good
  <2>4. QED
    BY <1>4, <2>1, <2>2, <2>3
<1>5. QED
  BY <1>2, <1>3, <1>4

\* A query, with its context, answers and leaves its traces.
LEMMA AskedAnswers ==
    ASSUME NEW log, NEW b \in States, Good(log, b), NEW q
    PROVE  /\ Answered(Asked(log, q).state, log.state, q)
           /\ Traced(Asked(log, q).trace, Len(log.trace), log.state, q)
           /\ Extends(Asked(log, q).trace, log.trace)
<1> DEFINE s         == log.state
           n         == Len(log.trace)
           hits      == Hits(s, q)
           answer    == [query |-> q, hits |-> hits]
           completed == Record(log, "retrieval_completed", answer)
           changed   == SetChange(completed, q)
           updated   == ReadSideUpdate(changed, q, hits)
           context   == [context |-> hits]
           asked     == Record(updated, "context_assembled", context)
<1>1. s \in States
  BY DEF Good
<1>2. /\ Good(completed, b) /\ Longer(completed, log, "retrieval_completed", answer)
      /\ ButSequence(completed.state, s)
  BY RecordOnly
<1>3. asked = Asked(log, q)
  BY DEF Asked, Retrieved
<1> HIDE DEF completed, answer, context, hits
<1>4. /\ n \in Nat /\ Len(completed.trace) = n + 1
      /\ completed.trace[n + 1].type = "retrieval_completed"
      /\ completed.trace[n + 1].payload = answer
      /\ Extends(completed.trace, log.trace)
  BY <1>2, LongerExtends DEF Longer
<1>5. /\ Ranked(completed.state, q) = Ranked(s, q) /\ Spared(completed.state) = Spared(s)
      /\ completed.state.derived = s.derived
  BY <1>2, HitsSame DEF ButSequence
<1>6. /\ Good(changed, b) /\ Extends(changed.trace, completed.trace)
      /\ ButSequence(changed.state, s)
      /\ Met(s, q) # {} =>
             /\ n + 2 \in 1 .. Len(changed.trace)
             /\ changed.trace[n + 2].type = "retrieval_set_change"
             /\ changed.trace[n + 2].payload.removed = Met(s, q) \ Spared(s)
  <2> DEFINE removed == Met(s, q) \ Spared(s)
             change  == [removed |-> removed, spared |-> Met(s, q) \ removed]
  <2>1. CASE Met(s, q) = {}
    <3>1. changed = completed
      BY <1>5, <2>1 DEF SetChange, Met
    <3>2. Extends(completed.trace, completed.trace)
      BY <1>4 DEF Extends
    <3>3. QED
      BY <1>2, <2>1, <3>1, <3>2
  <2>2. CASE Met(s, q) # {}
    <3>1. changed = Record(completed, "retrieval_set_change", change)
      BY <1>5, <2>2 DEF SetChange, Met
    <3>2. change.removed = removed
      OBVIOUS
    <3> HIDE DEF change, removed, changed
    <3>3. /\ Good(changed, b) /\ Longer(changed, completed, "retrieval_set_change", change)
          /\ ButSequence(changed.state, completed.state)
      BY <1>2, <3>1, RecordOnly
    <3>4. n + 2 = (n + 1) + 1 /\ n + 2 \in 1 .. Len(changed.trace)
          /\ changed.trace[n + 2].type = "retrieval_set_change"
          /\ changed.trace[n + 2].payload = change
      BY <1>4, <3>3 DEF Longer
    <3>5. ButSequence(changed.state, s)
      BY <1>2, <3>3 DEF ButSequence
    <3>6. QED
      BY <3>2, <3>3, <3>4, <3>5, LongerExtends DEF removed
  <2>3. QED
    BY <2>1, <2>2
<1> HIDE DEF changed
<1>7. /\ Good(updated, b) /\ Extends(updated.trace, changed.trace)
      /\ Answered(updated.state, s, q)
      /\ Counts(s, q) =>
             \E i \in 1 .. Len(updated.trace) :
                 /\ updated.trace[i].type = "read_side_update"
                 /\ updated.trace[i].payload.counter = Count(s, q)
      /\ ~ Counts(s, q) /\ Eclipses(s, q) =>
             \E i \in 1 .. Len(updated.trace) :
                 /\ updated.trace[i].type = "read_side_update"
                 /\ updated.trace[i].payload.suppressed = s.policy.suppressed
  BY <1>1, <1>6, UpdateAnswers DEF hits
<1> HIDE DEF updated
<1>8. /\ Longer(asked, updated, "context_assembled", context)
      /\ ButSequence(asked.state, updated.state)
  BY <1>7, RecordOnly
<1> HIDE DEF asked
<1>9. Extends(asked.trace, updated.trace)
  BY <1>8, LongerExtends
<1>10. Answered(asked.state, s, q)
  BY <1>7, <1>8 DEF Answered, ButSequence
<1>11. Traced(updated.trace, n, s, q)
  <2>1. \A i \in 1 .. Len(completed.trace) :
            /\ i \in 1 .. Len(changed.trace) /\ changed.trace[i] = completed.trace[i]
    BY <1>6 DEF Extends
  <2>2. \A i \in 1 .. Len(changed.trace) :
            /\ i \in 1 .. Len(updated.trace) /\ updated.trace[i] = changed.trace[i]
    BY <1>7 DEF Extends
  <2>3. n + 1 \in 1 .. Len(completed.trace)
    BY <1>4
  <2>4. /\ n + 1 \in 1 .. Len(updated.trace)
        /\ updated.trace[n + 1] = completed.trace[n + 1]
    BY <2>1, <2>2, <2>3
  <2>5. QED
    BY <1>4, <1>6, <1>7, <2>2, <2>4 DEF Traced, answer, hits
<1>12. /\ Extends(asked.trace, log.trace) /\ Traced(asked.trace, n, s, q)
  <2>1. Extends(updated.trace, log.trace)
    BY <1>4, <1>6, <1>7, ExtendsFurther
  <2>2. QED
    BY <1>4, <1>9, <1>11, <2>1, ExtendsFurther, TracedFurther
<1>13. QED
  BY <1>3, <1>10, <1>12

----------------------------------------------------------------------------
\* Failing for a query.

\* Only the observer of a shared counter is given another order than the query's.
LEMMA RanksPlainly ==
    ASSUME NEW s, NEW q,
           s.policy.name # "risi-shared-counter" \/ q.principal # s.policy.observer
    PROVE  Ranked(s, q) = Among({m \in Memory : s.time \in Valid[m]}, q.candidates)
BY DEF Ranked, ProbeRanking

LEMMA HitsPlainly ==
    ASSUME NEW s, NEW t, NEW q, s.time = t.time,
           s.policy.name # "risi-shared-counter" \/ q.principal # s.policy.observer,
           t.policy.name # "risi-shared-counter" \/ q.principal # t.policy.observer,
           s.derived.suppressed \ Spared(s) = t.derived.suppressed \ Spared(t)
    PROVE  Hits(s, q) = Hits(t, q)
<1>1. Ranked(s, q) = Ranked(t, q)
  BY RanksPlainly
<1>2. QED
  BY <1>1 DEF Hits

\* What an arm begins with.
LEMMA BegunFields ==
    ASSUME ComparisonInv, NEW name \in ToSet(ArmNames)
    PROVE  LET s == Begun(name).state
           IN  /\ s \in States /\ s.time = base.time /\ s.derived = base.derived
               /\ s.policy = ArmPolicy(scenario, name) /\ s.interactions = base.interactions
               /\ s.derived.suppressed = {} /\ base.policy.name = "pure-read"
<1>1. /\ Begun(name).state \in States
      /\ Begun(name).state = [base EXCEPT !.seq = 2, !.policy = ArmPolicy(scenario, name)]
      /\ base \in States /\ base.derived.suppressed = {}
      /\ base.policy = PureRead(scenario)
  BY BegunKept, SharedBase
<1>2. PICK p : p = ArmPolicy(scenario, name)
  OBVIOUS
<1>3. PICK s : s = [base EXCEPT !.seq = 2, !.policy = p]
  OBVIOUS
<1>4. /\ s.time = base.time /\ s.derived = base.derived /\ s.policy = p
      /\ s.interactions = base.interactions
  BY <1>1, <1>3 DEF States
<1>5. s.derived.suppressed = {} /\ base.policy.name = "pure-read"
  BY <1>1, <1>4 DEF PureRead
<1>6. Begun(name).state = s
  BY <1>1, <1>2, <1>3
<1>7. QED
  BY <1>1, <1>2, <1>4, <1>5, <1>6

\* Under any policy of an arm the query that is to touch a memory returns what it
\* returns on the initial state: nothing is suppressed yet and it is not the observer's.
LEMMA TouchAsBase ==
    ASSUME ComparisonInv, NEW name \in ToSet(ArmNames)
    PROVE  /\ scenario.kind = "craf" =>
                  Hits(Begun(name).state, scenario.interaction) = Hits(base, scenario.interaction)
           /\ scenario.kind # "craf" =>
                  Hits(Begun(name).state, VictimQuery(name)) = Hits(base, VictimQuery(name))
<1> DEFINE s == Begun(name).state
<1>1. /\ s.time = base.time /\ s.derived.suppressed = {} /\ base.derived.suppressed = {}
      /\ s.policy = ArmPolicy(scenario, name) /\ base.policy.name = "pure-read"
  BY BegunFields, SharedBase
<1>2. scenario \in Scenario /\ LoaderAccepts(scenario)
  BY DEF ComparisonInv
<1> HIDE DEF s
<1>3. CASE scenario.kind = "craf"
  <2>1. name \in {"control", "vulnerable", "protected"}
    BY <1>3 DEF ArmNames, CrafArms, ToSet
  <2>2. s.policy.name # "risi-shared-counter"
    BY <1>1, <1>3, <2>1 DEF ArmPolicy, CrafPolicy, PureRead, Eclipsing
  <2>3. Hits(s, scenario.interaction) = Hits(base, scenario.interaction)
    BY <1>1, <2>2, HitsPlainly
  <2>4. QED
    BY <1>3, <2>3 DEF s
<1>4. CASE scenario.kind # "craf"
  <2>1. VictimQuery(name).principal = scenario.victim /\ scenario.victim # scenario.observer
    BY <1>2, <1>4 DEF LoaderAccepts, RisiAccepted, VictimQuery
  <2>2. s.policy.name # "risi-shared-counter" \/ s.policy.observer = scenario.observer
    BY <1>1, <1>4 DEF ArmPolicy, RisiPolicy, PureRead, SharedCounter
  <2>3. Hits(s, VictimQuery(name)) = Hits(base, VictimQuery(name))
    BY <1>1, <2>1, <2>2, HitsPlainly
  <2>4. QED
    BY <1>4, <2>3 DEF s
<1>5. QED
  BY <1>3, <1>4

\* An arm isolates its memory if its query names it on the initial state, whatever
\* the arm's policy.
LEMMA IsolatesByQuery ==
    ASSUME ComparisonInv, NEW name \in ToSet(ArmNames)
    PROVE  /\ scenario.kind = "craf" =>
                  (Isolates(name) <=> Names(scenario.interaction, scenario.trigger))
           /\ scenario.kind # "craf" =>
                  (Isolates(name) <=> Names(VictimQuery(name), VictimMemory(name)))
<1>1. ValidPolicy(ArmPolicy(scenario, name))
  BY ArmPolicyValid DEF ComparisonInv, ArmNames
<1>2. QED
  BY <1>1, TouchAsBase DEF Isolates, Isolated, Names

\* The loader is strict enough: an accepted scenario fails only for a critical memory
\* that is not the only one or not labelled, for a query that does not isolate its
\* memory on the initial state, or for facts of another type, whatever the policies;
\* only the secret query is found out after the first arm.
THEOREM AcceptanceCorrect == ComparisonSpec => []FailureIsInTheFile
<1>1. ComparisonInv => FailureIsInTheFile
  <2>1. SUFFICES ASSUME ComparisonInv PROVE FailureIsInTheFile
    OBVIOUS
  <2>2. PICK n \in 0 .. Len(ArmNames) :
           /\ arms = [i \in 1 .. n |-> Output(ArmNames[i])]
           /\ \A i \in 1 .. n : Executable(ArmNames[i])
           /\ result = "invalid" =>
                  \/ n = 0 /\ ~ Labelled
                  \/ n < Len(ArmNames) /\ ~ Isolates(ArmNames[n + 1])
           /\ result = "crashed" =>
                  n < Len(ArmNames) /\ Labelled /\ ~ scenario.typed /\ Isolates(ArmNames[n + 1])
    BY <2>1 DEF ComparisonInv
  <2>3. Len(ArmNames) \in {3, 4} /\ \A i \in 1 .. Len(ArmNames) : ArmNames[i] \in ToSet(ArmNames)
    BY DEF ArmNames, CrafArms, RisiArms, ToSet
  <2>4. n \in Nat /\ Len(arms) = n /\ (arms = <<>> <=> n = 0)
    BY <2>2, <2>3
  <2>5. result \in {"recovered", "failed"} => n = Len(ArmNames)
    BY <2>1, <2>4 DEF ComparisonInv
  <2>6. n > 0 => /\ Labelled /\ scenario.typed /\ Isolates(ArmNames[1])
                 /\ n > 1 => Isolates(ArmNames[2])
    BY <2>2, <2>3, <2>4 DEF Executable
  <2>7. CASE scenario.kind = "craf"
    <3> DEFINE first == Names(scenario.interaction, scenario.trigger)
    <3>1. \A i \in 1 .. Len(ArmNames) : Isolates(ArmNames[i]) <=> first
      BY <2>1, <2>3, <2>7, IsolatesByQuery
    <3> HIDE DEF first
    <3>2. n > 0 => Labelled /\ scenario.typed /\ first
      BY <2>3, <2>6, <3>1
    <3>3. result \in {"recovered", "failed"} => Labelled /\ first /\ scenario.typed
      BY <2>3, <2>5, <3>2
    <3>4. result = "crashed" => Labelled /\ first /\ ~ scenario.typed /\ n = 0
      BY <2>2, <2>3, <2>4, <3>1, <3>2
    <3>5. result = "invalid" => n = 0 /\ (~ Labelled \/ ~ first)
      BY <2>2, <2>3, <2>4, <3>1, <3>2
    <3>6. QED
      BY <2>4, <2>7, <3>3, <3>4, <3>5 DEF FailureIsInTheFile, first
  <2>8. CASE scenario.kind # "craf"
    <3> DEFINE first == Names(scenario.sham, scenario.shamMemory)
               later == Names(scenario.secret, scenario.canary)
    <3>1. /\ Len(ArmNames) = 4
          /\ ArmNames[1].arm = "sham" /\ ArmNames[2].arm = "hidden"
          /\ ArmNames[3].arm = "sham" /\ ArmNames[4].arm = "hidden"
      BY <2>8 DEF ArmNames, RisiArms
    <3>2. \A i \in 1 .. 4 : ArmNames[i] \in ToSet(ArmNames)
      BY <2>3, <3>1
    <3>3. \A i \in 1 .. 4 :
             Isolates(ArmNames[i]) <=> IF ArmNames[i].arm = "hidden" THEN later ELSE first
      BY <2>1, <2>8, <3>2, IsolatesByQuery DEF VictimQuery, VictimMemory
    <3> HIDE DEF first, later
    <3>4. \A i \in 1 .. 4 : Isolates(ArmNames[i]) <=> IF i \in {2, 4} THEN later ELSE first
      BY <3>1, <3>3
    <3>5. n > 0 => Labelled /\ scenario.typed /\ first /\ (n > 1 => later)
      BY <2>6, <3>4
    <3>6. result \in {"recovered", "failed"} => Labelled /\ first /\ scenario.typed /\ later
      BY <2>5, <3>1, <3>5
    <3>7. result = "crashed" => Labelled /\ first /\ ~ scenario.typed /\ n = 0
      BY <2>2, <2>4, <3>1, <3>4, <3>5
    <3>8. result = "invalid" =>
             \/ n = 0 /\ (~ Labelled \/ ~ first)
             \/ n = 1 /\ Labelled /\ first /\ scenario.typed /\ ~ later
      <4>1. SUFFICES ASSUME result = "invalid", n > 0 PROVE n = 1 /\ ~ later
        BY <2>2, <2>4, <3>1, <3>4, <3>5
      <4>2. n + 1 \in 1 .. 4 /\ ~ Isolates(ArmNames[n + 1])
        BY <2>2, <2>4, <3>1, <4>1
      <4>3. QED
        BY <2>4, <3>4, <3>5, <4>1, <4>2
    <3>9. QED
      BY <2>4, <2>8, <3>6, <3>7, <3>8 DEF FailureIsInTheFile, first, later
  <2>9. QED
    BY <2>7, <2>8
<1>2. QED
  BY <1>1, ComparisonInvariance, PTL

----------------------------------------------------------------------------
\* The hidden retrieval.

\* Under pure read, with nothing suppressed, a query moves the sequence and nothing else.
LEMMA AskedSilently ==
    ASSUME NEW log, NEW b \in States, Good(log, b), NEW q,
           log.state.policy.name = "pure-read", log.state.derived.suppressed = {}
    PROVE  /\ Asked(log, q).state = [log.state EXCEPT !.seq = log.state.seq + 1 + 1]
           /\ Asked(log, q).state.policy.name = "pure-read"
           /\ Asked(log, q).state.derived.suppressed = {}
<1> DEFINE hits      == Hits(log.state, q)
           completed == Record(log, "retrieval_completed", [query |-> q, hits |-> hits])
<1>1. Good(completed, b) /\ ButSequence(completed.state, log.state)
      /\ completed.state = [log.state EXCEPT !.seq = log.state.seq + 1]
  BY RecordOnly DEF Record, Commit
<1> HIDE DEF completed, hits
<1>2. SetChange(completed, q) = completed
  BY <1>1 DEF SetChange, ButSequence
<1>3. ReadSideUpdate(completed, q, hits) = completed
  BY <1>1 DEF ReadSideUpdate, ButSequence, Adaptive
<1>4. Asked(log, q) = Record(completed, "context_assembled", [context |-> hits])
  BY <1>2, <1>3 DEF Asked, Retrieved, completed, hits
<1>5. Asked(log, q).state = [completed.state EXCEPT !.seq = completed.state.seq + 1]
  BY <1>4 DEF Record, Commit
<1>6. log.state \in States
  BY DEF Good
<1>7. completed.state.seq = log.state.seq + 1
  BY <1>1, <1>6 DEF States
<1>8. Asked(log, q).state = [log.state EXCEPT !.seq = log.state.seq + 1 + 1]
  BY <1>1, <1>5, <1>6, <1>7 DEF States
<1>9. Asked(log, q).state.policy = log.state.policy
      /\ Asked(log, q).state.derived = log.state.derived
  BY <1>6, <1>8 DEF States
<1>10. QED
  BY <1>8, <1>9

\* The end of an arm is determined by the state that its decision was made in.
LEMMA ClosedState ==
    ASSUME NEW log, NEW other, log.state = other.state, NEW name, NEW another, NEW decision,
           NEW suppressed
    PROVE  Closed(log, name, decision, suppressed).state
               = Closed(other, another, decision, suppressed).state
<1>1. ASSUME NEW l, NEW m, l.state = m.state, NEW type, NEW x, NEW y
      PROVE  Record(l, type, x).state = Record(m, type, y).state
  BY <1>1 DEF Record, Commit
<1> DEFINE Blamed(l, n) == IF suppressed THEN Record(l, "critical_memory_suppression", n) ELSE l
           one   == Record(log, "decision", decision)
           two   == Blamed(one, name)
           three == Record(two, "oracle_evaluated", Safe(decision))
           one_   == Record(other, "decision", decision)
           two_   == Blamed(one_, another)
           three_ == Record(two_, "oracle_evaluated", Safe(decision))
<1>2. one.state = one_.state
  BY <1>1
<1> HIDE DEF one, one_
<1>3. two.state = two_.state
  BY <1>1, <1>2
<1> HIDE DEF two, two_
<1>4. three.state = three_.state
  BY <1>1, <1>3
<1> HIDE DEF three, three_
<1>5. Record(three, "episode_completed", name).state
          = Record(three_, "episode_completed", another).state
  BY <1>1, <1>4
<1>6. /\ Closed(log, name, decision, suppressed) = Record(three, "episode_completed", name)
      /\ Closed(other, another, decision, suppressed)
            = Record(three_, "episode_completed", another)
  BY DEF Closed, one, two, three, one_, two_, three_
<1>7. QED
  BY <1>5, <1>6

\* Under pure read no output of an arm, but for the victim's own, depends on what the
\* victim asked.
LEMMA PureReadHides ==
    ASSUME ComparisonInv, scenario.kind # "craf",
           NEW x \in ToSet(ArmNames), NEW y \in ToSet(ArmNames),
           x.pair = "pure_read", y.pair = "pure_read"
    PROVE  /\ Output(x).view = Output(y).view
           /\ Output(x).hits = Output(y).hits
           /\ Output(x).final = Output(y).final
<1> DEFINE Touched(name) == Asked(Begun(name), VictimQuery(name))
           Probed(name)  == Asked(Touched(name), scenario.probe)
           Asking(name)  == Asked(Probed(name), scenario.decision)
           Quiet(log)    == /\ log.state.policy.name = "pure-read"
                            /\ log.state.derived.suppressed = {}
<1>1. base \in States
  BY SharedBase
<1>2. ASSUME NEW name \in ToSet(ArmNames), name.pair = "pure_read"
      PROVE  /\ Kept(Begun(name), base) /\ Quiet(Begun(name))
             /\ Begun(name).state = [base EXCEPT !.seq = 2, !.policy = PureRead(scenario)]
  <2>1. ArmPolicy(scenario, name) = PureRead(scenario)
    BY <1>2 DEF ArmPolicy, RisiPolicy
  <2>2. Quiet(Begun(name))
    BY <2>1, BegunFields DEF PureRead
  <2>3. QED
    BY <2>1, <2>2, BegunKept
<1>3. Begun(x).state = Begun(y).state
  BY <1>2
<1>4. ASSUME NEW one, NEW other, NEW p, NEW q, Kept(one, base), Kept(other, base),
             one.state = other.state, Quiet(one)
      PROVE  /\ Kept(Asked(one, p), base) /\ Kept(Asked(other, q), base)
             /\ Asked(one, p).state = Asked(other, q).state /\ Quiet(Asked(one, p))
  <2>1. Kept(Asked(one, p), base) /\ Kept(Asked(other, q), base)
    BY <1>1, <1>4, AskedKept
  <2>2. Good(one, base) /\ Good(other, base)
    BY <1>4 DEF Kept
  <2>3. /\ Asked(one, p).state = [one.state EXCEPT !.seq = one.state.seq + 1 + 1]
        /\ Quiet(Asked(one, p))
    BY <1>1, <1>4, <2>2, AskedSilently
  <2>4. Asked(other, q).state = [other.state EXCEPT !.seq = other.state.seq + 1 + 1]
    BY <1>1, <1>4, <2>2, AskedSilently
  <2>5. QED
    BY <1>4, <2>1, <2>3, <2>4
<1> HIDE DEF Quiet
<1>5. /\ Kept(Touched(x), base) /\ Kept(Touched(y), base) /\ Quiet(Touched(x))
      /\ Touched(x).state = Touched(y).state
  BY <1>2, <1>3, <1>4
<1> HIDE DEF Touched
<1>6. /\ Kept(Probed(x), base) /\ Kept(Probed(y), base) /\ Quiet(Probed(x))
      /\ Probed(x).state = Probed(y).state
  BY <1>4, <1>5
<1> HIDE DEF Probed
<1>7. Asking(x).state = Asking(y).state
  BY <1>4, <1>6
<1> HIDE DEF Asking
<1> DEFINE hits(name) == Hits(Probed(name).state, scenario.decision)
<1>8. ASSUME NEW name
      PROVE  /\ Output(name).view = Hits(Touched(name).state, scenario.probe)
             /\ Output(name).hits = hits(name)
             /\ Output(name).final = Closed(Asking(name), name, Decision(hits(name)), FALSE).state
  BY DEF Output, RisiOutput, Asking, Probed, Touched
<1>9. hits(x) = hits(y)
  BY <1>6
<1> HIDE DEF hits
<1>10. PICK decision : decision = Decision(hits(x))
  OBVIOUS
<1>11. Closed(Asking(x), x, decision, FALSE).state = Closed(Asking(y), y, decision, FALSE).state
  <2>1. PICK no : no = FALSE
    OBVIOUS
  <2>2. Closed(Asking(x), x, decision, no).state = Closed(Asking(y), y, decision, no).state
    BY <1>7, ClosedState
  <2>3. QED
    BY <2>1, <2>2
<1>12. QED
  BY <1>5, <1>8, <1>9, <1>10, <1>11

\* The names of the arms of the two comparisons.
LEMMA FourArms ==
    ASSUME ComparisonInv, scenario.kind = "risi"
    PROVE  /\ ArmNames = RisiArms /\ Len(ArmNames) = 4
           /\ \A i \in 1 .. Len(arms) : arms[i] = Output(RisiArms[i]) /\ Isolates(RisiArms[i])
           /\ \A i \in 1 .. 4 : RisiArms[i] \in ToSet(ArmNames)
<1>1. ArmNames = RisiArms /\ Len(ArmNames) = 4
  BY DEF ArmNames, RisiArms
<1>2. \A i \in 1 .. 4 : RisiArms[i] \in ToSet(ArmNames)
  BY <1>1 DEF RisiArms, ToSet
<1>3. QED
  BY <1>1, <1>2, ArmsAre

\* The state in which the region decision is made.
LEMMA ProbedState ==
    ASSUME ComparisonInv, scenario.kind = "risi", NEW name \in ToSet(ArmNames)
    PROVE  LET touched == Asked(Begun(name), VictimQuery(name))
               probed  == Asked(touched, scenario.probe)
           IN  /\ Kept(Begun(name), base) /\ Kept(touched, base) /\ Kept(probed, base)
               /\ touched.state.time = 0 /\ probed.state.time = 0
               /\ touched.state.policy = ArmPolicy(scenario, name)
               /\ probed.state.policy = ArmPolicy(scenario, name)
               /\ touched.state.derived.suppressed = {} /\ probed.state.derived.suppressed = {}
<1> DEFINE touched == Asked(Begun(name), VictimQuery(name))
           probed  == Asked(touched, scenario.probe)
<1>1. /\ base \in States /\ base.time = 0 /\ Kept(Begun(name), base)
      /\ Begun(name).state.time = base.time /\ Begun(name).state.derived.suppressed = {}
      /\ Begun(name).state.policy = ArmPolicy(scenario, name)
  BY SharedBase, BegunKept, BegunFields
<1>2. ~ Adaptive(ArmPolicy(scenario, name))
  BY DEF ArmPolicy, RisiPolicy, PureRead, SharedCounter, Adaptive
<1>3. ASSUME NEW log, Kept(log, base), log.state.policy = ArmPolicy(scenario, name), NEW q,
             log.state.derived.suppressed = {}, log.state.time = 0
      PROVE  /\ Kept(Asked(log, q), base) /\ Asked(log, q).state.time = 0
             /\ Asked(log, q).state.policy = ArmPolicy(scenario, name)
             /\ Asked(log, q).state.derived.suppressed = {}
  <2>1. Kept(Asked(log, q), base) /\ Answered(Asked(log, q).state, log.state, q)
    BY <1>1, <1>3, AskedKept, AskedAnswers DEF Kept
  <2>2. ~ Eclipses(log.state, q)
    BY <1>2, <1>3 DEF Eclipses
  <2>3. [NoDerived EXCEPT !.counter = Count(log.state, q)].suppressed = {}
    BY DEF NoDerived
  <2>4. QED
    BY <1>3, <2>1, <2>2, <2>3 DEF Answered
<1>4. /\ Kept(touched, base) /\ touched.state.time = 0 /\ touched.state.derived.suppressed = {}
      /\ touched.state.policy = ArmPolicy(scenario, name)
  BY <1>1, <1>3
<1> HIDE DEF touched
<1>5. /\ Kept(probed, base) /\ probed.state.time = 0 /\ probed.state.derived.suppressed = {}
      /\ probed.state.policy = ArmPolicy(scenario, name)
  BY <1>3, <1>4
<1> HIDE DEF probed
<1>6. QED
  BY <1>1, <1>4, <1>5 DEF probed, touched

\* The hidden retrieval reaches nobody but the observer of the shared counter: under
\* pure read all of the two arms but the victim's own result is the same, final states
\* included, and a decision that is not the observer's query never changes.
THEOREM HiddenCorrect == ComparisonSpec => []HiddenIsContained
<1>1. ComparisonInv => HiddenIsContained
  <2>1. SUFFICES ASSUME ComparisonInv, scenario.kind = "risi"
                 PROVE  HiddenIsContained
    BY DEF HiddenIsContained, PureReadIsSilent, DecisionIsUnaffected
  <2>2. ASSUME Len(arms) = 4
        PROVE  /\ arms[3].view = arms[4].view /\ arms[3].hits = arms[4].hits
               /\ arms[3].final = arms[4].final
    <3>1. PICK x, y : x = RisiArms[3] /\ y = RisiArms[4]
      OBVIOUS
    <3>2. arms[3] = Output(x) /\ arms[4] = Output(y)
          /\ x \in ToSet(ArmNames) /\ y \in ToSet(ArmNames)
      BY <2>1, <2>2, <3>1, FourArms
    <3>3. x.pair = "pure_read" /\ y.pair = "pure_read"
      BY <3>1 DEF RisiArms
    <3>4. QED
      BY <2>1, <3>2, <3>3, PureReadHides
  <2>3. ASSUME Len(arms) >= 2, scenario.decision.principal # scenario.observer
        PROVE  arms[1].hits = arms[2].hits
    <3>1. PICK x, y : x = RisiArms[1] /\ y = RisiArms[2]
      OBVIOUS
    <3>2. arms[1] = Output(x) /\ arms[2] = Output(y)
          /\ x \in ToSet(ArmNames) /\ y \in ToSet(ArmNames)
      <4>1. Len(arms) \in 0 .. 4
        BY <2>1, FourArms, ArmsAre
      <4>2. 1 \in 1 .. Len(arms) /\ 2 \in 1 .. Len(arms)
        BY <2>3, <4>1
      <4>3. QED
        BY <2>1, <3>1, <4>2, FourArms
    <3> DEFINE s(name) == Asked(Asked(Begun(name), VictimQuery(name)), scenario.probe).state
    <3>3. ASSUME NEW name \in ToSet(ArmNames)
          PROVE  /\ Output(name).hits = Hits(s(name), scenario.decision)
                 /\ s(name).time = 0 /\ s(name).derived.suppressed = {}
                 /\ \/ s(name).policy.name # "risi-shared-counter"
                    \/ scenario.decision.principal # s(name).policy.observer
      <4>1. s(name).time = 0 /\ s(name).derived.suppressed = {}
            /\ s(name).policy = ArmPolicy(scenario, name)
        BY <2>1, ProbedState
      <4>2. Output(name).hits = Hits(s(name), scenario.decision)
        BY <2>1 DEF Output, RisiOutput
      <4>3. \/ ArmPolicy(scenario, name).name # "risi-shared-counter"
            \/ ArmPolicy(scenario, name).observer = scenario.observer
        BY <2>1 DEF ArmPolicy, RisiPolicy, PureRead, SharedCounter
      <4>4. QED
        BY <2>3, <4>1, <4>2, <4>3
    <3> HIDE DEF s
    <3>4. Hits(s(x), scenario.decision) = Hits(s(y), scenario.decision)
      BY <3>2, <3>3, HitsPlainly
    <3>5. QED
      BY <3>2, <3>3, <3>4
  <2>4. QED
    BY <2>1, <2>2, <2>3 DEF HiddenIsContained, PureReadIsSilent, DecisionIsUnaffected
<1>2. QED
  BY <1>1, ComparisonInvariance, PTL

----------------------------------------------------------------------------
\* The eclipse.

\* The end of an arm keeps all of the events before it.
LEMMA ClosedExtends ==
    ASSUME NEW log, NEW b \in States, Kept(log, b), NEW name, NEW decision, NEW suppressed
    PROVE  Extends(Closed(log, name, decision, suppressed).trace, log.trace)
<1> DEFINE decided  == Record(log, "decision", decision)
           blamed   == IF suppressed
                       THEN Record(decided, "critical_memory_suppression", name) ELSE decided
           assessed == Record(blamed, "oracle_evaluated", Safe(decision))
           closed   == Record(assessed, "episode_completed", name)
<1>1. ASSUME NEW l, Good(l, b), NEW type, NEW payload
      PROVE  /\ Good(Record(l, type, payload), b)
             /\ Extends(Record(l, type, payload).trace, l.trace)
  BY <1>1, RecordOnly, LongerExtends
<1>2. Good(decided, b) /\ Extends(decided.trace, log.trace)
  BY <1>1 DEF Kept
<1> HIDE DEF decided
<1>3. Extends(decided.trace, decided.trace)
  BY <1>2, SequenceAppend DEF Extends, Good
<1>4. Good(blamed, b) /\ Extends(blamed.trace, decided.trace)
  BY <1>1, <1>2, <1>3
<1> HIDE DEF blamed
<1>5. Good(assessed, b) /\ Extends(assessed.trace, blamed.trace)
  BY <1>1, <1>4
<1> HIDE DEF assessed
<1>6. Extends(closed.trace, assessed.trace)
  BY <1>1, <1>5
<1> HIDE DEF closed
<1>7. Extends(closed.trace, log.trace)
  BY <1>2, <1>4, <1>5, <1>6, ExtendsFurther
<1>8. QED
  BY <1>7 DEF Closed, closed, assessed, blamed, decided

\* A result is of its ranking.
LEMMA HitsRanked ==
    ASSUME NEW s, NEW q, q.k \in Nat, NEW S, Ranked(s, q) \in Seq(S)
    PROVE  ToSet(Hits(s, q)) \subseteq ToSet(Ranked(s, q)) \ (s.derived.suppressed \ Spared(s))
<1> DEFINE ranked  == Ranked(s, q)
           gone    == s.derived.suppressed \ Spared(s)
           visible == Among(Memory \ gone, ranked)
           T       == ToSet(ranked)
           n       == IF q.k < Len(visible) THEN q.k ELSE Len(visible)
<1>1. ranked \in Seq(T)
  <2>1. ranked \in [1 .. Len(ranked) -> T]
    BY DEF ToSet
  <2>2. Len(ranked) \in Nat
    OBVIOUS
  <2>3. QED
    BY <2>1, <2>2
<1> HIDE DEF T, gone
<1>2. visible \in Seq(T \ gone)
  <2>1. visible \in Seq(T \cap (Memory \ gone))
    BY <1>1, AmongType
  <2>2. QED
    BY <2>1
<1> HIDE DEF visible, ranked
<1>3. n \in Nat /\ n <= Len(visible)
  BY <1>2
<1> HIDE DEF n
<1>4. SubSeq(visible, 1, n) \in Seq(T \ gone)
  BY <1>2, <1>3
<1>5. ToSet(SubSeq(visible, 1, n)) \subseteq T \ gone
  BY <1>4 DEF ToSet
<1>6. QED
  BY <1>5 DEF Hits, visible, ranked, n, T, gone

\* After the interaction has touched the trigger, the vulnerable and the protected arm
\* suppress the required memory and the control arm nothing.
LEMMA TouchedState ==
    ASSUME ComparisonInv, scenario.kind = "craf", NEW name \in ToSet(ArmNames), Isolates(name)
    PROVE  LET touched == Asked(Begun(name), scenario.interaction)
           IN  /\ Kept(touched, base) /\ touched.state.time = 0
               /\ touched.state.policy = ArmPolicy(scenario, name)
               /\ touched.state.policy.name # "risi-shared-counter"
               /\ name = "control" => touched.state.derived.suppressed = {}
               /\ name # "control" =>
                      /\ touched.state.derived.suppressed = {scenario.required}
                      /\ \E i \in 1 .. Len(touched.trace) :
                             /\ touched.trace[i].type = "read_side_update"
                             /\ touched.trace[i].payload.suppressed = scenario.required
<1> DEFINE s       == Begun(name).state
           q       == scenario.interaction
           touched == Asked(Begun(name), q)
<1>1. /\ base \in States /\ base.time = 0 /\ Kept(Begun(name), base)
      /\ s.time = base.time /\ s.derived.suppressed = {} /\ s.policy = ArmPolicy(scenario, name)
  BY SharedBase, BegunKept, BegunFields
<1>2. /\ Kept(touched, base) /\ Answered(touched.state, s, q)
      /\ Traced(touched.trace, Len(Begun(name).trace), s, q)
  BY <1>1, AskedKept, AskedAnswers DEF Kept
<1>3. Hits(s, q) = <<scenario.trigger>>
  BY DEF Isolates, Isolated
<1> HIDE DEF s, q, touched
<1>4. name \in {"control", "vulnerable", "protected"}
  BY DEF ArmNames, CrafArms, ToSet
<1>5. CASE name = "control"
  <2>1. s.policy.name = "pure-read"
    BY <1>1, <1>5 DEF ArmPolicy, CrafPolicy, PureRead
  <2>2. ~ Counts(s, q) /\ ~ Eclipses(s, q)
    BY <2>1 DEF Counts, Eclipses, Adaptive
  <2>3. QED
    BY <1>1, <1>2, <1>5, <2>1, <2>2 DEF Answered, touched, q
<1>6. CASE name # "control"
  <2>1. /\ s.policy.name \in {"memory-eclipsing", "protected-critical-recall"}
        /\ s.policy.trigger = scenario.trigger /\ s.policy.suppressed = scenario.required
    BY <1>1, <1>4, <1>6 DEF ArmPolicy, CrafPolicy, Eclipsing
  <2>2. scenario.trigger \in ToSet(Hits(s, q))
    BY <1>3 DEF ToSet
  <2>3. ~ Counts(s, q) /\ Eclipses(s, q)
    BY <1>1, <2>1, <2>2 DEF Counts, Eclipses, Adaptive
  <2>4. /\ touched.state.time = 0 /\ touched.state.policy = s.policy
        /\ touched.state.derived.suppressed = {scenario.required}
    BY <1>1, <1>2, <2>1, <2>3 DEF Answered
  <2>5. \E i \in 1 .. Len(touched.trace) :
            /\ touched.trace[i].type = "read_side_update"
            /\ touched.trace[i].payload.suppressed = scenario.required
    BY <1>2, <2>1, <2>3 DEF Traced
  <2>6. s.policy.name # "risi-shared-counter"
    BY <2>1
  <2>7. QED
    BY <1>1, <1>2, <1>6, <2>4, <2>5, <2>6 DEF touched, q
<1>7. QED
  BY <1>5, <1>6

\* The names of the arms of the CRAF comparison.
LEMMA ThreeArms ==
    ASSUME ComparisonInv, scenario.kind = "craf"
    PROVE  /\ ArmNames = CrafArms /\ Len(ArmNames) = 3
           /\ \A i \in 1 .. Len(arms) : arms[i] = CrafOutput(CrafArms[i]) /\ Isolates(CrafArms[i])
           /\ \A i \in 1 .. 3 : CrafArms[i] \in ToSet(ArmNames)
<1>1. ArmNames = CrafArms /\ Len(ArmNames) = 3
  BY DEF ArmNames, CrafArms
<1>2. \A i \in 1 .. 3 : CrafArms[i] \in ToSet(ArmNames)
  BY <1>1 DEF CrafArms, ToSet
<1>3. QED
  BY <1>1, <1>2, ArmsAre DEF Output

\* With a labelled required memory, protection undoes what the eclipse did.
LEMMA ProtectionRestores ==
    ASSUME ComparisonInv
    PROVE  ProtectedArmIsControl
<1>1. SUFFICES ASSUME scenario.kind = "craf", Len(arms) = 3, scenario.required \in Protected
               PROVE  arms[3].hits = arms[1].hits /\ arms[3].decision = arms[1].decision
  BY DEF ProtectedArmIsControl
<1>2. PICK x, y : x = CrafArms[1] /\ y = CrafArms[3]
  OBVIOUS
<1>3. x = "control" /\ y = "protected"
  BY <1>2 DEF CrafArms
<1>4. /\ arms[1] = CrafOutput(x) /\ Isolates(x) /\ x \in ToSet(ArmNames)
      /\ arms[3] = CrafOutput(y) /\ Isolates(y) /\ y \in ToSet(ArmNames)
  BY <1>1, <1>2, ThreeArms
<1> DEFINE s(name) == Asked(Begun(name), scenario.interaction).state
<1>5. \A name : /\ CrafOutput(name).hits = Hits(s(name), scenario.decision)
                /\ CrafOutput(name).decision = Decision(Hits(s(name), scenario.decision))
  BY DEF CrafOutput
<1>6. /\ s(x).time = 0 /\ s(x).policy.name # "risi-shared-counter"
      /\ s(x).derived.suppressed = {}
  BY <1>1, <1>3, <1>4, TouchedState
<1>7. /\ s(y).time = 0 /\ s(y).policy.name # "risi-shared-counter"
      /\ s(y).derived.suppressed = {scenario.required}
      /\ s(y).policy = ArmPolicy(scenario, y)
  BY <1>1, <1>3, <1>4, TouchedState
<1>8. s(y).policy.name = "protected-critical-recall"
  BY <1>1, <1>3, <1>7 DEF ArmPolicy, CrafPolicy, Eclipsing
<1> HIDE DEF s
<1>9. s(x).derived.suppressed \ Spared(s(x)) = {} /\ s(y).derived.suppressed \ Spared(s(y)) = {}
  BY <1>1, <1>6, <1>7, <1>8 DEF Spared
<1>10. Hits(s(x), scenario.decision) = Hits(s(y), scenario.decision)
  BY <1>6, <1>7, <1>9, HitsPlainly
<1>11. QED
  BY <1>4, <1>5, <1>10

\* A loss at the retrieval stage is an unsafe decision without the memory.
LEMMA LostAtRetrieval ==
    ASSUME NEW e, e.retrieved \in BOOLEAN, e.presented \in BOOLEAN, e.used \in BOOLEAN,
           LossStage(e) = "retrieval"
    PROVE  ~ e.retrieved /\ ~ e.safe
<1>1. CASE ~ Included(e) \/ e.safe
  <2>1. LossStage(e) = "none"
    BY <1>1 DEF LossStage
  <2>2. QED
    BY <2>1
<1>2. CASE Included(e) /\ ~ e.safe /\ e.retrieved
  <2>1. LossStage(e) \in {"presentation", "none", "decision_use"}
    BY <1>2 DEF LossStage
  <2>2. QED
    BY <2>1
<1>3. QED
  BY <1>1, <1>2

\* Whether the decision is safe depends on the required memory alone.
LEMMA DecisionByRequired ==
    ASSUME NEW one, NEW other, Safe(Decision(one)), ~ Safe(Decision(other)),
           scenario.required \notin ToSet(other)
    PROVE  scenario.required \in ToSet(one)
<1>1. SUFFICES ASSUME scenario.required \notin ToSet(one) PROVE FALSE
  OBVIOUS
<1>2. Decision(one).action = "allow" /\ Decision(other).action = "allow"
  BY <1>1 DEF Decision
<1>3. QED
  BY <1>2 DEF Safe

\* A recovered mechanism is an eclipse, told by the trace of the vulnerable arm.
LEMMA RecoveryEclipses ==
    ASSUME ComparisonInv
    PROVE  RecoveredMeansEclipsed
<1>1. SUFFICES ASSUME scenario.kind = "craf", result = "recovered"
               PROVE  /\ scenario.required \in ToSet(arms[1].hits) \cap ToSet(arms[3].hits)
                      /\ {scenario.required, Critical} \cap ToSet(arms[2].hits) = {}
                      /\ \E i \in Places(arms[2], "read_side_update"),
                            j \in Places(arms[2], "retrieval_set_change") :
                             /\ i < j
                             /\ arms[2].events[i].payload.suppressed = scenario.required
                             /\ scenario.required \in arms[2].events[j].payload.removed
  BY DEF RecoveredMeansEclipsed, Recovery
<1>2. Len(arms) = 3 /\ CrafRecovered(arms[1].assessment, arms[2].assessment, arms[3].assessment)
  BY <1>1, ThreeArms DEF ComparisonInv, Recovered
<1>3. PICK x, y, z : x = CrafArms[1] /\ y = CrafArms[2] /\ z = CrafArms[3]
  OBVIOUS
<1>4. x = "control" /\ y = "vulnerable" /\ z = "protected"
  BY <1>3 DEF CrafArms
<1>5. /\ arms[1] = CrafOutput(x) /\ Isolates(x) /\ x \in ToSet(ArmNames)
      /\ arms[2] = CrafOutput(y) /\ Isolates(y) /\ y \in ToSet(ArmNames)
      /\ arms[3] = CrafOutput(z) /\ Isolates(z) /\ z \in ToSet(ArmNames)
  BY <1>1, <1>2, <1>3, ThreeArms
<1> DEFINE touched(name) == Asked(Begun(name), scenario.interaction)
           s(name)       == touched(name).state
           hits(name)    == Hits(s(name), scenario.decision)
<1>6. ASSUME NEW name
      PROVE  /\ CrafOutput(name).hits = hits(name)
             /\ CrafOutput(name).assessment.safe = Safe(Decision(hits(name)))
             /\ CrafOutput(name).assessment.stage
                    = LossStage(Evidence(hits(name), Decision(hits(name))))
  BY DEF CrafOutput, Assessment, Evidence
<1>7. Safe(Decision(hits(x))) /\ Safe(Decision(hits(z)))
  BY <1>2, <1>5, <1>6 DEF CrafRecovered
<1>8. ~ Safe(Decision(hits(y))) /\ Critical \notin ToSet(hits(y))
  <2> DEFINE e == Evidence(hits(y), Decision(hits(y)))
  <2>1. LossStage(e) = "retrieval"
    BY <1>2, <1>5, <1>6 DEF CrafRecovered
  <2>2. /\ e.retrieved = (Critical \in ToSet(hits(y)))
        /\ e.presented = (Critical \in ToSet(hits(y)))
        /\ e.used = (Critical \in Decision(hits(y)).rationale)
        /\ e.safe = Safe(Decision(hits(y)))
    BY DEF Evidence
  <2> HIDE DEF e, hits
  <2>3. e.retrieved \in BOOLEAN /\ e.presented \in BOOLEAN /\ e.used \in BOOLEAN
    BY <2>2
  <2>4. ~ e.retrieved /\ ~ e.safe
    BY <2>1, <2>3, LostAtRetrieval
  <2>5. QED
    BY <2>2, <2>4
<1>9. /\ s(x).time = 0 /\ s(x).policy.name # "risi-shared-counter"
       /\ s(y).time = 0 /\ s(y).policy.name = "memory-eclipsing"
       /\ s(y).derived.suppressed = {scenario.required} /\ Kept(touched(y), base)
  <2>1. s(x).time = 0 /\ s(x).policy.name # "risi-shared-counter"
    BY <1>1, <1>5, TouchedState
  <2>2. /\ s(y).time = 0 /\ s(y).policy = ArmPolicy(scenario, y) /\ Kept(touched(y), base)
        /\ s(y).derived.suppressed = {scenario.required}
    BY <1>1, <1>4, <1>5, TouchedState
  <2>3. s(y).policy.name = "memory-eclipsing"
    BY <1>1, <1>4, <2>2 DEF ArmPolicy, CrafPolicy, Eclipsing
  <2>4. QED
    BY <2>1, <2>2, <2>3
<1>10. /\ scenario.decision.k \in Nat
       /\ \E S : Ranked(s(y), scenario.decision) \in Seq(S)
       /\ Ranked(s(x), scenario.decision) = Ranked(s(y), scenario.decision)
  <2>1. scenario \in Scenario /\ scenario.decision \in Queries(scenario)
    BY <1>1 DEF ComparisonInv, Queries
  <2>2. /\ scenario.decision.k \in Nat
        /\ scenario.decision.candidates \in Seq(Reads[scenario.decision.principal])
    BY <2>1, ReadsAssumption
  <2> DEFINE S == Reads[scenario.decision.principal]
             V == {m \in Memory : 0 \in Valid[m]}
  <2>3. Among(V, scenario.decision.candidates) \in Seq(S \cap V)
    BY <2>2, AmongType
  <2>4. Ranked(s(x), scenario.decision) = Among(V, scenario.decision.candidates)
        /\ Ranked(s(y), scenario.decision) = Among(V, scenario.decision.candidates)
    <3>1. V = {m \in Memory : s(x).time \in Valid[m]} /\ V = {m \in Memory : s(y).time \in Valid[m]}
      BY <1>9
    <3>2. s(y).policy.name # "risi-shared-counter"
      BY <1>9
    <3> HIDE DEF V
    <3>3. QED
      BY <1>9, <3>1, <3>2, RanksPlainly
  <2>5. QED
    BY <2>2, <2>3, <2>4
<1>11. scenario.required \notin ToSet(hits(y))
  <2>1. Spared(s(y)) = {}
    BY <1>9 DEF Spared
  <2>2. QED
    BY <1>9, <1>10, <2>1, HitsRanked
<1>12. scenario.required \in ToSet(hits(x)) /\ scenario.required \in ToSet(hits(z))
  <2> HIDE DEF hits
  <2>1. QED
    BY <1>7, <1>8, <1>11, DecisionByRequired
<1>13. PICK i \in 1 .. Len(touched(y).trace) :
           /\ touched(y).trace[i].type = "read_side_update"
           /\ touched(y).trace[i].payload.suppressed = scenario.required
  BY <1>1, <1>4, <1>5, TouchedState
<1> DEFINE asked  == Asked(touched(y), scenario.decision)
           n      == Len(touched(y).trace)
           events == CrafOutput(y).events
<1>14. base \in States
  BY SharedBase
<1>15. /\ Traced(asked.trace, n, s(y), scenario.decision)
       /\ Extends(asked.trace, touched(y).trace) /\ Kept(asked, base)
  BY <1>9, <1>14, AskedAnswers, AskedKept DEF Kept
<1>16. Extends(events, asked.trace)
  <2>1. \E suppressed : events = Closed(asked, y, Decision(hits(y)), suppressed).trace
    BY DEF CrafOutput
  <2> HIDE DEF asked, events, hits
  <2>2. QED
    BY <1>14, <1>15, <2>1, ClosedExtends
<1> HIDE DEF s, hits, asked, events, touched
<1>17. scenario.required \in ToSet(Ranked(s(y), scenario.decision))
  BY <1>10, <1>12, HitsRanked DEF hits
<1>18. Met(s(y), scenario.decision) = {scenario.required} /\ Spared(s(y)) = {}
  BY <1>9, <1>17 DEF Met, Spared
<1>19. /\ n + 2 \in 1 .. Len(asked.trace) /\ asked.trace[n + 2].type = "retrieval_set_change"
       /\ scenario.required \in asked.trace[n + 2].payload.removed
  BY <1>15, <1>18 DEF Traced
<1>20. /\ i \in 1 .. Len(asked.trace) /\ asked.trace[i] = touched(y).trace[i]
       /\ n \in Nat /\ i < n + 2
  BY <1>13, <1>15 DEF Extends
<1>21. /\ i \in 1 .. Len(events) /\ n + 2 \in 1 .. Len(events)
       /\ events[i] = asked.trace[i] /\ events[n + 2] = asked.trace[n + 2]
  BY <1>16, <1>19, <1>20 DEF Extends
<1>22. DOMAIN events = 1 .. Len(events) /\ arms[2].events = events
  <2>1. Kept([state |-> Output(y).final, trace |-> Output(y).events], base)
    BY <1>5, OutputKept
  <2>2. Output(y) = CrafOutput(y)
    BY <1>1 DEF Output
  <2>3. PICK log : log = [state |-> Output(y).final, trace |-> Output(y).events]
    OBVIOUS
  <2>4. Sequence(log.trace) /\ log.trace = events
    BY <2>1, <2>2, <2>3 DEF Kept, Good, events
  <2>5. QED
    BY <1>5, <2>4 DEF Sequence, events
<1>23. i \in Places(arms[2], "read_side_update") /\ n + 2 \in Places(arms[2], "retrieval_set_change")
  BY <1>13, <1>19, <1>20, <1>21, <1>22 DEF Places
<1>24. /\ arms[2].events[i].payload.suppressed = scenario.required
       /\ scenario.required \in arms[2].events[n + 2].payload.removed
  BY <1>1, <1>13, <1>19, <1>20, <1>21, <1>22
<1>25. scenario.required \in ToSet(arms[1].hits) \cap ToSet(arms[3].hits)
  BY <1>1, <1>5, <1>6, <1>12
<1>26. {scenario.required, Critical} \cap ToSet(arms[2].hits) = {}
  BY <1>5, <1>6, <1>8, <1>11
<1>27. QED
  BY <1>20, <1>23, <1>24, <1>25, <1>26

\* The mechanism of the CRAF comparison is an eclipse and nothing else: a recovered one
\* is in the vulnerable arm's trace, first the update that suppressed the required
\* memory and then its removal, while the other arms retrieved it, and under protection
\* the arm is the control.
THEOREM EclipseCorrect == ComparisonSpec => []RecoveryIsEclipse
<1>1. ComparisonInv => RecoveryIsEclipse
  BY RecoveryEclipses, ProtectionRestores DEF RecoveryIsEclipse
<1>2. QED
  BY <1>1, ComparisonInvariance, PTL

----------------------------------------------------------------------------
\* The leak.

\* One result of a ranking that nothing is suppressed in is its first memory.
LEMMA FirstAnswers ==
    ASSUME NEW s, NEW q, q.k = 1, s.derived.suppressed = {}, NEW m \in Memory,
           NEW rest \in Seq(Memory), Ranked(s, q) = <<m>> \o rest
    PROVE  Hits(s, q) = <<m>>
<1> DEFINE ranked  == <<m>> \o rest
           visible == Among(Memory \ (s.derived.suppressed \ Spared(s)), ranked)
<1>1. ranked \in Seq(Memory) /\ Len(ranked) > 0 /\ ranked[1] = m
  OBVIOUS
<1>2. Memory \ (s.derived.suppressed \ Spared(s)) = Memory
  OBVIOUS
<1> HIDE DEF ranked
<1>3. Len(visible) > 0 /\ visible[1] = m
  BY <1>1, <1>2, AmongHead
<1>4. visible \in Seq(Memory)
  <2>1. visible \in Seq(Memory \cap (Memory \ (s.derived.suppressed \ Spared(s))))
    BY <1>1, AmongType
  <2>2. QED
    BY <2>1
<1> HIDE DEF visible
<1>5. (IF q.k < Len(visible) THEN q.k ELSE Len(visible)) = 1
  BY <1>3, <1>4
<1>6. SubSeq(visible, 1, 1) = <<m>>
  <2>1. /\ SubSeq(visible, 1, 1) \in Seq(Memory) /\ Len(SubSeq(visible, 1, 1)) = 1
        /\ SubSeq(visible, 1, 1)[1] = visible[1]
    <3>1. 1 \in 1 .. Len(visible) + 1 /\ 1 - 1 \in Nat /\ 1 \in 1 .. Len(visible)
      BY <1>3, <1>4
    <3>2. SubSeq(visible, 1, 1) = [i \in 1 .. 1 |-> visible[i]]
      BY <1>4, <3>1
    <3>3. QED
      BY <1>4, <3>1, <3>2
  <2>2. ASSUME NEW t \in Seq(Memory), Len(t) = 1, t[1] = m
        PROVE  t = <<m>>
    BY <2>2
  <2>3. QED
    BY <1>3, <2>1, <2>2
<1>7. Hits(s, q) = SubSeq(visible, 1, IF q.k < Len(visible) THEN q.k ELSE Len(visible))
  BY DEF Hits, visible, ranked
<1>8. QED
  BY <1>5, <1>6, <1>7

\* Two arms that showed the observer the same are no leak: one prediction of two is right.
LEMMA SameViewTellsNothing ==
    ASSUME NEW sham, NEW hidden, NEW oracle,
           PairClassification("vulnerable", sham, hidden, oracle) = "risi_c"
    PROVE  sham.view # hidden.view
<1>1. Correct(sham, hidden, oracle) # 1
      /\ -1 \notin {Prediction(sham.view, oracle), Prediction(hidden.view, oracle)}
  <2> DEFINE advantage == Correct(sham, hidden, oracle) # 1
             absent    == CanaryAbsent(sham.view, oracle) /\ CanaryAbsent(hidden.view, oracle)
             unknown   == -1 \in {Prediction(sham.view, oracle), Prediction(hidden.view, oracle)}
             mediated  == SoleMediator("vulnerable", sham, hidden)
  <2>1. (IF ~ absent THEN "direct_disclosure"
         ELSE IF unknown THEN "inconclusive"
         ELSE IF advantage /\ mediated THEN "risi_c" ELSE "confounded") = "risi_c"
    BY DEF PairClassification
  <2> HIDE DEF advantage, absent, unknown, mediated
  <2>2. advantage /\ ~ unknown
    BY <2>1
  <2>3. QED
    BY <2>2 DEF advantage, unknown
<1>2. SUFFICES ASSUME sham.view = hidden.view PROVE FALSE
  OBVIOUS
<1>3. Prediction(sham.view, oracle) \in {0, 1}
      /\ Prediction(hidden.view, oracle) = Prediction(sham.view, oracle)
  BY <1>1, <1>2 DEF Prediction
<1>4. Correct(sham, hidden, oracle) = 1
  BY <1>3 DEF Correct
<1>5. QED
  BY <1>1, <1>4

\* After the victim's retrieval under the shared counter, the counter says whether it
\* met the canary.
LEMMA CounterTells ==
    ASSUME ComparisonInv, scenario.kind = "risi", NEW name \in ToSet(ArmNames),
           name.pair = "vulnerable", Isolates(name)
    PROVE  LET touched == Asked(Begun(name), VictimQuery(name))
               count   == IF name.arm = "hidden" THEN 1 ELSE 0
           IN  /\ touched.state.derived = [NoDerived EXCEPT !.counter = count]
               /\ \E i \in 1 .. Len(touched.trace) :
                      /\ touched.trace[i].type = "read_side_update"
                      /\ touched.trace[i].payload.counter = count
<1> DEFINE s       == Begun(name).state
           q       == VictimQuery(name)
           touched == Asked(Begun(name), q)
           count   == IF name.arm = "hidden" THEN 1 ELSE 0
<1>1. /\ base \in States /\ Kept(Begun(name), base)
      /\ s.policy = ArmPolicy(scenario, name) /\ s.derived = base.derived
      /\ base.derived = [NoDerived EXCEPT !.counter = 0]
  BY SharedBase, BegunKept, BegunFields
<1>2. RisiAccepted(scenario)
  BY DEF ComparisonInv, LoaderAccepts
<1>3. /\ s.policy.name = "risi-shared-counter" /\ s.policy.victim = scenario.victim
      /\ s.policy.canary = scenario.canary
  BY <1>1 DEF ArmPolicy, RisiPolicy, SharedCounter
<1>4. q.principal = scenario.victim
  BY <1>2 DEF RisiAccepted, VictimQuery
<1>5. Counts(s, q)
  BY <1>3, <1>4 DEF Counts
<1>6. Hits(s, q) = <<VictimMemory(name)>>
  BY DEF Isolates, Isolated
<1>7. Count(s, q) = count
  <2>1. s.derived.counter = 0
    BY <1>1 DEF NoDerived
  <2>2. scenario.canary \in ToSet(Hits(s, q)) <=> name.arm = "hidden"
    <3>1. scenario.canary # scenario.shamMemory
      BY <1>2, ProtocolDiffers
    <3>2. ToSet(Hits(s, q)) = {VictimMemory(name)}
      BY <1>6 DEF ToSet
    <3>3. QED
      BY <3>1, <3>2 DEF VictimMemory
  <2> HIDE DEF s, q
  <2>3. QED
    BY <1>3, <2>1, <2>2 DEF Count
<1>8. /\ Answered(touched.state, s, q)
      /\ Traced(touched.trace, Len(Begun(name).trace), s, q)
  BY <1>1, AskedAnswers DEF Kept
<1> HIDE DEF s, touched, count
<1>9. touched.state.derived = [NoDerived EXCEPT !.counter = count]
  BY <1>5, <1>7, <1>8 DEF Answered
<1>10. \E i \in 1 .. Len(touched.trace) :
           touched.trace[i].type = "read_side_update" /\ touched.trace[i].payload.counter = count
  BY <1>5, <1>7, <1>8 DEF Traced
<1>11. QED
  BY <1>9, <1>10 DEF touched, count, q

\* What the observer is given: the signal that the counter selects, or, if the query
\* does not rank both, what the counter has no part in.
LEMMA ViewByCounter ==
    ASSUME ComparisonInv, scenario.kind = "risi", NEW s, NEW t, s.time = t.time,
           s.policy = SharedCounter(scenario), t.policy = SharedCounter(scenario),
           s.derived.suppressed = {}, t.derived.suppressed = {},
           s.derived.counter = 0, t.derived.counter = 1
    PROVE  \/ Hits(s, scenario.probe) = Hits(t, scenario.probe)
           \/ /\ Hits(s, scenario.probe) = <<scenario.noHidden>>
              /\ Hits(t, scenario.probe) = <<scenario.hidden>>
<1> DEFINE q       == scenario.probe
           V       == {m \in Memory : s.time \in Valid[m]}
           ranked  == Among(V, q.candidates)
           both    == {scenario.noHidden, scenario.hidden} \subseteq ToSet(ranked)
           Led(m)  == <<m>> \o Among(Memory \ {m}, ranked)
<1>1. RisiAccepted(scenario) /\ scenario \in Scenario
  BY DEF ComparisonInv, LoaderAccepts
<1>2. /\ q.principal = scenario.observer /\ q.k = 1
      /\ scenario.noHidden \in Memory /\ scenario.hidden \in Memory
  BY <1>1 DEF RisiAccepted
<1>3. q.candidates \in Seq(Reads[q.principal])
  BY <1>1, ReadsAssumption DEF Queries
<1>4. ranked \in Seq(Memory)
  <2>1. ranked \in Seq(Reads[q.principal] \cap V)
    BY <1>3, AmongType
  <2>2. QED
    BY <2>1
<1>5. ASSUME NEW u, u.time = s.time, u.policy = SharedCounter(scenario)
      PROVE  /\ ~ both => Ranked(u, q) = ranked
             /\ both /\ u.derived.counter # None /\ u.derived.counter > 0 =>
                    Ranked(u, q) = Led(scenario.hidden)
             /\ both /\ ~ (u.derived.counter # None /\ u.derived.counter > 0) =>
                    Ranked(u, q) = Led(scenario.noHidden)
  <2>1. /\ u.policy.name = "risi-shared-counter" /\ u.policy.observer = scenario.observer
        /\ u.policy.noHidden = scenario.noHidden /\ u.policy.hidden = scenario.hidden
    BY <1>5 DEF SharedCounter
  <2>2. {m \in Memory : u.time \in Valid[m]} = V
    BY <1>5
  <2> HIDE DEF V, q
  <2>3. QED
    BY <1>2, <2>1, <2>2 DEF Ranked, ProbeRanking
<1> HIDE DEF ranked, q, V, Led
<1>6. \A m \in Memory : Among(Memory \ {m}, ranked) \in Seq(Memory)
  <2>1. SUFFICES ASSUME NEW m \in Memory
                 PROVE  Among(Memory \ {m}, ranked) \in Seq(Memory)
    OBVIOUS
  <2>2. Among(Memory \ {m}, ranked) \in Seq(Memory \cap (Memory \ {m}))
    BY <1>4, AmongType
  <2>3. QED
    BY <2>2
<1>7. CASE ~ both
  <2>1. Ranked(s, q) = Ranked(t, q)
    BY <1>5, <1>7
  <2>2. Hits(s, q) = Hits(t, q)
    BY <2>1 DEF Hits
  <2>3. QED
    BY <2>2 DEF q
<1>8. CASE both
  <2>1. Ranked(s, q) = Led(scenario.noHidden)
    <3>1. ~ (s.derived.counter > 0)
      OBVIOUS
    <3>2. QED
      BY <1>5, <1>8, <3>1
  <2>2. Hits(s, q) = <<scenario.noHidden>>
    BY <1>2, <1>6, <2>1, FirstAnswers DEF Led
  <2>3. CASE None = 1
    <3>1. Ranked(t, q) = Ranked(s, q)
      BY <1>5, <1>8, <2>1, <2>3
    <3>2. Hits(s, q) = Hits(t, q)
      BY <3>1 DEF Hits
    <3>3. QED
      BY <3>2 DEF q
  <2>4. CASE None # 1
    <3>1. Ranked(t, q) = Led(scenario.hidden)
      <4>1. t.derived.counter # None /\ t.derived.counter > 0
        BY <2>4
      <4>2. QED
        BY <1>5, <1>8, <4>1
    <3>2. Hits(t, q) = <<scenario.hidden>>
      BY <1>2, <1>6, <3>1, FirstAnswers DEF Led
    <3>3. QED
      BY <2>2, <3>2 DEF q
  <2>5. QED
    BY <2>3, <2>4
<1>9. QED
  BY <1>7, <1>8

\* What is classified as a leak is one: the observer was given the signal of each arm,
\* and the counter that selected it was set by the victim's retrieval of the canary,
\* in the trace before the observer's query.
THEOREM LeakCorrect == ComparisonSpec => []LeakIsReal
<1>1. ComparisonInv => LeakIsReal
  <2>1. SUFFICES ASSUME ComparisonInv, scenario.kind = "risi", Len(arms) = 4,
                        Pair("vulnerable") = "risi_c"
                 PROVE  /\ arms[1].view = <<scenario.noHidden>> /\ arms[2].view = <<scenario.hidden>>
                        /\ scenario.canary \in ToSet(arms[2].touch) \ ToSet(arms[1].touch)
                        /\ \E i \in Places(arms[2], "read_side_update"),
                              j \in Places(arms[2], "retrieval_completed") :
                               /\ i < j
                               /\ arms[2].events[i].payload.counter = 1
                               /\ arms[2].events[j].payload.query = scenario.probe
    BY DEF LeakIsReal
  <2>2. PICK x, y : x = RisiArms[1] /\ y = RisiArms[2]
    OBVIOUS
  <2>3. /\ x.pair = "vulnerable" /\ x.arm = "sham" /\ y.pair = "vulnerable" /\ y.arm = "hidden"
    BY <2>2 DEF RisiArms
  <2>4. /\ arms[1] = Output(x) /\ Isolates(x) /\ x \in ToSet(ArmNames)
        /\ arms[2] = Output(y) /\ Isolates(y) /\ y \in ToSet(ArmNames)
    BY <2>1, <2>2, FourArms
  <2> DEFINE touched(name) == Asked(Begun(name), VictimQuery(name))
             probed(name)  == Asked(touched(name), scenario.probe)
  <2>5. arms[1].view # arms[2].view
    <3>1. PairClassification("vulnerable", arms[1], arms[2], scenario) = "risi_c"
      BY <2>1 DEF Pair
    <3>2. QED
      BY <3>1, SameViewTellsNothing
  <2>6. ASSUME NEW name \in ToSet(ArmNames), name.pair = "vulnerable", Isolates(name)
        PROVE  /\ Output(name).view = Hits(touched(name).state, scenario.probe)
               /\ Output(name).touch = <<VictimMemory(name)>>
               /\ touched(name).state.policy = SharedCounter(scenario)
               /\ touched(name).state.time = 0
               /\ touched(name).state.derived.suppressed = {}
               /\ Kept(touched(name), base) /\ Kept(probed(name), base)
    <3>1. Output(name).view = Hits(touched(name).state, scenario.probe)
          /\ Output(name).touch = Hits(Begun(name).state, VictimQuery(name))
      BY <2>1 DEF Output, RisiOutput
    <3>2. Hits(Begun(name).state, VictimQuery(name)) = <<VictimMemory(name)>>
      BY <2>1, <2>6 DEF Isolates, Isolated
    <3>3. ArmPolicy(scenario, name) = SharedCounter(scenario)
      BY <2>1, <2>6 DEF ArmPolicy, RisiPolicy
    <3>4. QED
      BY <2>1, <2>6, <3>1, <3>2, <3>3, ProbedState
  <2>7. /\ touched(x).state.derived.counter = 0 /\ touched(y).state.derived.counter = 1
        /\ \E i \in 1 .. Len(touched(y).trace) :
               /\ touched(y).trace[i].type = "read_side_update"
               /\ touched(y).trace[i].payload.counter = 1
    <3>1. touched(x).state.derived = [NoDerived EXCEPT !.counter = 0]
      BY <2>1, <2>3, <2>4, CounterTells
    <3>2. /\ touched(y).state.derived = [NoDerived EXCEPT !.counter = 1]
          /\ \E i \in 1 .. Len(touched(y).trace) :
                 /\ touched(y).trace[i].type = "read_side_update"
                 /\ touched(y).trace[i].payload.counter = 1
      BY <2>1, <2>3, <2>4, CounterTells
    <3> HIDE DEF touched
    <3>3. QED
      BY <3>1, <3>2 DEF NoDerived
  <2> HIDE DEF touched
  <2>8. arms[1].view = <<scenario.noHidden>> /\ arms[2].view = <<scenario.hidden>>
    <3>1. \/ arms[1].view = arms[2].view
          \/ arms[1].view = <<scenario.noHidden>> /\ arms[2].view = <<scenario.hidden>>
      <4>1. PICK s, t : s = touched(x).state /\ t = touched(y).state
        OBVIOUS
      <4>2. /\ s.time = t.time /\ s.policy = SharedCounter(scenario)
            /\ t.policy = SharedCounter(scenario)
            /\ s.derived.suppressed = {} /\ t.derived.suppressed = {}
            /\ s.derived.counter = 0 /\ t.derived.counter = 1
        BY <2>3, <2>4, <2>6, <2>7, <4>1
      <4>3. arms[1].view = Hits(s, scenario.probe) /\ arms[2].view = Hits(t, scenario.probe)
        BY <2>3, <2>4, <2>6, <4>1
      <4>4. QED
        BY <2>1, <4>2, <4>3, ViewByCounter
    <3>2. QED
      BY <2>5, <3>1
  <2>9. scenario.canary \in ToSet(arms[2].touch) \ ToSet(arms[1].touch)
    <3>1. arms[1].touch = <<scenario.shamMemory>> /\ arms[2].touch = <<scenario.canary>>
      BY <2>3, <2>4, <2>6 DEF VictimMemory
    <3>2. scenario.canary # scenario.shamMemory
      BY <2>1, ProtocolDiffers DEF ComparisonInv, LoaderAccepts
    <3>3. QED
      BY <3>1, <3>2 DEF ToSet
  <2>10. PICK i \in 1 .. Len(touched(y).trace) :
             /\ touched(y).trace[i].type = "read_side_update"
             /\ touched(y).trace[i].payload.counter = 1
    BY <2>7
  <2> DEFINE n      == Len(touched(y).trace)
             asked  == Asked(probed(y), scenario.decision)
             events == Output(y).events
  <2>11. base \in States /\ Kept(touched(y), base) /\ Kept(probed(y), base)
    BY <2>1, <2>3, <2>4, <2>6, SharedBase
  <2>12. /\ Traced(probed(y).trace, n, touched(y).state, scenario.probe)
         /\ Extends(probed(y).trace, touched(y).trace)
    BY <2>11, AskedAnswers DEF Kept
  <2>13. Extends(asked.trace, probed(y).trace) /\ Kept(asked, base)
    BY <2>11, AskedAnswers, AskedKept DEF Kept
  <2>14. Extends(events, asked.trace)
    <3>1. \E decision, suppressed : events = Closed(asked, y, decision, suppressed).trace
      BY <2>1 DEF Output, RisiOutput, touched
    <3> HIDE DEF asked, events
    <3>2. QED
      BY <2>11, <2>13, <3>1, ClosedExtends
  <2> HIDE DEF asked, probed
  <2>15. /\ n + 1 \in 1 .. Len(probed(y).trace)
         /\ probed(y).trace[n + 1].type = "retrieval_completed"
         /\ probed(y).trace[n + 1].payload.query = scenario.probe
    <3>1. [query |-> scenario.probe, hits |-> Hits(touched(y).state, scenario.probe)].query
              = scenario.probe
      OBVIOUS
    <3>2. QED
      BY <2>12, <3>1 DEF Traced
  <2>16. /\ i \in 1 .. Len(probed(y).trace) /\ probed(y).trace[i] = touched(y).trace[i]
         /\ n \in Nat /\ i < n + 1
    BY <2>10, <2>12 DEF Extends
  <2>17. Extends(events, probed(y).trace)
    <3> HIDE DEF events
    <3>1. QED
      BY <2>13, <2>14, ExtendsFurther
  <2>18. /\ i \in 1 .. Len(events) /\ n + 1 \in 1 .. Len(events)
         /\ events[i] = probed(y).trace[i] /\ events[n + 1] = probed(y).trace[n + 1]
    <3> HIDE DEF events
    <3>1. QED
      BY <2>15, <2>16, <2>17 DEF Extends
  <2>19. DOMAIN events = 1 .. Len(events) /\ arms[2].events = events
    <3>1. Kept([state |-> Output(y).final, trace |-> Output(y).events], base)
      BY <2>1, <2>4, OutputKept
    <3>2. PICK log : log = [state |-> Output(y).final, trace |-> Output(y).events]
      OBVIOUS
    <3>3. Sequence(log.trace) /\ log.trace = events
      BY <3>1, <3>2 DEF Kept, Good
    <3>4. QED
      BY <2>4, <3>3 DEF Sequence
  <2> HIDE DEF events, n
  <2>20. i \in Places(arms[2], "read_side_update") /\ n + 1 \in Places(arms[2], "retrieval_completed")
    BY <2>10, <2>15, <2>16, <2>18, <2>19 DEF Places
  <2>21. /\ arms[2].events[i].payload.counter = 1
         /\ arms[2].events[n + 1].payload.query = scenario.probe
    BY <2>10, <2>15, <2>16, <2>18, <2>19
  <2>22. QED
    BY <2>8, <2>9, <2>16, <2>20, <2>21
<1>2. QED
  BY <1>1, ComparisonInvariance, PTL

----------------------------------------------------------------------------
\* The replay of a bundle reads the outputs back from the trace.

\* One more event adds its payload to those of its type.
LEMMA PayloadsAppend ==
    ASSUME NEW events, Sequence(events), NEW e, NEW type
    PROVE  /\ Sequence(Payloads(events, type))
           /\ e.type = type =>
                  Payloads(Append(events, e), type) = Append(Payloads(events, type), e.payload)
           /\ e.type # type => Payloads(Append(events, e), type) = Payloads(events, type)
<1> DEFINE n     == Len(events)
           S     == {events[i].payload : i \in 1 .. n} \cup {e.payload}
           Part(x) == IF x.type = type THEN <<x.payload>> ELSE <<>>
           parts == [i \in DOMAIN events |-> Part(events[i])]
           more  == [i \in DOMAIN Append(events, e) |-> Part(Append(events, e)[i])]
<1>1. n \in Nat /\ DOMAIN events = 1 .. n /\ DOMAIN Append(events, e) = 1 .. n + 1
      /\ \A i \in 1 .. n : Append(events, e)[i] = events[i]
      /\ Append(events, e)[n + 1] = e
  BY SequenceAppend DEF Sequence
<1>2. Payloads(events, type) = FlattenSeq(parts)
      /\ Payloads(Append(events, e), type) = FlattenSeq(more)
  BY DEF Payloads
<1>3. \A T : \A x \in T : <<x>> \in Seq(T)
  OBVIOUS
<1>4. Part(e) \in Seq(S) /\ \A i \in 1 .. n : Part(events[i]) \in Seq(S)
  <2>1. e.payload \in S /\ \A i \in 1 .. n : events[i].payload \in S
    OBVIOUS
  <2> HIDE DEF S
  <2>2. <<>> \in Seq(S)
    OBVIOUS
  <2>3. QED
    BY <1>3, <2>1, <2>2
<1> HIDE DEF S, n
<1>5. parts \in Seq(Seq(S)) /\ Len(parts) = n
  <2>1. parts = [i \in 1 .. n |-> Part(events[i])]
    BY <1>1
  <2> HIDE DEF Part
  <2>2. parts \in [1 .. n -> Seq(S)]
    BY <1>4, <2>1
  <2> HIDE DEF parts
  <2>3. QED
    BY <1>1, <2>2
<1>6. more = Append(parts, Part(e))
  <2>1. parts = [i \in 1 .. n |-> Part(events[i])]
    BY <1>1
  <2> HIDE DEF Part
  <2>2. more = [i \in 1 .. n + 1 |-> IF i = n + 1 THEN Part(e) ELSE Part(events[i])]
    <3>1. \A i \in 1 .. n + 1 : i = n + 1 \/ i \in 1 .. n
      BY <1>1
    <3>2. \A i \in 1 .. n + 1 :
              Part(Append(events, e)[i]) = IF i = n + 1 THEN Part(e) ELSE Part(events[i])
      BY <1>1, <3>1
    <3>3. QED
      BY <1>1, <3>2
  <2>3. Append(parts, Part(e)) = [i \in 1 .. n + 1 |-> IF i = n + 1 THEN Part(e) ELSE parts[i]]
    BY <1>1, <1>5
  <2>4. \A i \in 1 .. n + 1 : i # n + 1 => parts[i] = Part(events[i])
    BY <1>1, <2>1
  <2> HIDE DEF parts, more
  <2>5. QED
    BY <2>2, <2>3, <2>4
<1> HIDE DEF parts, more
<1>7. FlattenSeq(parts) \in Seq(S)
  BY <1>5, FlattenType
<1>8. Part(e) \in Seq(S)
  BY <1>4
<1>9. FlattenSeq(more) = FlattenSeq(parts) \o Part(e)
  <2> HIDE DEF Part
  <2>1. QED
    BY <1>5, <1>6, <1>8, FlattenAppend
<1>10. Sequence(Payloads(events, type))
  BY <1>2, <1>7 DEF Sequence
<1>11. ASSUME e.type = type
       PROVE  Payloads(Append(events, e), type) = Append(Payloads(events, type), e.payload)
  <2>1. Part(e) = <<e.payload>>
    BY <1>11
  <2>2. e.payload \in S
    BY DEF S
  <2>3. ASSUME NEW p \in Seq(S), NEW x \in S
        PROVE  p \o <<x>> = Append(p, x)
    OBVIOUS
  <2> HIDE DEF Part
  <2>4. QED
    BY <1>2, <1>7, <1>9, <2>1, <2>2, <2>3
<1>12. ASSUME e.type # type
       PROVE  Payloads(Append(events, e), type) = Payloads(events, type)
  <2>1. Part(e) = <<>>
    BY <1>12
  <2>2. ASSUME NEW p \in Seq(S)
        PROVE  p \o <<>> = p
    OBVIOUS
  <2> HIDE DEF Part
  <2>3. QED
    BY <1>2, <1>7, <1>9, <2>1, <2>2
<1>13. QED
  BY <1>10, <1>11, <1>12

\* An operation's event adds its payload to those of its type, and to no others.
LEMMA CommitSilent ==
    ASSUME NEW log, NEW b, Good(log, b), NEW kind, NEW payload, NEW after, NEW type, kind # type
    PROVE  Payloads(Commit(log, kind, payload, after).trace, type) = Payloads(log.trace, type)
<1> DEFINE event == [seq     |-> log.state.seq,
                     time    |-> [after EXCEPT !.seq = log.state.seq + 1].time,
                     type    |-> kind,
                     prev    |-> IF log.trace = <<>> THEN None ELSE Last(log.trace).seq,
                     before  |-> log.state,
                     after   |-> [after EXCEPT !.seq = log.state.seq + 1],
                     payload |-> payload]
<1>1. Commit(log, kind, payload, after).trace = Append(log.trace, event)
  BY DEF Commit
<1>2. event.type = kind /\ event.payload = payload
  OBVIOUS
<1> HIDE DEF event
<1>3. Sequence(log.trace)
  BY DEF Good
<1>4. QED
  BY <1>1, <1>2, <1>3, PayloadsAppend

LEMMA CommitTells ==
    ASSUME NEW log, NEW b, Good(log, b), NEW kind, NEW payload, NEW after
    PROVE  Payloads(Commit(log, kind, payload, after).trace, kind)
               = Append(Payloads(log.trace, kind), payload)
<1> DEFINE event == [seq     |-> log.state.seq,
                     time    |-> [after EXCEPT !.seq = log.state.seq + 1].time,
                     type    |-> kind,
                     prev    |-> IF log.trace = <<>> THEN None ELSE Last(log.trace).seq,
                     before  |-> log.state,
                     after   |-> [after EXCEPT !.seq = log.state.seq + 1],
                     payload |-> payload]
<1>1. Commit(log, kind, payload, after).trace = Append(log.trace, event)
  BY DEF Commit
<1>2. event.type = kind /\ event.payload = payload
  OBVIOUS
<1> HIDE DEF event
<1>3. Sequence(log.trace)
  BY DEF Good
<1>4. QED
  BY <1>1, <1>2, <1>3, PayloadsAppend

\* What replay reads of a trace.
ReadsOf(log) ==
    [results   |-> Payloads(log.trace, "retrieval_completed"),
     contexts  |-> Payloads(log.trace, "context_assembled"),
     decisions |-> Payloads(log.trace, "decision")]

\* An event of another type adds nothing to it.
LEMMA OtherReads ==
    ASSUME NEW log, NEW b, Good(log, b), NEW type, NEW payload, NEW after,
           type \notin {"retrieval_completed", "context_assembled", "decision"}
    PROVE  ReadsOf(Commit(log, type, payload, after)) = ReadsOf(log)
<1>1. PICK longer : longer = Commit(log, type, payload, after)
  OBVIOUS
<1>2. ASSUME NEW other, type # other
      PROVE  Payloads(longer.trace, other) = Payloads(log.trace, other)
  BY <1>1, <1>2, CommitSilent
<1>3. ReadsOf(longer) = ReadsOf(log)
  BY <1>2 DEF ReadsOf
<1>4. QED
  BY <1>1, <1>3

\* An event of one of them adds to its own.
LEMMA OwnReads ==
    ASSUME NEW log, NEW b \in States, Good(log, b), NEW payload
    PROVE  /\ ReadsOf(Record(log, "retrieval_completed", payload)).results = Append(ReadsOf(log).results, payload)
           /\ ReadsOf(Record(log, "retrieval_completed", payload)).contexts = ReadsOf(log).contexts
           /\ ReadsOf(Record(log, "retrieval_completed", payload)).decisions = ReadsOf(log).decisions
           /\ ReadsOf(Record(log, "context_assembled", payload)).results = ReadsOf(log).results
           /\ ReadsOf(Record(log, "context_assembled", payload)).contexts = Append(ReadsOf(log).contexts, payload)
           /\ ReadsOf(Record(log, "context_assembled", payload)).decisions = ReadsOf(log).decisions
           /\ ReadsOf(Record(log, "decision", payload)).results = ReadsOf(log).results
           /\ ReadsOf(Record(log, "decision", payload)).contexts = ReadsOf(log).contexts
           /\ ReadsOf(Record(log, "decision", payload)).decisions = Append(ReadsOf(log).decisions, payload)
<1>1. ASSUME NEW kind, NEW type, kind # type
      PROVE  Payloads(Record(log, kind, payload).trace, type) = Payloads(log.trace, type)
  BY <1>1, CommitSilent DEF Record
<1>2. ASSUME NEW kind
      PROVE  Payloads(Record(log, kind, payload).trace, kind)
                 = Append(Payloads(log.trace, kind), payload)
  BY CommitTells DEF Record
<1>3. PICK rc, ca, de : rc = "retrieval_completed" /\ ca = "context_assembled" /\ de = "decision"
  OBVIOUS
<1>4. rc # ca /\ rc # de /\ ca # de
  BY <1>3
<1>5. ASSUME NEW l
      PROVE  /\ ReadsOf(l).results = Payloads(l.trace, rc)
             /\ ReadsOf(l).contexts = Payloads(l.trace, ca)
             /\ ReadsOf(l).decisions = Payloads(l.trace, de)
  BY <1>3 DEF ReadsOf
<1>6. /\ ReadsOf(Record(log, rc, payload)).results = Append(ReadsOf(log).results, payload)
      /\ ReadsOf(Record(log, rc, payload)).contexts = ReadsOf(log).contexts
      /\ ReadsOf(Record(log, rc, payload)).decisions = ReadsOf(log).decisions
  <2>1. PICK longer : longer = Record(log, rc, payload)
    OBVIOUS
  <2>2. Payloads(longer.trace, rc) = Append(Payloads(log.trace, rc), payload)
    BY <1>2, <2>1
  <2>3. Payloads(longer.trace, ca) = Payloads(log.trace, ca)
    BY <1>1, <1>4, <2>1
  <2>4. Payloads(longer.trace, de) = Payloads(log.trace, de)
    BY <1>1, <1>4, <2>1
  <2>5. QED
    BY <1>5, <2>1, <2>2, <2>3, <2>4
<1>7. /\ ReadsOf(Record(log, ca, payload)).results = ReadsOf(log).results
      /\ ReadsOf(Record(log, ca, payload)).contexts = Append(ReadsOf(log).contexts, payload)
      /\ ReadsOf(Record(log, ca, payload)).decisions = ReadsOf(log).decisions
  <2>1. PICK longer : longer = Record(log, ca, payload)
    OBVIOUS
  <2>2. Payloads(longer.trace, ca) = Append(Payloads(log.trace, ca), payload)
    BY <1>2, <2>1
  <2>3. Payloads(longer.trace, rc) = Payloads(log.trace, rc)
    BY <1>1, <1>4, <2>1
  <2>4. Payloads(longer.trace, de) = Payloads(log.trace, de)
    BY <1>1, <1>4, <2>1
  <2>5. QED
    BY <1>5, <2>1, <2>2, <2>3, <2>4
<1>8. /\ ReadsOf(Record(log, de, payload)).results = ReadsOf(log).results
      /\ ReadsOf(Record(log, de, payload)).contexts = ReadsOf(log).contexts
      /\ ReadsOf(Record(log, de, payload)).decisions = Append(ReadsOf(log).decisions, payload)
  <2>1. PICK longer : longer = Record(log, de, payload)
    OBVIOUS
  <2>2. Payloads(longer.trace, de) = Append(Payloads(log.trace, de), payload)
    BY <1>2, <2>1
  <2>3. Payloads(longer.trace, rc) = Payloads(log.trace, rc)
    BY <1>1, <1>4, <2>1
  <2>4. Payloads(longer.trace, ca) = Payloads(log.trace, ca)
    BY <1>1, <1>4, <2>1
  <2>5. QED
    BY <1>5, <2>1, <2>2, <2>3, <2>4
<1>9. QED
  BY <1>3, <1>6, <1>7, <1>8

\* A query adds its result and its context.
LEMMA AskedReads ==
    ASSUME NEW log, NEW b \in States, Good(log, b), NEW q
    PROVE  LET asked == ReadsOf(Asked(log, q))
               told  == ReadsOf(log)
               hits  == Hits(log.state, q)
           IN  /\ asked.results = Append(told.results, [query |-> q, hits |-> hits])
               /\ asked.contexts = Append(told.contexts, [context |-> hits])
               /\ asked.decisions = told.decisions
<1> DEFINE hits      == Hits(log.state, q)
           answer    == [query |-> q, hits |-> hits]
           context   == [context |-> hits]
           completed == Record(log, "retrieval_completed", answer)
           changed   == SetChange(completed, q)
           updated   == ReadSideUpdate(changed, q, hits)
           asked     == Record(updated, "context_assembled", context)
<1>1. asked = Asked(log, q)
  BY DEF Asked, Retrieved
<1> HIDE DEF answer, context, hits
<1>2. /\ Good(completed, b)
      /\ ReadsOf(completed).results = Append(ReadsOf(log).results, answer)
      /\ ReadsOf(completed).contexts = ReadsOf(log).contexts
      /\ ReadsOf(completed).decisions = ReadsOf(log).decisions
  BY RecordGood, OwnReads
<1> HIDE DEF completed
<1>3. Good(changed, b) /\ ReadsOf(changed) = ReadsOf(completed)
  <2>1. CASE changed = completed
    BY <1>2, <2>1
  <2>2. ASSUME NEW payload, changed = Record(completed, "retrieval_set_change", payload)
        PROVE  Good(changed, b) /\ ReadsOf(changed) = ReadsOf(completed)
    <3>1. Good(changed, b)
      BY <1>2, <2>2, RecordGood
    <3>2. ReadsOf(changed) = ReadsOf(completed)
      BY <1>2, <2>2, OtherReads DEF Record
    <3>3. QED
      BY <3>1, <3>2
  <2>3. QED
    BY <2>1, <2>2 DEF SetChange
<1> HIDE DEF changed
<1>4. ReadsOf(updated) = ReadsOf(changed)
  BY <1>3, OtherReads DEF ReadSideUpdate, CounterUpdate, EclipseUpdate
<1>5. Good(updated, b)
  <2>1. updated = Retrieved(log, q)
    BY DEF updated, changed, completed, answer, hits, Retrieved
  <2> HIDE DEF updated
  <2>2. QED
    BY <2>1, RetrievedGood
<1> HIDE DEF updated
<1>6. /\ ReadsOf(asked).results = ReadsOf(updated).results
      /\ ReadsOf(asked).contexts = Append(ReadsOf(updated).contexts, context)
      /\ ReadsOf(asked).decisions = ReadsOf(updated).decisions
  BY <1>5, OwnReads
<1> HIDE DEF asked
<1>7. /\ ReadsOf(asked).results = Append(ReadsOf(log).results, answer)
      /\ ReadsOf(asked).contexts = Append(ReadsOf(log).contexts, context)
      /\ ReadsOf(asked).decisions = ReadsOf(log).decisions
  BY <1>2, <1>3, <1>4, <1>6
<1>8. QED
  BY <1>1, <1>7 DEF answer, context, hits

\* The end of an arm adds its decision.
LEMMA ClosedReads ==
    ASSUME NEW log, NEW b \in States, Good(log, b), NEW name, NEW decision, NEW suppressed
    PROVE  LET closed == ReadsOf(Closed(log, name, decision, suppressed))
           IN  /\ closed.results = ReadsOf(log).results
               /\ closed.contexts = ReadsOf(log).contexts
               /\ closed.decisions = Append(ReadsOf(log).decisions, decision)
<1> DEFINE decided  == Record(log, "decision", decision)
           blamed   == IF suppressed
                       THEN Record(decided, "critical_memory_suppression", name) ELSE decided
           assessed == Record(blamed, "oracle_evaluated", Safe(decision))
           closed   == Record(assessed, "episode_completed", name)
<1>1. /\ Good(decided, b)
      /\ ReadsOf(decided).results = ReadsOf(log).results
      /\ ReadsOf(decided).contexts = ReadsOf(log).contexts
      /\ ReadsOf(decided).decisions = Append(ReadsOf(log).decisions, decision)
  BY RecordGood, OwnReads
<1> HIDE DEF decided
<1>2. ASSUME NEW l, Good(l, b), NEW payload,
             NEW type \in {"critical_memory_suppression", "oracle_evaluated", "episode_completed"}
      PROVE  Good(Record(l, type, payload), b) /\ ReadsOf(Record(l, type, payload)) = ReadsOf(l)
  <2>1. Good(Record(l, type, payload), b)
    BY <1>2, RecordGood
  <2>2. type \notin {"retrieval_completed", "context_assembled", "decision"}
    OBVIOUS
  <2>3. QED
    BY <1>2, <2>1, <2>2, OtherReads DEF Record
<1>3. Good(blamed, b) /\ ReadsOf(blamed) = ReadsOf(decided)
  BY <1>1, <1>2
<1> HIDE DEF blamed
<1>4. Good(assessed, b) /\ ReadsOf(assessed) = ReadsOf(decided)
  BY <1>2, <1>3
<1> HIDE DEF assessed
<1>5. ReadsOf(closed) = ReadsOf(decided)
  BY <1>2, <1>4
<1> HIDE DEF closed
<1>6. /\ ReadsOf(closed).results = ReadsOf(log).results
      /\ ReadsOf(closed).contexts = ReadsOf(log).contexts
      /\ ReadsOf(closed).decisions = Append(ReadsOf(log).decisions, decision)
  BY <1>1, <1>5
<1>7. QED
  BY <1>6 DEF Closed, closed, assessed, blamed, decided

\* An arm begins with none.
LEMMA BegunReads ==
    ASSUME ComparisonInv, NEW name \in ToSet(ArmNames)
    PROVE  ReadsOf(Begun(name)) = [results |-> <<>>, contexts |-> <<>>, decisions |-> <<>>]
<1> DEFINE fresh   == [state |-> base, trace |-> <<>>]
           started == Record(fresh, "episode_started", name)
           policy  == ArmPolicy(scenario, name)
           after   == [started.state EXCEPT !.policy = policy]
<1>1. base \in States /\ base.seq = 0 /\ ValidPolicy(base.policy)
  BY SharedBase
<1>2. Good(fresh, base)
  <2>1. fresh.trace \in Seq({}) /\ Len(fresh.trace) = 0 /\ fresh.trace = <<>> /\ fresh.state = base
    OBVIOUS
  <2> HIDE DEF fresh
  <2>2. Sequence(fresh.trace) /\ Linked(fresh, base)
    BY <1>1, <2>1 DEF Sequence, Linked
  <2>3. QED
    BY <1>1, <2>1, <2>2 DEF Good
<1>3. ReadsOf(fresh) = [results |-> <<>>, contexts |-> <<>>, decisions |-> <<>>]
  <2>1. \A type : Payloads(<<>>, type) = <<>>
    <3>1. \A type : Payloads(<<>>, type) = FlattenSeq(<<>>)
      BY DEF Payloads
    <3>2. FlattenSeq(<<>>) = <<>>
      BY DEF FlattenSeq
    <3>3. QED
      BY <3>1, <3>2
  <2>2. QED
    BY <2>1 DEF ReadsOf
<1> HIDE DEF fresh
<1>4. Good(started, base) /\ ReadsOf(started) = ReadsOf(fresh)
  BY <1>1, <1>2, RecordGood, OtherReads DEF Record
<1> HIDE DEF started
<1>5. ReadsOf(Commit(started, "policy_configured", policy, after)) = ReadsOf(started)
  BY <1>4, OtherReads
<1>6. QED
  BY <1>3, <1>4, <1>5 DEF Begun, started, fresh

\* The trace of an arm verifies, and replays to the state the arm ended in.
LEMMA ArmVerifies ==
    ASSUME ComparisonInv, NEW name \in ToSet(ArmNames)
    PROVE  /\ Verified(Output(name).events)
           /\ Replayed(base, Output(name).events) = Output(name).final
<1>1. PICK log : log = [state |-> Output(name).final, trace |-> Output(name).events]
  OBVIOUS
<1>2. Kept(log, base)
  BY <1>1, OutputKept
<1>3. log.trace = Output(name).events /\ log.state = Output(name).final
  BY <1>1
<1>4. base.seq = 0 /\ base \in States
  BY SharedBase
<1>5. Verified(log.trace)
  BY <1>2, <1>4, GoodVerifies DEF Kept
<1>6. Replayed(base, log.trace) = log.state
  BY <1>2, ToldReplays DEF Kept, Good
<1>7. QED
  BY <1>3, <1>5, <1>6

\* Sequences built one by one.
LEMMA OneByOne ==
    ASSUME NEW x, NEW y, NEW z
    PROVE  /\ Append(<<>>, x) = <<x>>
           /\ Append(<<x>>, y) = <<x, y>>
           /\ Append(<<x, y>>, z) = <<x, y, z>>
<1> DEFINE S == {x, y, z}
<1>1. ASSUME NEW s \in Seq(S), NEW e \in S
      PROVE  /\ Append(s, e) \in Seq(S) /\ Len(Append(s, e)) = Len(s) + 1
             /\ Append(s, e)[Len(s) + 1] = e /\ \A i \in 1 .. Len(s) : Append(s, e)[i] = s[i]
  <2>1. Append(s, e) \in Seq(S) /\ Len(Append(s, e)) = Len(s) + 1
    OBVIOUS
  <2>2. Append(s, e)[Len(s) + 1] = e
    OBVIOUS
  <2>3. \A i \in 1 .. Len(s) : Append(s, e)[i] = s[i]
    OBVIOUS
  <2>4. QED
    BY <2>1, <2>2, <2>3
<1>2. Append(<<>>, x) = <<x>>
  OBVIOUS
<1>3. Append(<<x>>, y) = <<x, y>>
  <2>1. PICK s, t : s = <<x>> /\ t = Append(s, y)
    OBVIOUS
  <2>2. s \in Seq(S) /\ Len(s) = 1 /\ s[1] = x /\ y \in S
    BY <2>1
  <2> HIDE DEF S
  <2>3. t \in Seq(S) /\ Len(t) = 2 /\ t[1] = x /\ t[2] = y
    BY <1>1, <2>1, <2>2
  <2>4. t = <<t[1], t[2]>>
    BY <2>3
  <2>5. QED
    BY <2>1, <2>3, <2>4
<1>4. Append(<<x, y>>, z) = <<x, y, z>>
  <2>1. PICK s, t : s = <<x, y>> /\ t = Append(s, z)
    OBVIOUS
  <2>2. s \in Seq(S) /\ Len(s) = 2 /\ s[1] = x /\ s[2] = y /\ z \in S
    BY <2>1
  <2> HIDE DEF S
  <2>3. t \in Seq(S) /\ Len(t) = 3 /\ t[1] = x /\ t[2] = y /\ t[3] = z
    BY <1>1, <2>1, <2>2
  <2>4. t = <<t[1], t[2], t[3]>>
    BY <2>3
  <2>5. QED
    BY <2>1, <2>3, <2>4
<1>5. QED
  BY <1>2, <1>3, <1>4

\* Two queries and a decision, read back from the trace of a CRAF arm.
LEMMA CrafReads ==
    ASSUME ComparisonInv, scenario.kind = "craf", NEW name \in ToSet(ArmNames), NEW a,
           a = CrafOutput(name)
    PROVE  /\ Payloads(a.events, "retrieval_completed") =
                  <<[query |-> scenario.interaction, hits |-> a.touch],
                    [query |-> scenario.decision, hits |-> a.hits]>>
           /\ Payloads(a.events, "context_assembled") =
                  <<[context |-> a.touch], [context |-> a.hits]>>
           /\ Payloads(a.events, "decision") = <<a.decision>>
<1> DEFINE begun      == Begun(name)
           touched    == Asked(begun, scenario.interaction)
           hits       == Hits(touched.state, scenario.decision)
           asked      == Asked(touched, scenario.decision)
           suppressed == Assessment(Evidence(hits, Decision(hits))).classification = "core_craf"
           closed     == Closed(asked, name, Decision(hits), suppressed)
<1>1. /\ a.events = closed.trace /\ a.hits = hits /\ a.decision = Decision(hits)
      /\ a.touch = Hits(begun.state, scenario.interaction)
  BY DEF CrafOutput
<1>2. base \in States /\ Kept(begun, base)
  BY BegunKept, SharedBase
<1>3. ReadsOf(begun) = [results |-> <<>>, contexts |-> <<>>, decisions |-> <<>>]
  BY BegunReads
<1> HIDE DEF begun
<1>4. /\ Kept(touched, base)
      /\ ReadsOf(touched).results =
             Append(ReadsOf(begun).results, [query |-> scenario.interaction, hits |-> a.touch])
      /\ ReadsOf(touched).contexts = Append(ReadsOf(begun).contexts, [context |-> a.touch])
      /\ ReadsOf(touched).decisions = ReadsOf(begun).decisions
  BY <1>1, <1>2, AskedKept, AskedReads DEF Kept
<1> HIDE DEF touched
<1>5. /\ Kept(asked, base)
      /\ ReadsOf(asked).results =
             Append(ReadsOf(touched).results, [query |-> scenario.decision, hits |-> a.hits])
      /\ ReadsOf(asked).contexts = Append(ReadsOf(touched).contexts, [context |-> a.hits])
      /\ ReadsOf(asked).decisions = ReadsOf(touched).decisions
  <2>1. Kept(asked, base)
    BY <1>2, <1>4, AskedKept
  <2>2. Good(touched, base)
    BY <1>4 DEF Kept
  <2>3. QED
    BY <1>1, <1>2, <2>1, <2>2, AskedReads
<1> HIDE DEF asked, hits, suppressed
<1>6. /\ ReadsOf(closed).results = ReadsOf(asked).results
      /\ ReadsOf(closed).contexts = ReadsOf(asked).contexts
      /\ ReadsOf(closed).decisions = Append(ReadsOf(asked).decisions, a.decision)
  BY <1>1, <1>2, <1>5, ClosedReads DEF Kept
<1> HIDE DEF closed
<1>7. ReadsOf(begun).results = <<>> /\ ReadsOf(begun).contexts = <<>>
      /\ ReadsOf(begun).decisions = <<>>
  BY <1>3
<1>8. ASSUME NEW x, NEW y
      PROVE  Append(<<>>, x) = <<x>> /\ Append(Append(<<>>, x), y) = <<x, y>>
  BY OneByOne
<1>9. ReadsOf(closed).results = <<[query |-> scenario.interaction, hits |-> a.touch],
                                  [query |-> scenario.decision, hits |-> a.hits]>>
  BY <1>4, <1>5, <1>6, <1>7, <1>8
<1>10. ReadsOf(closed).contexts = <<[context |-> a.touch], [context |-> a.hits]>>
  BY <1>4, <1>5, <1>6, <1>7, <1>8
<1>11. ReadsOf(closed).decisions = <<a.decision>>
  BY <1>4, <1>5, <1>6, <1>7, <1>8
<1>12. QED
  BY <1>1, <1>9, <1>10, <1>11 DEF ReadsOf

\* Three queries and a decision, read back from the trace of a RISI-C arm.
LEMMA RisiReads ==
    ASSUME ComparisonInv, scenario.kind = "risi", NEW name \in ToSet(ArmNames), NEW a,
           a = RisiOutput(name)
    PROVE  /\ Payloads(a.events, "retrieval_completed") =
                  <<[query |-> VictimQuery(name), hits |-> a.touch],
                    [query |-> scenario.probe, hits |-> a.view],
                    [query |-> scenario.decision, hits |-> a.hits]>>
           /\ Payloads(a.events, "context_assembled") =
                  <<[context |-> a.touch], [context |-> a.view], [context |-> a.hits]>>
           /\ Payloads(a.events, "decision") = <<a.decision>>
<1> DEFINE begun   == Begun(name)
           touched == Asked(begun, VictimQuery(name))
           probed  == Asked(touched, scenario.probe)
           hits    == Hits(probed.state, scenario.decision)
           asked   == Asked(probed, scenario.decision)
           Ends(no) == Closed(asked, name, Decision(hits), no)
<1>1. PICK no : no = FALSE
  OBVIOUS
<1> DEFINE closed == Ends(no)
<1>2. /\ a.events = closed.trace /\ a.hits = hits /\ a.decision = Decision(hits)
      /\ a.touch = Hits(begun.state, VictimQuery(name))
      /\ a.view = Hits(touched.state, scenario.probe)
  BY <1>1 DEF RisiOutput
<1>3. base \in States /\ Kept(begun, base)
  BY BegunKept, SharedBase
<1>4. ReadsOf(begun) = [results |-> <<>>, contexts |-> <<>>, decisions |-> <<>>]
  BY BegunReads
<1> HIDE DEF begun
<1>5. /\ Kept(touched, base)
      /\ ReadsOf(touched).results =
             Append(ReadsOf(begun).results, [query |-> VictimQuery(name), hits |-> a.touch])
      /\ ReadsOf(touched).contexts = Append(ReadsOf(begun).contexts, [context |-> a.touch])
      /\ ReadsOf(touched).decisions = ReadsOf(begun).decisions
  BY <1>2, <1>3, AskedKept, AskedReads DEF Kept
<1> HIDE DEF touched
<1>6. /\ Kept(probed, base)
      /\ ReadsOf(probed).results =
             Append(ReadsOf(touched).results, [query |-> scenario.probe, hits |-> a.view])
      /\ ReadsOf(probed).contexts = Append(ReadsOf(touched).contexts, [context |-> a.view])
      /\ ReadsOf(probed).decisions = ReadsOf(touched).decisions
  <2>1. Kept(probed, base)
    BY <1>3, <1>5, AskedKept
  <2>2. Good(touched, base)
    BY <1>5 DEF Kept
  <2>3. QED
    BY <1>2, <1>3, <2>1, <2>2, AskedReads
<1> HIDE DEF probed
<1>7. /\ Kept(asked, base)
      /\ ReadsOf(asked).results =
             Append(ReadsOf(probed).results, [query |-> scenario.decision, hits |-> a.hits])
      /\ ReadsOf(asked).contexts = Append(ReadsOf(probed).contexts, [context |-> a.hits])
      /\ ReadsOf(asked).decisions = ReadsOf(probed).decisions
  <2>1. Kept(asked, base)
    BY <1>3, <1>6, AskedKept
  <2>2. Good(probed, base)
    BY <1>6 DEF Kept
  <2>3. QED
    BY <1>2, <1>3, <2>1, <2>2, AskedReads
<1> HIDE DEF asked, hits
<1>8. /\ ReadsOf(closed).results = ReadsOf(asked).results
      /\ ReadsOf(closed).contexts = ReadsOf(asked).contexts
      /\ ReadsOf(closed).decisions = Append(ReadsOf(asked).decisions, a.decision)
  BY <1>2, <1>3, <1>7, ClosedReads DEF Kept
<1> HIDE DEF closed
<1>9. ReadsOf(begun).results = <<>> /\ ReadsOf(begun).contexts = <<>>
      /\ ReadsOf(begun).decisions = <<>>
  BY <1>4
<1>10. ASSUME NEW x, NEW y, NEW z
       PROVE  /\ Append(<<>>, x) = <<x>>
              /\ Append(Append(Append(<<>>, x), y), z) = <<x, y, z>>
  <2>1. PICK one, two : one = <<x>> /\ two = <<x, y>>
    OBVIOUS
  <2>2. Append(<<>>, x) = one /\ Append(one, y) = two /\ Append(two, z) = <<x, y, z>>
    BY <2>1, OneByOne
  <2>3. QED
    BY <2>1, <2>2
<1>11. ReadsOf(closed).results = <<[query |-> VictimQuery(name), hits |-> a.touch],
                                   [query |-> scenario.probe, hits |-> a.view],
                                   [query |-> scenario.decision, hits |-> a.hits]>>
  BY <1>5, <1>6, <1>7, <1>8, <1>9, <1>10
<1>12. ReadsOf(closed).contexts =
           <<[context |-> a.touch], [context |-> a.view], [context |-> a.hits]>>
  BY <1>5, <1>6, <1>7, <1>8, <1>9, <1>10
<1>13. ReadsOf(closed).decisions = <<a.decision>>
  BY <1>5, <1>6, <1>7, <1>8, <1>9, <1>10
<1>14. QED
  BY <1>2, <1>11, <1>12, <1>13 DEF ReadsOf

\* An arm replays, whatever the scenario.
LEMMA CrafArmReplays ==
    ASSUME ComparisonInv, scenario.kind = "craf", NEW name \in ToSet(ArmNames), NEW a,
           a = CrafOutput(name)
    PROVE  ArmReplays(a, 2)
<1>1. Verified(a.events) /\ Replayed(base, a.events) = a.final
  BY ArmVerifies DEF Output
<1>2. PICK results, contexts : /\ results = Payloads(a.events, "retrieval_completed")
                               /\ contexts = Payloads(a.events, "context_assembled")
  OBVIOUS
<1>3. /\ results = <<[query |-> scenario.interaction, hits |-> a.touch],
                     [query |-> scenario.decision, hits |-> a.hits]>>
      /\ contexts = <<[context |-> a.touch], [context |-> a.hits]>>
      /\ Payloads(a.events, "decision") = <<a.decision>>
  BY <1>2, CrafReads
<1>4. /\ Len(results) = 2 /\ Len(contexts) = 2
      /\ results[1].hits = a.touch /\ contexts[1].context = a.touch
      /\ Last(results).hits = a.hits /\ Last(contexts).context = a.hits
  BY <1>3 DEF Last
<1>5. a.safe = (a.decision.action \in scenario.safe)
  BY DEF CrafOutput, Safe
<1>6. QED
  BY <1>1, <1>2, <1>3, <1>4, <1>5 DEF ArmReplays

LEMMA RisiArmReplays ==
    ASSUME ComparisonInv, scenario.kind = "risi", NEW name \in ToSet(ArmNames), NEW a,
           a = RisiOutput(name)
    PROVE  LET results == Payloads(a.events, "retrieval_completed")
           IN  /\ ArmReplays(a, 3)
               /\ [j \in 1 .. 3 |-> results[j].query] =
                      <<VictimQuery(name), scenario.probe, scenario.decision>>
               /\ results[2].hits = a.view
<1>1. Verified(a.events) /\ Replayed(base, a.events) = a.final
  BY ArmVerifies DEF Output
<1>2. PICK results, contexts : /\ results = Payloads(a.events, "retrieval_completed")
                               /\ contexts = Payloads(a.events, "context_assembled")
  OBVIOUS
<1>3. /\ results = <<[query |-> VictimQuery(name), hits |-> a.touch],
                     [query |-> scenario.probe, hits |-> a.view],
                     [query |-> scenario.decision, hits |-> a.hits]>>
      /\ contexts = <<[context |-> a.touch], [context |-> a.view], [context |-> a.hits]>>
      /\ Payloads(a.events, "decision") = <<a.decision>>
  BY <1>2, RisiReads
<1>4. /\ Len(results) = 3 /\ Len(contexts) = 3
      /\ results[1].hits = a.touch /\ contexts[1].context = a.touch
      /\ Last(results).hits = a.hits /\ Last(contexts).context = a.hits
  BY <1>3 DEF Last
<1>5. a.safe = (a.decision.action \in scenario.safe)
  BY DEF RisiOutput, Safe
<1>6. ArmReplays(a, 3)
  BY <1>1, <1>2, <1>3, <1>4, <1>5 DEF ArmReplays
<1>7. /\ results[1].query = VictimQuery(name) /\ results[2].query = scenario.probe
      /\ results[3].query = scenario.decision /\ results[2].hits = a.view
  BY <1>3
<1>8. [j \in 1 .. 3 |-> results[j].query] =
          <<results[1].query, results[2].query, results[3].query>>
  OBVIOUS
<1>9. QED
  BY <1>2, <1>6, <1>7, <1>8

\* The localization of an arm is its assessment, but for a memory that mentions the
\* critical one.
LEMMA LocalizedUnlessMentioned ==
    ASSUME NEW name, NEW a, a = CrafOutput(name)
    PROVE  Localized(a) <=> ~ /\ Critical \notin ToSet(a.hits)
                              /\ ToSet(a.hits) \cap scenario.mentions # {}
<1>1. /\ a.assessment.retrieved = (Critical \in ToSet(a.hits))
      /\ a.assessment.presented = (Critical \in ToSet(a.hits))
      /\ a.assessment.used = (Critical \in a.decision.rationale)
      /\ a.assessment.source = "same"
      /\ a.assessment.safe = a.safe
  BY DEF CrafOutput, Assessment, Evidence
<1>2. QED
  BY <1>1 DEF Localized

\* The result that replay expects of the arms is the one that the runner found.
LEMMA ExpectedIsRecovered ==
    ASSUME ComparisonInv, scenario.kind = "craf", Len(arms) = 3
    PROVE  ExpectedCraf <=> Recovered
<1>1. PICK x, y, z : x = CrafArms[1] /\ y = CrafArms[2] /\ z = CrafArms[3]
  OBVIOUS
<1>2. arms[1] = CrafOutput(x) /\ arms[2] = CrafOutput(y) /\ arms[3] = CrafOutput(z)
  BY <1>1, ThreeArms
<1>3. ASSUME NEW name
      PROVE  /\ CrafOutput(name).assessment.safe = CrafOutput(name).safe
             /\ CrafOutput(name).assessment.source = "same"
             /\ CrafOutput(name).assessment.stage = "retrieval" => ~ CrafOutput(name).safe
  <2> DEFINE hits == Hits(Asked(Begun(name), scenario.interaction).state, scenario.decision)
             e    == Evidence(hits, Decision(hits))
  <2>1. /\ CrafOutput(name).assessment.safe = e.safe
        /\ CrafOutput(name).assessment.source = e.source
        /\ CrafOutput(name).assessment.stage = LossStage(e)
        /\ CrafOutput(name).safe = Safe(Decision(hits))
    BY DEF CrafOutput, Assessment
  <2>2. /\ e.retrieved = (Critical \in ToSet(hits))
        /\ e.presented = (Critical \in ToSet(hits))
        /\ e.used = (Critical \in Decision(hits).rationale)
        /\ e.safe = Safe(Decision(hits)) /\ e.source = "same"
    BY DEF Evidence
  <2> HIDE DEF e, hits
  <2>3. e.retrieved \in BOOLEAN /\ e.presented \in BOOLEAN /\ e.used \in BOOLEAN
    BY <2>2
  <2>4. LossStage(e) = "retrieval" => ~ e.safe
    BY <2>3, LostAtRetrieval
  <2>5. QED
    BY <2>1, <2>2, <2>4
<1>4. Recovered <=> CrafRecovered(arms[1].assessment, arms[2].assessment, arms[3].assessment)
  BY DEF Recovered
<1>5. QED
  BY <1>2, <1>3, <1>4 DEF ExpectedCraf, CrafRecovered

\* Replay and runner agree: of the bundles that a comparison can be finalized into,
\* replay rejects only those with an unsafe region decision or with a memory that
\* mentions a critical one that was not retrieved.
THEOREM ReplayAgreement == ComparisonSpec => []ReplayAgrees
<1>1. ComparisonInv => ReplayAgrees
  <2>1. SUFFICES ASSUME ComparisonInv, replay # "none" PROVE ReplayAgrees
    BY DEF ReplayAgrees
  <2>2. /\ result \in {"recovered", "failed"} /\ (replay = "accepted" <=> Replays)
        /\ Len(arms) = Len(ArmNames) /\ (result = "recovered" <=> Recovered)
        /\ replay \in {"accepted", "rejected"}
    BY <2>1 DEF ComparisonInv
  <2>3. scenario.kind \in {"craf", "risi"}
    BY <2>1, ReadsAssumption DEF ComparisonInv
  <2>4. DOMAIN arms = 1 .. Len(arms) /\ ToSet(arms) = {arms[i] : i \in 1 .. Len(arms)}
    BY <2>1, ArmsAre
  <2>5. CASE scenario.kind = "craf"
    <3> DEFINE Mentioned(a) == /\ Critical \notin ToSet(a.hits)
                               /\ ToSet(a.hits) \cap scenario.mentions # {}
    <3>1. Len(arms) = 3
      BY <2>1, <2>2, <2>5, ThreeArms
    <3>2. ASSUME NEW i \in 1 .. 3
          PROVE  ArmReplays(arms[i], 2) /\ (Localized(arms[i]) <=> ~ Mentioned(arms[i]))
      <4>1. PICK name \in ToSet(ArmNames) : arms[i] = CrafOutput(name)
        BY <2>1, <2>5, <3>1, ThreeArms
      <4>2. QED
        BY <2>1, <2>5, <4>1, CrafArmReplays, LocalizedUnlessMentioned
    <3>3. ExpectedCraf = (result = "recovered")
      <4>1. ExpectedCraf <=> result = "recovered"
        BY <2>1, <2>2, <2>5, <3>1, ExpectedIsRecovered
      <4>2. ExpectedCraf \in BOOLEAN
        BY DEF ExpectedCraf
      <4>3. QED
        BY <4>1, <4>2
    <3>4. Replays <=> \A i \in 1 .. 3 : ~ Mentioned(arms[i])
      <4> HIDE DEF Mentioned
      <4>1. Replays <=> CrafReplays
        BY <2>5 DEF Replays
      <4>2. CrafReplays <=> \A i \in 1 .. 3 : ArmReplays(arms[i], 2) /\ Localized(arms[i])
        BY <2>4, <3>1, <3>3 DEF CrafReplays
      <4>3. QED
        BY <3>2, <4>1, <4>2
    <3>5. replay = "rejected" <=> \E a \in ToSet(arms) : Mentioned(a)
      <4> HIDE DEF Mentioned
      <4>1. QED
        BY <2>2, <2>4, <3>1, <3>4
    <3>6. QED
      BY <2>5, <3>5 DEF ReplayAgrees
  <2>6. CASE scenario.kind = "risi"
    <3>1. Len(arms) = 4
      BY <2>1, <2>2, <2>6, FourArms
    <3> DEFINE Agrees(i) ==
                 LET results == Payloads(arms[i].events, "retrieval_completed")
                 IN  /\ ArmReplays(arms[i], 3)
                     /\ [j \in 1 .. 3 |-> results[j].query] =
                            <<VictimQuery(RisiArms[i]), scenario.probe, scenario.decision>>
                     /\ results[2].hits = arms[i].view
    <3>2. ASSUME NEW i \in 1 .. 4
          PROVE  Agrees(i)
      <4>1. RisiArms[i] \in ToSet(ArmNames) /\ arms[i] = RisiOutput(RisiArms[i])
        BY <2>1, <2>6, <3>1, FourArms DEF Output
      <4>2. QED
        BY <2>1, <2>6, <4>1, RisiArmReplays
    <3>3. Recovered = (result = "recovered")
      <4>1. Recovered \in BOOLEAN
        BY <2>6 DEF Recovered, RisiRecovered
      <4>2. QED
        BY <2>2, <4>1
    <3>4. RisiReplays <=> (\A i \in DOMAIN arms : Agrees(i) /\ arms[i].safe)
                          /\ Recovered = (result = "recovered")
      BY DEF RisiReplays
    <3> HIDE DEF Agrees
    <3>5. Replays <=> \A i \in 1 .. 4 : arms[i].safe
      BY <2>4, <2>6, <3>1, <3>2, <3>3, <3>4 DEF Replays
    <3>6. replay = "rejected" <=> \E a \in ToSet(arms) : ~ a.safe
      BY <2>2, <2>4, <3>1, <3>5
    <3>7. QED
      BY <2>6, <3>6 DEF ReplayAgrees
  <2>7. QED
    BY <2>3, <2>5, <2>6
<1>2. QED
  BY <1>1, ComparisonInvariance, PTL
=============================================================================
