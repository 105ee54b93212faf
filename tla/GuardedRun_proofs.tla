------------------------- MODULE GuardedRun_proofs -------------------------
(***************************************************************************)
(* Proofs about GuardedRun, for any set of commands and manifests, any set *)
(* of evidence files and any approved limits.  One lemma per group of      *)
(* conjuncts of the inductive invariant IInv.                              *)
(***************************************************************************)
EXTENDS GuardedRun, TLAPS

\* A charged ledger is a ledger.
LEMMA ChargeType ==
    ASSUME TypeOK, NEW r \in Run, NEW spent
    PROVE  Charge(r, spent) \in [Resource -> Nat]
BY DEF TypeOK, Charge

\* A counted call is a count of calls.
LEMMA CallsType ==
    ASSUME TypeOK, NEW r \in Run
    PROVE  /\ [calls EXCEPT ![r].episodes = @ + 1] \in [Run -> Work]
           /\ [calls EXCEPT ![r].retrievals = @ + 1] \in [Run -> Work]
           /\ [calls EXCEPT ![r].decisions = @ + 1] \in [Run -> Work]
BY DEF TypeOK, Work

\* A policy has at least one arm, of one to three retrievals.
LEMMA ArmsType ==
    ASSUME NEW m
    PROVE  Arms(m) \in {1, 3, 4} /\ Retrievals(m) \in {1, 2, 3}
BY DEF Arms, Retrievals

\* Admission has four outcomes.
LEMMA AdmissionType ==
    ASSUME NEW m, NEW a, NEW s
    PROVE  Admission(m, a, s) \in {"blocked", "invalid", "traceback", "admitted"}
BY DEF Admission, RunContract, CrafContract, RisiContract, PureReadContract

\* The conjuncts of IInv, by what they are about.
ControlInv == StartedHasManifest /\ ExitWhenEnded
StagingInv == RenameIsWhole /\ NeverPartial /\ StagingIsTemporary
AuthorInv  == /\ AuthorIsDone /\ SuccessMatchesEvidence
              /\ InterruptedBeforeFinalization /\ FailureLeavesNoEvidence

\* Every step keeps the types.
LEMMA TypeStep ==
    ASSUME TypeOK, StartedHasManifest, WorkInStep, [Next]_vars
    PROVE  TypeOK'
<1> USE NoneAssumption DEF vars, perRun, disk, work, Goto, Exit, TypeOK, Labels, Exits,
        StartedHasManifest
<1>1. ASSUME NEW r \in Run, NEW m \in Manifest, NEW a \in Approval \cup {None},
             Start(r, m, a) \/ Refuse(r, m, a)
      PROVE  TypeOK'
  <2>1. manifest' \in [Run -> Manifest \cup {None}]
    BY <1>1 DEF Start, Refuse
  <2>2. Admission(m, a, scenario) \in {"blocked", "invalid", "traceback", "admitted"}
    BY AdmissionType
  <2>3. pc' \in [Run -> Labels] /\ exit' \in [Run -> Exits]
    BY <1>1, <2>2 DEF Start, Refuse
  <2>4. UNCHANGED <<used, query, calls, staged, final, scenario, edits>>
    BY <1>1 DEF Start, Refuse
  <2>5. QED
    BY <2>1, <2>3, <2>4
<1>2. ASSUME NEW r \in Run, Advance(r) \/ Interrupt(r) \/ Crash(r)
      PROVE  TypeOK'
  <2>1. CASE \/ Recover(r) \/ InitialBudgetFails(r) \/ Exhaust(r) \/ Reject(r)
            \/ MeasureExhausted(r) \/ Check(r)
    BY <2>1 DEF Recover, InitialBudgetFails, Exhaust, Reject, MeasureExhausted, Check
  <2>2. CASE InitialBudget(r)
    <3>1. manifest[r].scenario.records \in Nat /\ scenario.bytes \in Nat
      BY <2>2, ScenarioAssumption, ManifestAssumption DEF InitialBudget
    <3>2. used' \in [Run -> [Resource -> Nat]]
      BY <2>2, <3>1 DEF InitialBudget
    <3>3. QED
      BY <2>2, <3>2 DEF InitialBudget
  <2>3. CASE BeginEpisode(r)
    <3>1. used' \in [Run -> [Resource -> Nat]]
      BY <2>3, ChargeType DEF BeginEpisode
    <3>2. calls' \in [Run -> Work]
      BY <2>3, CallsType DEF BeginEpisode
    <3>3. pc' \in [Run -> Labels] /\ query' \in [Run -> 0 .. 3]
      BY <2>3 DEF BeginEpisode
    <3>4. QED
      BY <2>3, <3>1, <3>2, <3>3 DEF BeginEpisode
  <2>4. CASE Retrieve(r)
    <3>1. used' \in [Run -> [Resource -> Nat]]
      BY <2>4, ChargeType DEF Retrieve
    <3>2. query[r] < Retrievals(manifest[r])
      BY <2>4 DEF Retrieve, WorkInStep, WorkAt
    <3>3. query' \in [Run -> 0 .. 3]
      BY <2>4, <3>2, ArmsType DEF Retrieve
    <3>4. QED
      BY <2>4, <3>1, <3>3, CallsType DEF Retrieve
  <2>5. CASE Decide(r)
    <3>1. used' \in [Run -> [Resource -> Nat]]
      BY <2>5, ChargeType DEF Decide
    <3>2. calls' \in [Run -> Work]
      BY <2>5, CallsType DEF Decide
    <3>3. pc' \in [Run -> Labels] /\ exit' \in [Run -> Exits]
      BY <2>5 DEF Decide
    <3>4. QED
      BY <2>5, <3>1, <3>2, <3>3 DEF Decide
  <2>6. CASE Measure(r)
    <3>1. used' \in [Run -> [Resource -> Nat]]
      <4>1. PICK n \in EvidenceBytes :
                used' = [used EXCEPT ![r] = [used[r] EXCEPT !["artifact_bytes"] = n]]
        BY <2>6 DEF Measure
      <4>2. n \in Nat
        BY BytesAssumption
      <4>3. QED
        BY <4>1, <4>2
    <3>2. QED
      BY <2>6, <3>1 DEF Measure
  <2>7. CASE (\E f \in File : StageFile(r, f)) \/ StageInventory(r)
    <3>1. staged' \in [Run -> SUBSET Complete]
      BY <2>7 DEF StageFile, StageInventory, Complete
    <3>2. pc' \in [Run -> Labels]
      BY <2>7 DEF StageFile, StageInventory
    <3>3. QED
      BY <2>7, <3>1, <3>2 DEF StageFile, StageInventory
  <2>8. CASE Rename(r)
    <3>1. manifest[r] \in Manifest
      BY <2>8 DEF Rename
    <3>2. final' \in Bundles \cup {None}
      BY <2>8, <3>1 DEF Rename, Bundles
    <3>3. QED
      BY <2>8, <3>2 DEF Rename
  <2>9. CASE \/ StageFails(r) \/ ReportResult(r) \/ InterruptRecover(r)
            \/ Interrupt(r) \/ Crash(r)
    BY <2>9 DEF StageFails, ReportResult, InterruptRecover, Interrupt, Crash
  <2>10. QED
    BY <1>2, <2>1, <2>2, <2>3, <2>4, <2>5, <2>6, <2>7, <2>8, <2>9 DEF Advance
<1>3. CASE EditScenario
  BY <1>3, EditsAssumption DEF EditScenario
<1>4. CASE UNCHANGED vars
  BY <1>4
<1>5. QED
  BY <1>1, <1>2, <1>3, <1>4 DEF Next, Step, Rest

\* Every step keeps a started command with its manifest, an exit code with the end.
LEMMA ControlStep ==
    ASSUME TypeOK, ControlInv, [Next]_vars
    PROVE  ControlInv'
<1> USE NoneAssumption DEF vars, perRun, disk, work, Goto, Exit, TypeOK, ControlInv,
        StartedHasManifest, ExitWhenEnded
<1>1. ASSUME NEW r \in Run, NEW m \in Manifest, NEW a \in Approval \cup {None},
             Start(r, m, a) \/ Refuse(r, m, a)
      PROVE  ControlInv'
  <2>1. m # None
    BY ManifestAssumption
  <2>2. QED
    BY <1>1, <2>1 DEF Start, Refuse
<1>2. ASSUME NEW r \in Run, Advance(r) \/ Interrupt(r) \/ Crash(r)
      PROVE  ControlInv'
  <2>1. CASE \/ Recover(r) \/ InitialBudget(r) \/ InitialBudgetFails(r) \/ Exhaust(r)
            \/ Reject(r) \/ Measure(r) \/ MeasureExhausted(r) \/ Check(r)
    BY <2>1 DEF Recover, InitialBudget, InitialBudgetFails, Exhaust, Reject, Measure,
       MeasureExhausted, Check
  <2>2. CASE BeginEpisode(r) \/ Retrieve(r) \/ Decide(r)
    BY <2>2 DEF BeginEpisode, Retrieve, Decide
  <2>3. CASE \/ (\E f \in File : StageFile(r, f)) \/ StageInventory(r)
            \/ Rename(r) \/ StageFails(r) \/ ReportResult(r)
            \/ InterruptRecover(r) \/ Interrupt(r) \/ Crash(r)
    BY <2>3 DEF StageFile, StageInventory, Rename, StageFails, ReportResult,
       InterruptRecover, Interrupt, Crash
  <2>4. QED
    BY <1>2, <2>1, <2>2, <2>3 DEF Advance
<1>3. CASE EditScenario
  BY <1>3 DEF EditScenario
<1>4. CASE UNCHANGED vars
  BY <1>4
<1>5. QED
  BY <1>1, <1>2, <1>3, <1>4 DEF Next, Step, Rest

\* Every step keeps the staging directories private and the final bundle whole.
LEMMA StagingStep ==
    ASSUME TypeOK, ExitWhenEnded, StagingInv, [Next]_vars
    PROVE  StagingInv'
<1> USE NoneAssumption DEF vars, perRun, disk, work, Goto, Exit, TypeOK, ExitWhenEnded,
        StagingInv, RenameIsWhole, NeverPartial, StagingIsTemporary
<1>1. ASSUME NEW r \in Run, NEW m \in Manifest, NEW a \in Approval \cup {None},
             Start(r, m, a) \/ Refuse(r, m, a)
      PROVE  StagingInv'
  BY <1>1 DEF Start, Refuse
<1>2. ASSUME NEW r \in Run, Advance(r) \/ Interrupt(r) \/ Crash(r)
      PROVE  StagingInv'
  <2>1. CASE \/ Recover(r) \/ InitialBudget(r) \/ InitialBudgetFails(r) \/ Exhaust(r)
            \/ Reject(r) \/ Measure(r) \/ MeasureExhausted(r) \/ Check(r)
    BY <2>1 DEF Recover, InitialBudget, InitialBudgetFails, Exhaust, Reject, Measure,
       MeasureExhausted, Check
  <2>2. CASE BeginEpisode(r) \/ Retrieve(r) \/ Decide(r)
    <3>1. CASE BeginEpisode(r)
      BY <3>1 DEF BeginEpisode
    <3>2. CASE Retrieve(r)
      BY <3>2 DEF Retrieve
    <3>3. CASE Decide(r)
      BY <3>3 DEF Decide
    <3>4. QED
      BY <2>2, <3>1, <3>2, <3>3
  <2>3. CASE \E f \in File : StageFile(r, f)
    BY <2>3 DEF StageFile
  <2>4. CASE StageInventory(r)
    BY <2>4 DEF StageInventory, Complete
  <2>5. CASE Rename(r)
    BY <2>5 DEF Rename
  <2>6. CASE \/ StageFails(r) \/ ReportResult(r) \/ InterruptRecover(r)
            \/ Interrupt(r) \/ Crash(r)
    BY <2>6 DEF StageFails, ReportResult, InterruptRecover, Interrupt, Crash
  <2>7. QED
    BY <1>2, <2>1, <2>2, <2>3, <2>4, <2>5, <2>6 DEF Advance
<1>3. CASE EditScenario
  BY <1>3 DEF EditScenario
<1>4. CASE UNCHANGED vars
  BY <1>4
<1>5. QED
  BY <1>1, <1>2, <1>3, <1>4 DEF Next, Step, Rest

\* Every step keeps what commands report in agreement with the bundle.  A
\* handler that interrupted the author finds the bundle recoverable, because
\* it is whole and is for the author's own manifest.
LEMMA AuthorStep ==
    ASSUME TypeOK, ControlInv, AdmittedUnderWay, NeverPartial, AuthorInv, [Next]_vars
    PROVE  AuthorInv'
<1> USE NoneAssumption DEF vars, perRun, disk, work, Goto, Exit, TypeOK, ControlInv,
        ExitWhenEnded, StartedHasManifest, NeverPartial, AuthorInv,
        AuthorIsDone, SuccessMatchesEvidence, InterruptedBeforeFinalization,
        FailureLeavesNoEvidence
<1>a. final # None => final.by \in Run
  BY DEF Bundles
<1> USE <1>a
<1>1. ASSUME NEW r \in Run, NEW m \in Manifest, NEW a \in Approval \cup {None},
             Start(r, m, a) \/ Refuse(r, m, a)
      PROVE  AuthorInv'
  <2>1. /\ pc[r] = "idle" /\ exit'[r] \in {"none", "blocked", "invalid", "traceback"}
        /\ \A q \in Run \ {r} : /\ pc'[q] = pc[q] /\ exit'[q] = exit[q]
                              /\ manifest'[q] = manifest[q]
        /\ pc'[r] # "report" /\ UNCHANGED <<final, edits>>
    BY <1>1, AdmissionType DEF Start, Refuse
  <2>2. QED
    BY <2>1
<1>2. ASSUME NEW r \in Run, Advance(r) \/ Interrupt(r) \/ Crash(r)
      PROVE  AuthorInv'
  <2>1. CASE Recover(r)
    BY <2>1 DEF Recover, Recoverable
  <2>2. CASE \/ InitialBudget(r) \/ InitialBudgetFails(r) \/ Exhaust(r) \/ Reject(r)
            \/ Measure(r) \/ MeasureExhausted(r) \/ Check(r)
    BY <2>2 DEF InitialBudget, InitialBudgetFails, Exhaust, Reject, Measure,
       MeasureExhausted, Check
  <2>3. CASE BeginEpisode(r) \/ Retrieve(r) \/ Decide(r)
    BY <2>3 DEF BeginEpisode, Retrieve, Decide
  <2>4. CASE (\E f \in File : StageFile(r, f)) \/ StageInventory(r)
    BY <2>4 DEF StageFile, StageInventory
  <2>5. CASE Rename(r)
    <3>1. CASE final = None
      <4>1. final' = [by |-> r, manifest |-> manifest[r], files |-> staged[r]]
        BY <2>5, <3>1 DEF Rename
      <4>2. final' # None /\ final'.by = r /\ final'.manifest = manifest[r]
        <5>1. manifest[r] \in Manifest /\ staged[r] \subseteq Complete
          BY <2>5 DEF Rename
        <5>2. final' \in Bundles
          BY <4>1, <5>1 DEF Bundles
        <5>3. QED
          BY <4>1, <5>2
      <4>3. \A q \in Run : exit[q] \notin {"ok", "reused"} /\ pc[q] # "report"
        BY <3>1
      <4>4. exit[r] = "none"
        BY <2>5 DEF Rename, Exits
      <4>5. QED
        BY <2>5, <3>1, <4>2, <4>3, <4>4 DEF Rename
    <3>2. CASE final # None
      BY <2>5, <3>2 DEF Rename
    <3>3. QED
      BY <3>1, <3>2
  <2>6. CASE StageFails(r) \/ ReportResult(r) \/ Interrupt(r) \/ Crash(r)
    BY <2>6 DEF StageFails, ReportResult, Interrupt, Crash
  <2>7. CASE InterruptRecover(r)
    <3>1. edits = 0 => scenario = manifest[r].scenario
      BY <2>7 DEF InterruptRecover, AdmittedUnderWay
    <3>2. exit[r] = "none" /\ manifest[r] # None
      BY <2>7 DEF InterruptRecover
    <3>3. UNCHANGED <<final, manifest, edits>>
      BY <2>7 DEF InterruptRecover
    <3>4. CASE exit' = [exit EXCEPT ![r] = "reused"] /\ Recoverable(r)
      BY <2>7, <3>2, <3>3, <3>4 DEF InterruptRecover, Recoverable
    <3>5. CASE /\ exit' = [exit EXCEPT ![r] = "interrupted"]
               /\ ~ (scenario = manifest[r].scenario /\ Recoverable(r))
      <4>1. final # None /\ final.by = r => edits > 0
        BY <3>1, <3>5 DEF Recoverable
      <4>2. QED
        BY <2>7, <3>2, <3>3, <3>5, <4>1 DEF InterruptRecover
    <3>6. QED
      BY <2>7, <3>4, <3>5 DEF InterruptRecover
  <2>8. QED
    BY <1>2, <2>1, <2>2, <2>3, <2>4, <2>5, <2>6, <2>7 DEF Advance
<1>3. CASE EditScenario
  BY <1>3 DEF EditScenario
<1>4. CASE UNCHANGED vars
  BY <1>4
<1>5. QED
  BY <1>1, <1>2, <1>3, <1>4 DEF Next, Step, Rest

\* Every step keeps the commands under way as they were admitted.
LEMMA AdmittedStep ==
    ASSUME TypeOK, StartedHasManifest, AdmittedUnderWay, [Next]_vars
    PROVE  AdmittedUnderWay'
<1> USE NoneAssumption DEF vars, perRun, disk, work, Goto, Exit, TypeOK, AdmittedUnderWay
<1>1. ASSUME NEW r \in Run, NEW m \in Manifest, NEW a \in Approval \cup {None},
             Start(r, m, a)
      PROVE  AdmittedUnderWay'
  <2>1. scenario = m.scenario /\ Admission(m, a, scenario) = "admitted"
    BY <1>1 DEF Start, Admission, Loads
  <2>2. m.limits \in [Resource -> Nat \ {0}]
    BY ManifestAssumption
  <2>3. /\ AllWork(m).episodes <= m.limits["episodes"]
        /\ AllWork(m).retrievals <= m.limits["retrieval_calls"]
    BY <2>1, <2>2 DEF Admission, RunContract, CrafContract, RisiContract, Arms, Retrievals,
       AllWork, Resource
  <2>4. QED
    BY <1>1, <2>1, <2>3 DEF Start
<1>2. ASSUME NEW r \in Run, NEW m \in Manifest, NEW a \in Approval \cup {None},
             Refuse(r, m, a)
      PROVE  AdmittedUnderWay'
  BY <1>2 DEF Refuse
<1>3. ASSUME NEW r \in Run, Advance(r) \/ Interrupt(r) \/ Crash(r)
      PROVE  AdmittedUnderWay'
  <2>1. UNCHANGED <<manifest, scenario, edits>>
    BY <1>3 DEF Advance, Recover, InitialBudget, InitialBudgetFails, BeginEpisode, Retrieve,
       Decide, Exhaust, Reject, Measure, MeasureExhausted, Check, StageFile, StageInventory,
       Rename, StageFails, ReportResult, InterruptRecover, Interrupt, Crash
  <2>2. /\ pc[r] \notin {"idle", "ended"}
        /\ \A q \in Run \ {r} : pc'[q] = pc[q]
    BY <1>3 DEF Advance, Recover, InitialBudget, InitialBudgetFails, BeginEpisode, Retrieve,
       Decide, Exhaust, Reject, Measure, MeasureExhausted, Check, StageFile, StageInventory,
       Rename, StageFails, ReportResult, InterruptRecover, Interrupt, Crash
  <2>3. QED
    BY <2>1, <2>2
<1>4. CASE EditScenario
  BY <1>4 DEF EditScenario
<1>5. CASE UNCHANGED vars
  BY <1>5
<1>6. QED
  BY <1>1, <1>2, <1>3, <1>4, <1>5 DEF Next, Step, Rest

\* What one command does leaves the work of the others as it was.
LEMMA OthersWork ==
    ASSUME WorkInStep, NEW r \in Run, WorkAt(r)',
           \A q \in Run \ {r} : /\ pc'[q] = pc[q] /\ calls'[q] = calls[q]
                               /\ used'[q] = used[q] /\ query'[q] = query[q]
                               /\ manifest'[q] = manifest[q]
    PROVE  WorkInStep'
<1> SUFFICES ASSUME NEW q \in Run, q # r
             PROVE  WorkAt(q)'
  BY DEF WorkInStep
<1>1. WorkAt(q)
  BY DEF WorkInStep
<1>2. QED
  BY <1>1 DEF WorkAt

\* Every step keeps the count of the work of each command.
LEMMA WorkStep ==
    ASSUME TypeOK, StartedHasManifest, WorkInStep, [Next]_vars
    PROVE  WorkInStep'
<1> USE DEF vars, perRun, disk, work, Goto, Exit, TypeOK
<1>1. ASSUME NEW r \in Run, NEW m \in Manifest, NEW a \in Approval \cup {None},
             Start(r, m, a) \/ Refuse(r, m, a)
      PROVE  WorkInStep'
  <2>1. pc[r] = "idle" /\ pc'[r] \in {"recover", "ended"} /\ UNCHANGED <<used, calls, query>>
    BY <1>1 DEF Start, Refuse
  <2>2. \A q \in Run \ {r} : pc'[q] = pc[q] /\ manifest'[q] = manifest[q]
    BY <1>1 DEF Start, Refuse
  <2>3. WorkAt(r)'
    BY <2>1 DEF WorkInStep, WorkAt
  <2>4. QED
    BY <2>1, <2>2, <2>3, OthersWork
<1>2. ASSUME NEW r \in Run, Advance(r) \/ Interrupt(r) \/ Crash(r)
      PROVE  WorkInStep'
  <2> DEFINE c == calls[r]
             arms == Arms(manifest[r])
             each == Retrievals(manifest[r])
  <2>a. c.episodes \in Nat /\ c.retrievals \in Nat /\ c.decisions \in Nat
    BY DEF Work
  <2>b. arms \in {1, 3, 4} /\ each \in {1, 2, 3}
    BY ArmsType
  <2>c. WorkAt(r)
    BY DEF WorkInStep
  <2>d. UNCHANGED manifest /\ \A q \in Run \ {r} : pc'[q] = pc[q] /\ calls'[q] = calls[q]
                                                 /\ used'[q] = used[q] /\ query'[q] = query[q]
    <3>1. CASE \/ Recover(r) \/ InitialBudget(r) \/ InitialBudgetFails(r) \/ BeginEpisode(r)
              \/ Retrieve(r) \/ Decide(r) \/ Exhaust(r) \/ Reject(r)
      BY <3>1 DEF Recover, InitialBudget, InitialBudgetFails, BeginEpisode, Retrieve, Decide,
         Exhaust, Reject
    <3>2. CASE \/ Measure(r) \/ MeasureExhausted(r) \/ Check(r)
              \/ (\E f \in File : StageFile(r, f)) \/ StageInventory(r)
              \/ Rename(r) \/ StageFails(r) \/ ReportResult(r) \/ InterruptRecover(r)
              \/ Interrupt(r) \/ Crash(r)
      BY <3>2 DEF Measure, MeasureExhausted, Check, StageFile, StageInventory, Rename,
         StageFails, ReportResult, InterruptRecover, Interrupt, Crash
    <3>3. QED
      BY <1>2, <3>1, <3>2 DEF Advance
  <2> SUFFICES WorkAt(r)'
    BY <2>d, OthersWork
  <2>1. CASE \/ InitialBudgetFails(r) \/ Exhaust(r) \/ Reject(r)
            \/ MeasureExhausted(r) \/ StageFails(r) \/ ReportResult(r)
            \/ InterruptRecover(r) \/ Interrupt(r) \/ Crash(r)
    <3>1. pc'[r] \in {"ended", "interrupted"}
      BY <2>1 DEF InitialBudgetFails, Exhaust, Reject, MeasureExhausted, StageFails,
         ReportResult, InterruptRecover, Interrupt, Crash
    <3>2. QED
      BY <3>1 DEF WorkAt
  <2>2. CASE \/ Check(r) \/ (\E f \in File : StageFile(r, f)) \/ StageInventory(r)
            \/ Rename(r) \/ Measure(r)
    <3>1. /\ UNCHANGED <<calls, manifest>>
          /\ pc[r] \in {"measure", "check", "stage", "rename"}
          /\ pc'[r] \in {"check", "stage", "rename", "report", "ended"}
      BY <2>2 DEF Check, StageFile, StageInventory, Rename, Measure
    <3>2. QED
      BY <3>1, <2>c DEF WorkAt
  <2>3. CASE Recover(r)
    BY <2>3, <2>c DEF Recover, WorkAt
  <2>4. CASE InitialBudget(r)
    <3>1. calls[r] = NoWork /\ pc'[r] = "episode" /\ UNCHANGED calls
      BY <2>4, <2>c DEF InitialBudget, WorkAt
    <3>2. 0 < arms /\ 0 = 0 * each
      BY <2>b
    <3>3. QED
      BY <2>d, <3>1, <3>2 DEF WorkAt, NoWork
  <2>5. CASE BeginEpisode(r)
    <3>1. calls'[r] = [c EXCEPT !.episodes = @ + 1] /\ pc'[r] = "retrieve" /\ query'[r] = 0
      BY <2>5 DEF BeginEpisode
    <3>2. c.episodes < arms /\ c.retrievals = c.episodes * each /\ c.decisions = c.episodes
      BY <2>5, <2>c DEF BeginEpisode, WorkAt
    <3>3. /\ c.episodes + 1 \in 1 .. arms
          /\ c.retrievals = ((c.episodes + 1) - 1) * each + 0
          /\ c.decisions = (c.episodes + 1) - 1 /\ 0 < each
      <4>1. (c.episodes + 1) - 1 = c.episodes /\ c.episodes * each + 0 = c.episodes * each
        BY <2>a, <2>b
      <4>2. QED
        <5>1. c.episodes + 1 \in 1 .. arms /\ 0 < each
          BY <3>2, <2>a, <2>b
        <5>2. c.retrievals = ((c.episodes + 1) - 1) * each + 0
          BY <3>2, <4>1
        <5>3. QED
          BY <3>2, <4>1, <5>1, <5>2
    <3>4. /\ calls'[r].episodes = c.episodes + 1 /\ calls'[r].retrievals = c.retrievals
          /\ calls'[r].decisions = c.decisions
      BY <3>1 DEF Work
    <3>5. QED
      BY <2>d, <3>1, <3>3, <3>4 DEF WorkAt
  <2>6. CASE Retrieve(r)
    <3>1. calls'[r] = [c EXCEPT !.retrievals = @ + 1] /\ query'[r] = query[r] + 1
      BY <2>6 DEF Retrieve
    <3>2. /\ c.episodes \in 1 .. arms /\ query[r] < each
          /\ c.retrievals = (c.episodes - 1) * each + query[r]
          /\ c.decisions = c.episodes - 1
      BY <2>6, <2>c DEF Retrieve, WorkAt
    <3>3. /\ calls'[r].episodes = c.episodes /\ calls'[r].retrievals = c.retrievals + 1
          /\ calls'[r].decisions = c.decisions
      BY <3>1 DEF Work
    <3>4. CASE query[r] + 1 < each
      <4>1. c.retrievals + 1 = (c.episodes - 1) * each + (query[r] + 1)
        BY <3>2, <2>a, <2>b
      <4>2. pc'[r] = "retrieve"
        BY <2>6, <3>4 DEF Retrieve
      <4>3. QED
        BY <2>d, <3>1, <3>2, <3>3, <3>4, <4>1, <4>2 DEF WorkAt
    <3>5. CASE ~ (query[r] + 1 < each)
      <4>1. query[r] + 1 = each
        BY <3>2, <3>5, <2>b
      <4>2. c.retrievals + 1 = c.episodes * each
        BY <3>2, <4>1, <2>a, <2>b
      <4>3. pc'[r] = "decide"
        BY <2>6, <3>5 DEF Retrieve
      <4>4. QED
        BY <2>d, <3>2, <3>3, <4>2, <4>3 DEF WorkAt
    <3>6. QED
      BY <3>4, <3>5
  <2>7. CASE Decide(r)
    <3>1. calls'[r] = [c EXCEPT !.decisions = @ + 1]
      BY <2>7 DEF Decide
    <3>2. /\ c.episodes \in 1 .. arms /\ c.retrievals = c.episodes * each
          /\ c.decisions + 1 = c.episodes
      BY <2>7, <2>a, <2>c DEF Decide, WorkAt
    <3>3. /\ calls'[r].episodes = c.episodes /\ calls'[r].retrievals = c.retrievals
          /\ calls'[r].decisions = c.decisions + 1
      BY <3>1 DEF Work
    <3>4. CASE pc'[r] = "ended"
      BY <3>4 DEF WorkAt
    <3>5. CASE pc'[r] = "episode" /\ c.episodes < arms
      BY <2>d, <3>2, <3>3, <3>5 DEF WorkAt
    <3>6. CASE pc'[r] = "measure" /\ ~ (c.episodes < arms)
      <4>1. c.episodes = arms
        BY <3>2, <3>6, <2>b
      <4>2. calls'[r] = AllWork(manifest[r])
        BY <3>1, <3>2, <3>3, <4>1 DEF AllWork, Work
      <4>3. QED
        BY <2>d, <3>6, <4>2 DEF WorkAt
    <3>7. QED
      BY <2>7, <3>4, <3>5, <3>6 DEF Decide
  <2>8. QED
    BY <1>2, <2>1, <2>2, <2>3, <2>4, <2>5, <2>6, <2>7 DEF Advance
<1>3. CASE EditScenario
  BY <1>3 DEF EditScenario, WorkInStep, WorkAt
<1>4. CASE UNCHANGED vars
  BY <1>4 DEF WorkInStep, WorkAt
<1>5. QED
  BY <1>1, <1>2, <1>3, <1>4 DEF Next, Step, Rest

\* BudgetIsHonest, about one command.
HonestAt(r) ==
    /\ used[r]["episodes"] = calls[r].episodes
    /\ used[r]["retrieval_calls"] = calls[r].retrievals
    /\ used[r]["logical_steps"] =
          calls[r].episodes + calls[r].retrievals + calls[r].decisions
    /\ manifest[r] # None => Affordable(r, used[r])

\* What one command does leaves the ledgers of the others as they were.
LEMMA OthersBudget ==
    ASSUME BudgetIsHonest, NEW r \in Run, HonestAt(r)',
           \A q \in Run \ {r} : /\ calls'[q] = calls[q] /\ used'[q] = used[q]
                               /\ manifest'[q] = manifest[q]
    PROVE  BudgetIsHonest'
BY DEF BudgetIsHonest, HonestAt, Affordable

\* Every step keeps the ledgers equal to the work done and within the limits.
LEMMA BudgetStep ==
    ASSUME TypeOK, StartedHasManifest, WorkInStep, BudgetIsHonest, [Next]_vars
    PROVE  BudgetIsHonest'
<1> USE DEF vars, perRun, disk, work, Goto, Exit, TypeOK
<1>1. ASSUME NEW r \in Run, NEW m \in Manifest, NEW a \in Approval \cup {None},
             Start(r, m, a) \/ Refuse(r, m, a)
      PROVE  BudgetIsHonest'
  <2>1. /\ pc[r] = "idle" /\ manifest' = [manifest EXCEPT ![r] = m]
        /\ UNCHANGED <<used, calls>>
    BY <1>1 DEF Start, Refuse
  <2>2. used[r] = Unspent
    BY <2>1 DEF WorkInStep, WorkAt
  <2>3. \A x \in Resource : m.limits[x] \in Nat /\ used[r][x] = 0
    BY <2>2, ManifestAssumption DEF Unspent
  <2>4. HonestAt(r)'
    BY <2>1, <2>3 DEF HonestAt, BudgetIsHonest, Affordable
  <2>5. QED
    BY <2>1, <2>4, OthersBudget
<1>2. ASSUME NEW r \in Run, Advance(r) \/ Interrupt(r) \/ Crash(r)
      PROVE  BudgetIsHonest'
  <2>a. HonestAt(r) /\ used[r] \in [Resource -> Nat] /\ calls[r] \in Work
    BY DEF HonestAt, BudgetIsHonest
  <2>b. {"episodes", "retrieval_calls", "logical_steps"} \subseteq Resource
    BY DEF Resource
  <2>1. CASE InitialBudget(r)
    <3>1. /\ Affordable(r, used'[r]) /\ UNCHANGED <<manifest, calls>>
          /\ \A q \in Run \ {r} : used'[q] = used[q]
          /\ \A x \in {"episodes", "retrieval_calls", "logical_steps"} :
                 used'[r][x] = used[r][x]
      BY <2>1, <2>b DEF InitialBudget
    <3>2. HonestAt(r)'
      BY <2>a, <3>1 DEF HonestAt, Affordable
    <3>3. QED
      BY <3>1, <3>2, OthersBudget
  <2>2. CASE BeginEpisode(r)
    <3>1. /\ Affordable(r, used'[r]) /\ UNCHANGED manifest
          /\ used'[r] = Charge(r, EpisodeCost)
          /\ calls'[r] = [calls[r] EXCEPT !.episodes = @ + 1]
          /\ \A q \in Run \ {r} : used'[q] = used[q] /\ calls'[q] = calls[q]
      BY <2>2, ChargeType DEF BeginEpisode
    <3>2. /\ used'[r]["episodes"] = used[r]["episodes"] + 1
          /\ used'[r]["retrieval_calls"] = used[r]["retrieval_calls"]
          /\ used'[r]["logical_steps"] = used[r]["logical_steps"] + 1
      BY <2>a, <2>b, <3>1 DEF Charge, EpisodeCost
    <3>3. HonestAt(r)'
      BY <2>a, <3>1, <3>2 DEF HonestAt, Affordable, Work
    <3>4. QED
      BY <3>1, <3>3, OthersBudget
  <2>3. CASE Retrieve(r)
    <3>1. /\ Affordable(r, used'[r]) /\ UNCHANGED manifest
          /\ used'[r] = Charge(r, RetrievalCost)
          /\ calls'[r] = [calls[r] EXCEPT !.retrievals = @ + 1]
          /\ \A q \in Run \ {r} : used'[q] = used[q] /\ calls'[q] = calls[q]
      BY <2>3, ChargeType DEF Retrieve
    <3>2. /\ used'[r]["episodes"] = used[r]["episodes"]
          /\ used'[r]["retrieval_calls"] = used[r]["retrieval_calls"] + 1
          /\ used'[r]["logical_steps"] = used[r]["logical_steps"] + 1
      BY <2>a, <2>b, <3>1 DEF Charge, RetrievalCost
    <3>3. HonestAt(r)'
      BY <2>a, <3>1, <3>2 DEF HonestAt, Affordable, Work
    <3>4. QED
      BY <3>1, <3>3, OthersBudget
  <2>4. CASE Decide(r)
    <3>1. /\ Affordable(r, used'[r]) /\ UNCHANGED manifest
          /\ used'[r] = Charge(r, DecisionCost)
          /\ calls'[r] = [calls[r] EXCEPT !.decisions = @ + 1]
          /\ \A q \in Run \ {r} : used'[q] = used[q] /\ calls'[q] = calls[q]
      BY <2>4, ChargeType DEF Decide
    <3>2. /\ used'[r]["episodes"] = used[r]["episodes"]
          /\ used'[r]["retrieval_calls"] = used[r]["retrieval_calls"]
          /\ used'[r]["logical_steps"] = used[r]["logical_steps"] + 1
      BY <2>a, <2>b, <3>1 DEF Charge, DecisionCost
    <3>3. HonestAt(r)'
      BY <2>a, <3>1, <3>2 DEF HonestAt, Affordable, Work
    <3>4. QED
      BY <3>1, <3>3, OthersBudget
  <2>5. CASE Measure(r)
    <3>1. PICK n \in EvidenceBytes :
              LET charged == [used[r] EXCEPT !["artifact_bytes"] = n]
              IN  Affordable(r, charged) /\ used' = [used EXCEPT ![r] = charged]
      BY <2>5 DEF Measure
    <3>2. /\ Affordable(r, used'[r]) /\ UNCHANGED <<manifest, calls>>
          /\ \A q \in Run \ {r} : used'[q] = used[q]
          /\ \A x \in {"episodes", "retrieval_calls", "logical_steps"} :
                 used'[r][x] = used[r][x]
      BY <2>5, <2>b, <3>1 DEF Measure
    <3>3. HonestAt(r)'
      BY <2>a, <3>2 DEF HonestAt, Affordable
    <3>4. QED
      BY <3>2, <3>3, OthersBudget
  <2>6. CASE \/ Recover(r) \/ InitialBudgetFails(r) \/ Exhaust(r) \/ Reject(r)
            \/ MeasureExhausted(r) \/ Check(r) \/ Rename(r)
            \/ (\E f \in File : StageFile(r, f)) \/ StageInventory(r)
            \/ StageFails(r) \/ ReportResult(r) \/ InterruptRecover(r)
            \/ Interrupt(r) \/ Crash(r)
    <3>1. UNCHANGED <<manifest, used, calls>>
      BY <2>6 DEF Recover, InitialBudgetFails, Exhaust, Reject, MeasureExhausted, Check,
         Rename, StageFile, StageInventory, StageFails, ReportResult, InterruptRecover,
         Interrupt, Crash
    <3>2. QED
      BY <3>1 DEF BudgetIsHonest, Affordable
  <2>7. QED
    BY <1>2, <2>1, <2>2, <2>3, <2>4, <2>5, <2>6 DEF Advance
<1>3. CASE EditScenario
  BY <1>3 DEF EditScenario, BudgetIsHonest, Affordable
<1>4. CASE UNCHANGED vars
  BY <1>4 DEF BudgetIsHonest, Affordable
<1>5. QED
  BY <1>1, <1>2, <1>3, <1>4 DEF Next, Step, Rest

\* Every step keeps the evidence that of all the work of its author.
LEMMA EvidenceStep ==
    ASSUME TypeOK, ControlInv, WorkInStep, AuthorIsDone, EvidenceIsOfAllArms, [Next]_vars
    PROVE  EvidenceIsOfAllArms'
<1> USE NoneAssumption DEF vars, perRun, disk, work, Goto, Exit, TypeOK,
        EvidenceIsOfAllArms, AuthorIsDone
<1>a. final # None => final.by \in Run
  BY DEF Bundles
<1> USE <1>a
<1>1. ASSUME NEW r \in Run, Rename(r)
      PROVE  EvidenceIsOfAllArms'
  <2>1. CASE final = None
    <3>1. final' = [by |-> r, manifest |-> manifest[r], files |-> staged[r]]
      BY <1>1, <2>1 DEF Rename
    <3>2. calls'[r] = AllWork(manifest[r])
      BY <1>1 DEF Rename, WorkInStep, WorkAt
    <3>3. QED
      BY <3>1, <3>2
  <2>2. CASE final # None
    BY <1>1, <2>2 DEF Rename
  <2>3. QED
    BY <2>1, <2>2
<1>2. ASSUME NEW r \in Run, BeginEpisode(r) \/ Retrieve(r) \/ Decide(r)
      PROVE  EvidenceIsOfAllArms'
  <2>1. /\ pc[r] \in {"episode", "retrieve", "decide"}
        /\ UNCHANGED final /\ \A q \in Run \ {r} : calls'[q] = calls[q]
    BY <1>2 DEF BeginEpisode, Retrieve, Decide
  <2>2. QED
    BY <2>1
<1>3. ASSUME NEW r \in Run,
             \/ Recover(r) \/ InitialBudget(r) \/ InitialBudgetFails(r) \/ Exhaust(r)
             \/ Reject(r) \/ Measure(r) \/ MeasureExhausted(r) \/ Check(r)
             \/ (\E f \in File : StageFile(r, f)) \/ StageInventory(r)
             \/ StageFails(r) \/ ReportResult(r) \/ InterruptRecover(r)
             \/ Interrupt(r) \/ Crash(r)
      PROVE  EvidenceIsOfAllArms'
  BY <1>3 DEF Recover, InitialBudget, InitialBudgetFails, Exhaust, Reject, Measure,
     MeasureExhausted, Check, StageFile, StageInventory, StageFails, ReportResult,
     InterruptRecover, Interrupt, Crash
<1>4. ASSUME NEW r \in Run, NEW m \in Manifest, NEW a \in Approval \cup {None},
             Start(r, m, a) \/ Refuse(r, m, a)
      PROVE  EvidenceIsOfAllArms'
  BY <1>4 DEF Start, Refuse
<1>5. CASE EditScenario \/ UNCHANGED vars
  BY <1>5 DEF EditScenario
<1>6. QED
  BY <1>1, <1>2, <1>3, <1>4, <1>5 DEF Next, Step, Rest, Advance

\* An admitted command has an episode or a retrieval left whenever it needs one.
LEMMA AdmittedFits ==
    ASSUME TypeOK, StartedHasManifest, AdmittedUnderWay, WorkInStep, BudgetIsHonest
    PROVE  AdmittedWorkFits
<1> SUFFICES ASSUME NEW r \in Run
             PROVE  /\ pc[r] = "episode" =>
                         used[r]["episodes"] < manifest[r].limits["episodes"]
                    /\ pc[r] = "retrieve" =>
                         used[r]["retrieval_calls"] < manifest[r].limits["retrieval_calls"]
  BY DEF AdmittedWorkFits
<1> DEFINE m == manifest[r]
           c == calls[r]
<1>1. /\ used[r]["episodes"] = c.episodes /\ used[r]["retrieval_calls"] = c.retrievals
      /\ c.episodes \in Nat /\ c.retrievals \in Nat
  BY DEF TypeOK, BudgetIsHonest, Work
<1>2. ASSUME pc[r] \in {"episode", "retrieve"}
      PROVE  /\ Arms(m) <= m.limits["episodes"]
             /\ Arms(m) * Retrievals(m) <= m.limits["retrieval_calls"]
             /\ m.limits["episodes"] \in Nat /\ m.limits["retrieval_calls"] \in Nat
  <2>1. m \in Manifest
    BY <1>2 DEF TypeOK, StartedHasManifest
  <2>2. QED
    BY <1>2, <2>1, ManifestAssumption DEF AdmittedUnderWay, AllWork, Resource
<1>3. CASE pc[r] = "episode"
  BY <1>1, <1>2, <1>3, ArmsType DEF WorkInStep, WorkAt
<1>4. CASE pc[r] = "retrieve"
  <2>1. c.retrievals < c.episodes * Retrievals(m) /\ c.episodes \in 1 .. Arms(m)
    BY <1>1, <1>4, ArmsType DEF WorkInStep, WorkAt, TypeOK
  <2>2. c.episodes * Retrievals(m) <= Arms(m) * Retrievals(m)
    BY <2>1, ArmsType
  <2>3. QED
    BY <1>1, <1>2, <1>4, <2>1, <2>2, ArmsType
<1>5. QED
  BY <1>3, <1>4

\* The inductive invariant holds initially.
LEMMA InitIInv == Init => IInv
<1> USE NoneAssumption DEF Init
<1>1. Init => TypeOK
  BY DEF TypeOK, Labels, Exits, Unspent, NoWork, Work
<1>2. Init => ControlInv /\ AdmittedUnderWay /\ WorkInStep
  BY DEF ControlInv, StartedHasManifest, ExitWhenEnded, AdmittedUnderWay,
     WorkInStep, WorkAt
<1>3. Init => StagingInv /\ AuthorInv
  BY DEF StagingInv, RenameIsWhole, NeverPartial, StagingIsTemporary, AuthorInv,
     AuthorIsDone, SuccessMatchesEvidence, InterruptedBeforeFinalization,
     FailureLeavesNoEvidence
<1>4. Init => BudgetIsHonest /\ EvidenceIsOfAllArms /\ AdmittedWorkFits
  BY DEF BudgetIsHonest, EvidenceIsOfAllArms, AdmittedWorkFits, Unspent, NoWork, Resource
<1>5. QED
  BY <1>1, <1>2, <1>3, <1>4 DEF IInv, ControlInv, StagingInv, AuthorInv

\* Every step preserves the inductive invariant.
LEMMA StepIInv == IInv /\ [Next]_vars => IInv'
<1> SUFFICES ASSUME IInv, [Next]_vars
             PROVE  IInv'
  OBVIOUS
<1>1. TypeOK' /\ ControlInv' /\ StagingInv' /\ AuthorInv'
  BY TypeStep, ControlStep, StagingStep, AuthorStep
     DEF IInv, ControlInv, StagingInv, AuthorInv
<1>2. AdmittedUnderWay' /\ WorkInStep' /\ BudgetIsHonest' /\ EvidenceIsOfAllArms'
  BY AdmittedStep, WorkStep, BudgetStep, EvidenceStep DEF IInv, ControlInv
<1>3. (TypeOK /\ StartedHasManifest /\ AdmittedUnderWay /\ WorkInStep /\ BudgetIsHonest
         => AdmittedWorkFits)'
  BY AdmittedFits, PTL
<1>4. AdmittedWorkFits'
  BY <1>1, <1>2, <1>3 DEF ControlInv
<1>5. QED
  BY <1>1, <1>2, <1>4 DEF IInv, ControlInv, StagingInv, AuthorInv

\* The inductive invariant holds in every reachable state.
LEMMA Invariance == Spec => []IInv
BY InitIInv, StepIInv, PTL DEF Spec

\* The state of commands and bundle keeps its type.
THEOREM TypeCorrect == Spec => []TypeOK
<1>1. IInv => TypeOK
  BY DEF IInv
<1>2. QED
  BY Invariance, <1>1, PTL

\* No reader of the final path ever sees part of a bundle or a bundle of part of the
\* arms, whatever commands fail, are interrupted or die, and however many write at
\* once; only a process that died leaves staged files behind.
THEOREM WholenessCorrect == Spec => []EvidenceIsWhole
<1>1. IInv => EvidenceIsWhole
  BY DEF IInv, EvidenceIsWhole
<1>2. QED
  BY Invariance, <1>1, PTL

\* A command reports success only about evidence for its own manifest and claims as
\* new only what it wrote itself; the author of the bundle reports no failure, and
\* no interruption unless the scenario was changed under it.
THEOREM ExitCorrect == Spec => []ExitTellsTheTruth
<1>1. IInv => ExitTellsTheTruth
  BY DEF IInv, ExitTellsTheTruth
<1>2. QED
  BY Invariance, <1>1, PTL

\* The ledger counts exactly the work done, and never more than is approved,
\* for any limits a manifest may set.
THEOREM BudgetCorrect == Spec => []BudgetIsHonest
<1>1. IInv => BudgetIsHonest
  BY DEF IInv
<1>2. QED
  BY Invariance, <1>1, PTL

\* What the run contract admits never runs out of episodes or retrievals, whatever
\* scenarios, limits and approvals there are.
THEOREM AdmissionCorrect == Spec => []AdmittedWorkFits
<1>1. IInv => AdmittedWorkFits
  BY DEF IInv
<1>2. QED
  BY Invariance, <1>1, PTL

\* The commands that reported success.
Reported(r) == exit[r] \in {"ok", "reused"}

\* What the commands reported, as the store sees it.
Reports == [r \in Run |-> IF Reported(r) THEN manifest[r] ELSE None]

\* A command reports success.
Succeeds(r) ==
    \/ ReportResult(r)
    \/ (Recover(r) \/ InterruptRecover(r)) /\ exit'[r] = "reused"

\* A step of the run is a step of the store or a stutter.
LEMMA RefinesStep ==
    ASSUME TypeOK, ControlInv, AuthorIsDone, NeverPartial, [Next]_vars
    PROVE  [Store!StoreNext]_(Store!storeVars)
<1> USE NoneAssumption DEF Store!storeVars, vars, perRun, disk, work, Goto, Exit,
        ControlInv, ExitWhenEnded, Reports
<1>1. ASSUME NEW r \in Run, NEW m \in Manifest, NEW a \in Approval \cup {None},
             Start(r, m, a) \/ Refuse(r, m, a)
      PROVE  UNCHANGED Store!storeVars
  <2>1. exit[r] = "none" /\ exit'[r] \notin {"ok", "reused"}
    BY <1>1, AdmissionType DEF Start, Refuse, TypeOK
  <2>2. /\ UNCHANGED final
        /\ \A q \in Run \ {r} : exit'[q] = exit[q] /\ manifest'[q] = manifest[q]
    BY <1>1 DEF Start, Refuse, TypeOK
  <2>3. QED
    BY <2>1, <2>2
<1>2. ASSUME NEW r \in Run, Rename(r)
      PROVE  [Store!StoreNext]_(Store!storeVars)
  <2>1. \A q \in Run : ~ Reported(r) /\ (Reported(q)' <=> Reported(q))
    BY <1>2 DEF Rename, TypeOK, Reported
  <2>2. UNCHANGED manifest
    BY <1>2 DEF Rename
  <2>3. CASE final = None
    <3>1. manifest[r] \in Manifest
      BY <1>2 DEF Rename, TypeOK, StartedHasManifest
    <3>2. final' # None /\ final'.manifest = manifest[r]
      <4>1. final' = [by |-> r, manifest |-> manifest[r], files |-> staged[r]]
        BY <1>2, <2>3 DEF Rename
      <4>2. final' \in Bundles
        BY <3>1, <4>1 DEF Bundles, TypeOK
      <4>3. QED
        BY <4>1, <4>2
    <3>3. Reports' = Reports
      BY <2>1, <2>2 DEF Reported
    <3>4. Store!Finalize(manifest[r])
      BY <2>3, <3>2, <3>3 DEF Store!Finalize, Reported
    <3>5. QED
      BY <3>1, <3>4 DEF Store!StoreNext
  <2>4. CASE final # None
    BY <1>2, <2>1, <2>2, <2>4 DEF Rename, Reported
  <2>5. QED
    BY <2>3, <2>4
<1>3. ASSUME NEW r \in Run, Succeeds(r)
      PROVE  [Store!StoreNext]_(Store!storeVars)
  <2>1. /\ final # None /\ final.manifest = manifest[r]
        /\ UNCHANGED <<final, manifest>>
    <3>1. CASE ReportResult(r)
      BY <3>1 DEF ReportResult, AuthorIsDone
    <3>2. CASE (Recover(r) \/ InterruptRecover(r)) /\ exit'[r] = "reused"
      <4>1. exit[r] = "none"
        BY <3>2 DEF Recover, InterruptRecover
      <4>2. QED
        BY <3>2, <4>1 DEF Recover, InterruptRecover, Recoverable, TypeOK
    <3>3. QED
      BY <1>3, <3>1, <3>2 DEF Succeeds
  <2>2. ~ Reported(r) /\ Reported(r)'
    BY <1>3 DEF Succeeds, Recover, ReportResult, InterruptRecover, TypeOK, Reported
  <2>3. \A q \in Run \ {r} : Reported(q)' <=> Reported(q)
    BY <1>3 DEF Succeeds, Recover, ReportResult, InterruptRecover, TypeOK, Reported
  <2>4. Reports' = [Reports EXCEPT ![r] = manifest[r]]
    BY <2>1, <2>2, <2>3 DEF Reported
  <2>5. Reports[r] = None
    BY <2>2 DEF Reported
  <2>6. manifest[r] # None
    BY <1>3 DEF Succeeds, Recover, ReportResult, InterruptRecover, StartedHasManifest
  <2>7. Store!Report(r)
    BY <2>1, <2>4, <2>5, <2>6 DEF Store!Report, Reported
  <2>8. QED
    BY <2>7 DEF Store!StoreNext
<1>4. ASSUME NEW r \in Run, Advance(r) \/ Interrupt(r) \/ Crash(r),
             ~ Rename(r), ~ Succeeds(r)
      PROVE  UNCHANGED Store!storeVars
  <2>1. UNCHANGED <<final, manifest>>
    BY <1>4 DEF Advance, Recover, InitialBudget, InitialBudgetFails, Exhaust, Reject, Measure, MeasureExhausted, Check,
       BeginEpisode, Retrieve, Decide, StageFile, StageInventory, StageFails,
       ReportResult, InterruptRecover, Interrupt, Crash
  <2>2. \A q \in Run : Reported(q)' <=> Reported(q)
    <3> USE DEF Succeeds, TypeOK, Reported
    <3>1. CASE Recover(r) \/ ReportResult(r) \/ InterruptRecover(r)
      BY <1>4, <3>1 DEF Recover, ReportResult, InterruptRecover
    <3>2. CASE \/ InitialBudget(r) \/ InitialBudgetFails(r) \/ Exhaust(r) \/ Reject(r)
              \/ Measure(r) \/ MeasureExhausted(r) \/ Check(r) \/ BeginEpisode(r)
              \/ Retrieve(r) \/ Decide(r)
      BY <3>2 DEF InitialBudget, InitialBudgetFails, Exhaust, Reject, Measure, MeasureExhausted, Check, BeginEpisode,
         Retrieve, Decide
    <3>3. CASE (\E f \in File : StageFile(r, f)) \/ StageInventory(r)
              \/ StageFails(r) \/ Interrupt(r) \/ Crash(r)
      BY <3>3 DEF StageFile, StageInventory, StageFails, Interrupt, Crash
    <3>4. QED
      BY <1>4, <3>1, <3>2, <3>3 DEF Advance
  <2>3. QED
    BY <2>1, <2>2 DEF Reported
<1>5. CASE EditScenario \/ UNCHANGED vars
  BY <1>5 DEF EditScenario
<1>6. QED
  BY <1>1, <1>2, <1>3, <1>4, <1>5 DEF Next, Step, Rest

\* The run implements the write-once evidence store: evidence appears once,
\* whole, and every success reports the evidence that is there.
THEOREM EvidenceCorrect == Spec => StoreSpec
<1>1. Init => Store!StoreInit
  BY DEF Init, Store!StoreInit
<1>2. IInv /\ [Next]_vars => [Store!StoreNext]_(Store!storeVars)
  BY RefinesStep DEF IInv, ControlInv
<1>3. QED
  BY <1>1, <1>2, Invariance, PTL DEF Spec, StoreSpec, Store!StoreSpec
=============================================================================
