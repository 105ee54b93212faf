---------------------- MODULE CampaignWorkspace_proofs ----------------------
(***************************************************************************)
(* Proofs about CampaignWorkspace, for any finite or infinite set of       *)
(* commands and any number of worlds and conditions.  The lemmas follow    *)
(* the conjuncts of the inductive invariant IInv; in each, the steps that  *)
(* cannot disturb the conjunct share a leaf and the others have their own. *)
(***************************************************************************)
EXTENDS CampaignWorkspace, TLAPS

\* Counting a late operation keeps the types of the traffic variables.
LEMMA ContactType ==
    ASSUME TypeOK, NEW p \in Process, Contact(p)
    PROVE  /\ contacted' \in [Process -> BOOLEAN]
           /\ late' \in [Process -> Nat]
BY DEF TypeOK, Contact

\* An execute in a world names a knowledge base of the campaign.
LEMMA CurrentType ==
    ASSUME TypeOK, WorldInRange, NEW p \in Process, pc[p] \in InWorldLabels
    PROVE  Current(p) \in KnowledgeBases
<1>1. world[p] \in 0 .. NumWorlds - 1
  BY NumWorldsAssumption DEF TypeOK, WorldInRange
<1>2. cond[p] \in 0 .. NumConditions - 1
  BY DEF TypeOK
<1>3. QED
  BY <1>1, <1>2 DEF Current, KnowledgeBases

\* Every step keeps the types.
LEMMA TypeStep ==
    ASSUME TypeOK, WorldInRange, [Next]_vars
    PROVE  TypeOK'
<1> USE NumConditionsAssumption DEF vars, local, files, args, position,
        traffic, Goto, Exit, Raise, TypeOK, Labels, InWorldLabels, Exceptions,
        Exits
<1>1. ASSUME NEW p \in Process, NEW c \in Commands, Start(p, c)
      PROVE  TypeOK'
  <2>1. attempt' \in [Process -> 0 .. 3]
    <3>1. 1 .. MaxAttempts \subseteq 0 .. 3
      BY DEF MaxAttempts
    <3>2. CASE c = "preflight"
      BY <1>1, <3>1, <3>2 DEF Start
    <3>3. CASE c # "preflight"
      BY <1>1, <3>3 DEF Start
    <3>4. QED
      BY <3>2, <3>3
  <2>2. Entry[c] \in Labels
    BY <1>1 DEF Commands, Entry
  <2>3. met' \in [Process -> SUBSET Process]
    <3> DEFINE M(q) == CASE q = p          -> UnderWay
                         [] q \in UnderWay -> met[q] \cup {p}
                         [] OTHER          -> met[q]
    <3>1. ASSUME NEW q \in Process
          PROVE  M(q) \in SUBSET Process
      BY DEF UnderWay
    <3>2. met' = [q \in Process |-> M(q)]
      BY <1>1 DEF Start
    <3>3. QED
      BY <3>1, <3>2
  <2>4. QED
    BY <1>1, <2>1, <2>2, <2>3 DEF Start, Commands
<1>2. ASSUME NEW p \in Process, NEW c \in Commands, Refuse(p, c)
      PROVE  TypeOK'
  BY <1>2 DEF Refuse, Commands
<1>3. ASSUME NEW p \in Process, Advance(p) \/ Crash(p)
      PROVE  TypeOK'
  <2>1. CASE \/ PrepareCheck(p) \/ CancelCheck(p) \/ CancelWrite(p)
            \/ ProbeUnauthorized(p)
    BY <2>1 DEF PrepareCheck, CancelCheck, CancelWrite, ProbeUnauthorized
  <2>2. CASE \/ RetainCheck(p) \/ Admit(p) \/ AdmitInvalid(p)
    BY <2>2 DEF RetainCheck, Admit, AdmitInvalid
  <2>3. CASE \/ Poll(p) \/ MismatchedOracle(p)
    BY <2>3 DEF Poll, MismatchedOracle
  <2>4. CASE \/ Probe(p) \/ ProbeUncaught(p) \/ Work(p)
    BY <2>4, ContactType DEF Probe, ProbeUncaught, Work
  <2>5. CASE PrepareWrite(p)
    <3>1. checkpoint' \in Checkpoints
      BY <2>5, NumWorldsAssumption DEF PrepareWrite, Checkpoints
    <3>2. QED
      BY <2>5, <3>1 DEF PrepareWrite
  <2>6. CASE RetainWrite(p)
    BY <2>6 DEF RetainWrite, Preflights
  <2>7. CASE MarkRunning(p)
    BY <2>7 DEF MarkRunning, Checkpoints
  <2>8. CASE CreateKB(p)
    <3>1. Current(p) \in KnowledgeBases
      BY <2>8, CurrentType DEF CreateKB
    <3>2. QED
      BY <2>8, <3>1, ContactType DEF CreateKB
  <2>9. CASE CreateFails(p)
    <3>1. Current(p) \in KnowledgeBases
      BY <2>9, CurrentType DEF CreateFails
    <3>2. QED
      BY <2>9, <3>1, ContactType DEF CreateFails
  <2>10. CASE DeleteKB(p)
    <3>1. CASE exc[p] = "none"
      <4>1. world[p] + 1 \in 0 .. NumWorlds
        BY <2>10, NumWorldsAssumption DEF DeleteKB, WorldInRange
      <4>2. QED
        BY <2>10, <3>1, <4>1, ContactType DEF DeleteKB, NextCondition
    <3>2. CASE exc[p] # "none"
      BY <2>10, <3>2, ContactType DEF DeleteKB
    <3>3. QED
      BY <3>1, <3>2
  <2>11. CASE DeleteFails(p)
    BY <2>11, ContactType DEF DeleteFails
  <2>12. CASE MarkCompleted(p)
    <3>1. checkpoint' \in Checkpoints
      BY <2>12, NumWorldsAssumption DEF MarkCompleted, Checkpoints
    <3>2. QED
      BY <2>12, <3>1 DEF MarkCompleted
  <2>13. CASE DeviateWrite(p)
    BY <2>13 DEF DeviateWrite, Deviations, ExitCode
  <2>14. CASE \/ BundleCheck(p) \/ Publish(p) \/ DeviateCheck(p)
            \/ WriteFails(p) \/ WriteDenied(p) \/ Crash(p)
    BY <2>14 DEF BundleCheck, Publish, DeviateCheck, WriteFails,
       WriteDenied, Crash
  <2>15. QED
    BY <1>3, <2>1, <2>2, <2>3, <2>4, <2>5, <2>6, <2>7, <2>8, <2>9, <2>10,
       <2>11, <2>12, <2>13, <2>14 DEF Advance
<1>4. CASE Expire
  BY <1>4 DEF Expire
<1>5. CASE UNCHANGED vars
  BY <1>5
<1>6. QED
  BY <1>1, <1>2, <1>3, <1>4, <1>5 DEF Next, Step, Rest

\* The conjuncts of IInv, by what they are about.
ControlInv == WorldInRange /\ LabelOfCommand /\ ExitWhenEnded
FinalInv   == /\ PublisherFinalizing /\ DeviatorEnded
              /\ CompletedMeansPublished /\ SuccessMeansPublished
LateInv    == LateWorkAccount /\ LateWorkIsBounded

\* Every step keeps a process within its command and within the worlds.
LEMMA ControlStep ==
    ASSUME TypeOK, ControlInv, [Next]_vars
    PROVE  ControlInv'
<1> USE DEF vars, local, files, args, position, traffic, Goto, Exit, Raise,
        TypeOK, ControlInv, WorldInRange, LabelOfCommand, ExitWhenEnded,
        InWorldLabels
<1>1. ASSUME NEW p \in Process, NEW c \in Commands, Start(p, c)
      PROVE  ControlInv'
  BY <1>1 DEF Start, Commands, Entry
<1>2. ASSUME NEW p \in Process, NEW c \in Commands, Refuse(p, c)
      PROVE  ControlInv'
  BY <1>2 DEF Refuse, Commands
<1>3. ASSUME NEW p \in Process, Advance(p) \/ Crash(p)
      PROVE  ControlInv'
  <2>1. CASE \/ PrepareCheck(p) \/ PrepareWrite(p) \/ CancelCheck(p)
            \/ CancelWrite(p) \/ Probe(p) \/ ProbeUncaught(p)
            \/ ProbeUnauthorized(p) \/ RetainCheck(p) \/ RetainWrite(p)
    BY <2>1 DEF PrepareCheck, PrepareWrite, CancelCheck, CancelWrite,
       Probe, ProbeUncaught, ProbeUnauthorized, RetainCheck, RetainWrite
  <2>2. CASE \/ Admit(p) \/ AdmitInvalid(p) \/ Poll(p) \/ MarkRunning(p)
            \/ MismatchedOracle(p) \/ CreateKB(p) \/ CreateFails(p)
            \/ Work(p)
    BY <2>2 DEF Admit, AdmitInvalid, Poll, MarkRunning, MismatchedOracle,
       CreateKB, CreateFails, Work
  <2>3. CASE DeleteKB(p)
    <3>1. CASE exc[p] = "none" /\ cond[p] + 1 < NumConditions
      BY <2>3, <3>1 DEF DeleteKB, NextCondition
    <3>2. CASE exc[p] = "none" /\ ~ (cond[p] + 1 < NumConditions)
      BY <2>3, <3>2 DEF DeleteKB, NextCondition
    <3>3. CASE exc[p] # "none"
      BY <2>3, <3>3 DEF DeleteKB
    <3>4. QED
      BY <3>1, <3>2, <3>3
  <2>4. CASE \/ DeleteFails(p) \/ BundleCheck(p) \/ Publish(p)
            \/ MarkCompleted(p) \/ DeviateCheck(p) \/ DeviateWrite(p)
    BY <2>4 DEF DeleteFails, BundleCheck, Publish, MarkCompleted,
       DeviateCheck, DeviateWrite
  <2>5. CASE \/ WriteFails(p) \/ WriteDenied(p) \/ Crash(p)
    BY <2>5 DEF WriteFails, WriteDenied, Crash
  <2>6. QED
    BY <1>3, <2>1, <2>2, <2>3, <2>4, <2>5 DEF Advance
<1>4. CASE Expire
  BY <1>4 DEF Expire
<1>5. CASE UNCHANGED vars
  BY <1>5
<1>6. QED
  BY <1>1, <1>2, <1>3, <1>4, <1>5 DEF Next, Step, Rest

\* The publisher, the author of the deviation and the author of COMPLETED agree.
\* This is where the check-then-rename races of finalization are settled.
LEMMA FinalStep ==
    ASSUME TypeOK, LabelOfCommand, ExitWhenEnded, FinalInv, [Next]_vars
    PROVE  FinalInv'
<1> USE NoneAssumption DEF vars, local, files, args, position, traffic, Goto,
        Exit, Raise, TypeOK, LabelOfCommand, InWorldLabels, ExitWhenEnded,
        FinalInv, PublisherFinalizing, DeviatorEnded, CompletedMeansPublished,
        SuccessMeansPublished, Checkpoints, Deviations
<1>1. ASSUME NEW p \in Process, NEW c \in Commands, Start(p, c)
      PROVE  FinalInv'
  BY <1>1 DEF Start, Commands, Entry
<1>2. ASSUME NEW p \in Process, NEW c \in Commands, Refuse(p, c)
      PROVE  FinalInv'
  BY <1>2 DEF Refuse, Commands
<1>3. ASSUME NEW p \in Process, Advance(p) \/ Crash(p)
      PROVE  FinalInv'
  <2>1. CASE \/ PrepareCheck(p) \/ PrepareWrite(p) \/ CancelCheck(p)
            \/ CancelWrite(p) \/ Probe(p) \/ ProbeUncaught(p)
            \/ ProbeUnauthorized(p) \/ RetainCheck(p) \/ RetainWrite(p)
    BY <2>1 DEF PrepareCheck, PrepareWrite, CancelCheck, CancelWrite,
       Probe, ProbeUncaught, ProbeUnauthorized, RetainCheck, RetainWrite
  <2>2. CASE \/ Admit(p) \/ AdmitInvalid(p) \/ Poll(p) \/ MarkRunning(p)
            \/ MismatchedOracle(p) \/ CreateKB(p) \/ CreateFails(p)
            \/ Work(p)
    BY <2>2 DEF Admit, AdmitInvalid, Poll, MarkRunning, MismatchedOracle,
       CreateKB, CreateFails, Work
  <2>3. CASE DeleteKB(p)
    BY <2>3 DEF DeleteKB, NextCondition
  <2>4. CASE \/ DeleteFails(p) \/ BundleCheck(p)
    BY <2>4 DEF DeleteFails, BundleCheck
  <2>5. CASE Publish(p)
    BY <2>5 DEF Publish
  <2>6. CASE MarkCompleted(p)
    BY <2>6 DEF MarkCompleted
  <2>7. CASE DeviateCheck(p)
    BY <2>7 DEF DeviateCheck
  <2>8. CASE DeviateWrite(p)
    BY <2>8 DEF DeviateWrite, ExitCode
  <2>9. CASE \/ WriteFails(p) \/ WriteDenied(p) \/ Crash(p)
    BY <2>9 DEF WriteFails, WriteDenied, Crash
  <2>10. QED
    BY <1>3, <2>1, <2>2, <2>3, <2>4, <2>5, <2>6, <2>7, <2>8, <2>9 DEF
       Advance
<1>4. CASE Expire
  BY <1>4 DEF Expire
<1>5. CASE UNCHANGED vars
  BY <1>5
<1>6. QED
  BY <1>1, <1>2, <1>3, <1>4, <1>5 DEF Next, Step, Rest

\* No step strands a knowledge base of a run that can still publish.
LEMMA KBStep ==
    ASSUME TypeOK, PublisherFinalizing, NoStrayKnowledgeBase, [Next]_vars
    PROVE  NoStrayKnowledgeBase'
<1> USE NoneAssumption DEF vars, local, files, args, position, traffic, Goto,
        Exit, Raise, TypeOK, NoStrayKnowledgeBase, PublisherFinalizing,
        KnowledgeBases, Current
<1>1. ASSUME NEW p \in Process, NEW c \in Commands, Start(p, c)
      PROVE  NoStrayKnowledgeBase'
  BY <1>1 DEF Start, Commands, Entry
<1>2. ASSUME NEW p \in Process, NEW c \in Commands, Refuse(p, c)
      PROVE  NoStrayKnowledgeBase'
  BY <1>2 DEF Refuse, Commands
<1>3. ASSUME NEW p \in Process, Advance(p) \/ Crash(p)
      PROVE  NoStrayKnowledgeBase'
  <2>1. CASE \/ PrepareCheck(p) \/ PrepareWrite(p) \/ CancelCheck(p)
            \/ CancelWrite(p) \/ Probe(p) \/ ProbeUncaught(p)
            \/ ProbeUnauthorized(p) \/ RetainCheck(p) \/ RetainWrite(p)
    BY <2>1 DEF PrepareCheck, PrepareWrite, CancelCheck, CancelWrite,
       Probe, ProbeUncaught, ProbeUnauthorized, RetainCheck, RetainWrite
  <2>2. CASE \/ Admit(p) \/ AdmitInvalid(p) \/ Poll(p) \/ MarkRunning(p)
            \/ MismatchedOracle(p) \/ CreateKB(p) \/ CreateFails(p)
            \/ Work(p)
    BY <2>2 DEF Admit, AdmitInvalid, Poll, MarkRunning, MismatchedOracle,
       CreateKB, CreateFails, Work
  <2>3. CASE DeleteKB(p)
    BY <2>3 DEF DeleteKB, NextCondition
  <2>4. CASE \/ DeleteFails(p) \/ BundleCheck(p)
    BY <2>4 DEF DeleteFails, BundleCheck
  <2>5. CASE Publish(p)
    BY <2>5 DEF Publish
  <2>6. CASE \/ MarkCompleted(p) \/ DeviateCheck(p) \/ DeviateWrite(p)
            \/ WriteFails(p) \/ WriteDenied(p) \/ Crash(p)
    BY <2>6 DEF MarkCompleted, DeviateCheck, DeviateWrite, WriteFails,
       WriteDenied, Crash
  <2>7. QED
    BY <1>3, <2>1, <2>2, <2>3, <2>4, <2>5, <2>6 DEF Advance
<1>4. CASE Expire
  BY <1>4 DEF Expire
<1>5. CASE UNCHANGED vars
  BY <1>5
<1>6. QED
  BY <1>1, <1>2, <1>3, <1>4, <1>5 DEF Next, Step, Rest

\* No step begins more late operations than the current world accounts for.
LEMMA LateStep ==
    ASSUME TypeOK, LabelOfCommand, LateInv, [Next]_vars
    PROVE  LateInv'
<1> USE NumConditionsAssumption DEF vars, local, files, args, position,
        traffic, Goto, Exit, Raise, TypeOK, LabelOfCommand, InWorldLabels,
        LateInv, LateWorkAccount, LateWorkIsBounded, Contact
<1>1. ASSUME NEW p \in Process, NEW c \in Commands, Start(p, c)
      PROVE  LateInv'
  BY <1>1 DEF Start, Commands, Entry
<1>2. ASSUME NEW p \in Process, NEW c \in Commands, Refuse(p, c)
      PROVE  LateInv'
  BY <1>2 DEF Refuse, Commands
<1>3. ASSUME NEW p \in Process, Advance(p) \/ Crash(p)
      PROVE  LateInv'
  <2>1. CASE \/ PrepareCheck(p) \/ PrepareWrite(p) \/ CancelCheck(p)
            \/ CancelWrite(p) \/ Probe(p) \/ ProbeUncaught(p)
            \/ ProbeUnauthorized(p) \/ RetainCheck(p) \/ RetainWrite(p)
    BY <2>1 DEF PrepareCheck, PrepareWrite, CancelCheck, CancelWrite,
       Probe, ProbeUncaught, ProbeUnauthorized, RetainCheck, RetainWrite
  <2>2. CASE \/ Admit(p) \/ AdmitInvalid(p) \/ Poll(p) \/ MarkRunning(p)
            \/ MismatchedOracle(p)
    BY <2>2 DEF Admit, AdmitInvalid, Poll, MarkRunning, MismatchedOracle
  <2>3. CASE CreateKB(p)
    BY <2>3 DEF CreateKB
  <2>4. CASE CreateFails(p)
    BY <2>4 DEF CreateFails
  <2>5. CASE Work(p)
    BY <2>5 DEF Work
  <2>6. CASE DeleteKB(p)
    <3>1. CASE exc[p] = "none" /\ cond[p] + 1 < NumConditions
      BY <2>6, <3>1 DEF DeleteKB, NextCondition
    <3>2. CASE exc[p] = "none" /\ ~ (cond[p] + 1 < NumConditions)
      BY <2>6, <3>2 DEF DeleteKB, NextCondition
    <3>3. CASE exc[p] # "none"
      BY <2>6, <3>3 DEF DeleteKB
    <3>4. QED
      BY <3>1, <3>2, <3>3
  <2>7. CASE DeleteFails(p)
    BY <2>7 DEF DeleteFails
  <2>8. CASE \/ BundleCheck(p) \/ Publish(p) \/ MarkCompleted(p)
            \/ DeviateCheck(p) \/ DeviateWrite(p) \/ WriteFails(p)
            \/ WriteDenied(p) \/ Crash(p)
    BY <2>8 DEF BundleCheck, Publish, MarkCompleted, DeviateCheck,
       DeviateWrite, WriteFails, WriteDenied, Crash
  <2>9. QED
    BY <1>3, <2>1, <2>2, <2>3, <2>4, <2>5, <2>6, <2>7, <2>8 DEF Advance
<1>4. CASE Expire
  BY <1>4 DEF Expire
<1>5. CASE UNCHANGED vars
  BY <1>5
<1>6. QED
  BY <1>1, <1>2, <1>3, <1>4, <1>5 DEF Next, Step, Rest

\* The inductive invariant holds initially.
LEMMA InitIInv == Init => IInv
<1> USE NoneAssumption, NumWorldsAssumption, NumConditionsAssumption
<1>1. Init => TypeOK
  <2>1. 0 \in 0 .. 3 /\ 0 \in 0 .. NumWorlds /\ 0 \in 0 .. NumConditions - 1
    OBVIOUS
  <2>2. Init => /\ attempt \in [Process -> 0 .. 3]
                /\ world \in [Process -> 0 .. NumWorlds]
                /\ cond \in [Process -> 0 .. NumConditions - 1]
                /\ late \in [Process -> Nat]
    BY <2>1 DEF Init
  <2>3. Init => /\ pc \in [Process -> Labels]
                /\ cmd \in [Process -> Commands \cup {"none"}]
                /\ exc \in [Process -> Exceptions]
                /\ exit \in [Process -> Exits]
                /\ contacted \in [Process -> BOOLEAN]
                /\ preflight \in [Attempts -> Preflights \cup {None}]
    BY DEF Init, Labels, Exceptions, Exits
  <2>4. QED
    BY <2>2, <2>3 DEF Init, TypeOK
<1>2. Init => /\ WorldInRange
              /\ LabelOfCommand
              /\ ExitWhenEnded
              /\ LateWorkAccount
              /\ SuccessMeansPublished
              /\ LateWorkIsBounded
  BY DEF Init, WorldInRange, LabelOfCommand, ExitWhenEnded, InWorldLabels,
         LateWorkAccount, SuccessMeansPublished, LateWorkIsBounded
<1>3. Init => /\ PublisherFinalizing
              /\ DeviatorEnded
              /\ NoStrayKnowledgeBase
              /\ CompletedMeansPublished
  BY DEF Init, PublisherFinalizing, DeviatorEnded, NoStrayKnowledgeBase,
         CompletedMeansPublished
<1>4. QED
  BY <1>1, <1>2, <1>3 DEF IInv

\* Every step preserves the inductive invariant.
LEMMA StepIInv == IInv /\ [Next]_vars => IInv'
BY TypeStep, ControlStep, FinalStep, KBStep, LateStep
   DEF IInv, ControlInv, FinalInv, LateInv

\* The inductive invariant holds in every reachable state.
LEMMA Invariance == Spec => []IInv
BY InitIInv, StepIInv, PTL DEF Spec

\* The state of the commands, of the workspace files and of the target keeps
\* its type, for any number of commands, worlds and conditions.
THEOREM TypeCorrect == Spec => []TypeOK
<1>1. IInv => TypeOK
  BY DEF IInv
<1>2. QED
  BY Invariance, <1>1, PTL

\* A COMPLETED checkpoint and the evidence bundle come from the same command,
\* whatever the commands that raced to finalize the campaign, and `execute`
\* reports success only for its own evidence, never beside a deviation of its own.
THEOREM ClaimsCorrect == Spec => []ClaimsArePublished
<1>1. IInv => ClaimsArePublished
  BY DEF IInv, ClaimsArePublished
<1>2. QED
  BY Invariance, <1>1, PTL

\* Whoever published evidence left no knowledge base at the target.
THEOREM ResetCorrect == Spec => []PublishedRunLeavesNoKnowledgeBase
<1>1. IInv => PublishedRunLeavesNoKnowledgeBase
  BY DEF IInv, NoStrayKnowledgeBase, PublishedRunLeavesNoKnowledgeBase
<1>2. QED
  BY Invariance, <1>1, PTL

\* After the cancel record an execute begins at most the target operations of
\* one world.
THEOREM CancelCorrect == Spec => []LateWorkIsBounded
<1>1. IInv => LateWorkIsBounded
  BY DEF IInv
<1>2. QED
  BY Invariance, <1>1, PTL

\* An execute that reported its evidence.
Reported(p) == cmd[p] = "execute" /\ exit[p] = "ok"

\* Only publication changes the evidence, and only the end of a publisher adds
\* a report: every other step stutters in the store.
LEMMA StutterStep ==
    ASSUME TypeOK, LabelOfCommand, ExitWhenEnded, [Next]_vars,
           \A p \in Process : ~ Publish(p) /\ ~ MarkCompleted(p)
    PROVE  /\ bundle' = bundle
           /\ \A q \in Process : Reported(q)' <=> Reported(q)
<1> USE DEF vars, local, files, args, position, traffic, Goto, Exit, Raise,
        TypeOK, LabelOfCommand, ExitWhenEnded, Reported
<1> DEFINE Stutter == /\ bundle' = bundle
                      /\ \A q \in Process : Reported(q)' <=> Reported(q)
<1>1. ASSUME NEW p \in Process, NEW c \in Commands, Start(p, c)
      PROVE  Stutter
  BY <1>1 DEF Start
<1>2. ASSUME NEW p \in Process, NEW c \in Commands, Refuse(p, c)
      PROVE  Stutter
  BY <1>2 DEF Refuse
<1>3. ASSUME NEW p \in Process, Advance(p) \/ Crash(p)
      PROVE  Stutter
  <2>1. CASE \/ PrepareCheck(p) \/ PrepareWrite(p) \/ CancelCheck(p)
            \/ CancelWrite(p) \/ Probe(p) \/ ProbeUncaught(p)
            \/ ProbeUnauthorized(p) \/ RetainCheck(p) \/ RetainWrite(p)
    BY <2>1 DEF PrepareCheck, PrepareWrite, CancelCheck, CancelWrite,
       Probe, ProbeUncaught, ProbeUnauthorized, RetainCheck, RetainWrite
  <2>2. CASE \/ Admit(p) \/ AdmitInvalid(p) \/ Poll(p) \/ MarkRunning(p)
            \/ MismatchedOracle(p) \/ CreateKB(p) \/ CreateFails(p)
            \/ Work(p)
    BY <2>2 DEF Admit, AdmitInvalid, Poll, MarkRunning, MismatchedOracle,
       CreateKB, CreateFails, Work
  <2>3. CASE DeleteKB(p) \/ DeleteFails(p)
    BY <2>3 DEF DeleteKB, DeleteFails, NextCondition
  <2>4. CASE \/ BundleCheck(p) \/ DeviateCheck(p) \/ DeviateWrite(p)
            \/ WriteFails(p) \/ WriteDenied(p) \/ Crash(p)
    BY <2>4 DEF BundleCheck, DeviateCheck, DeviateWrite, ExitCode,
       WriteFails, WriteDenied, Crash
  <2>5. CASE Publish(p) \/ MarkCompleted(p)
    BY <2>5
  <2>6. QED
    BY <1>3, <2>1, <2>2, <2>3, <2>4, <2>5 DEF Advance
<1>4. CASE Expire
  BY <1>4 DEF Expire
<1>5. CASE UNCHANGED vars
  BY <1>5
<1>6. QED
  BY <1>1, <1>2, <1>3, <1>4, <1>5 DEF Next, Step, Rest

\* A step of the campaign is a step of the store or a stutter.
LEMMA RefinesStep ==
    ASSUME TypeOK, ControlInv, PublisherFinalizing, [Next]_vars
    PROVE  [Store!StoreNext]_(Store!storeVars)
<1> USE NoneAssumption DEF Store!storeVars
<1>1. ASSUME NEW p \in Process, Publish(p)
      PROVE  [Store!StoreNext]_(Store!storeVars)
  <2> USE <1>1 DEF Publish, Goto, Exit, args
  <2>1. \A q \in Process : Reported(q)' <=> Reported(q)
    BY DEF TypeOK, ControlInv, ExitWhenEnded, Reported
  <2>2. CASE bundle = None
    <3>1. bundle' = p
      BY <2>2
    <3>2. Store!Finalize(p)
      BY <2>1, <2>2, <3>1 DEF Store!Finalize, Reported
    <3>3. QED
      BY <3>2 DEF Store!StoreNext
  <2>3. CASE bundle # None
    BY <2>1, <2>3 DEF Reported
  <2>4. QED
    BY <2>2, <2>3
<1>2. ASSUME NEW p \in Process, MarkCompleted(p)
      PROVE  [Store!StoreNext]_(Store!storeVars)
  <2> USE <1>2 DEF MarkCompleted, Exit, args
  <2>1. bundle = p /\ bundle' = p
    BY DEF PublisherFinalizing
  <2>2. ~ Reported(p) /\ Reported(p)'
    BY DEF TypeOK, ControlInv, ExitWhenEnded, LabelOfCommand, Reported
  <2>3. \A q \in Process \ {p} : Reported(q)' <=> Reported(q)
    BY DEF TypeOK, Reported
  <2>4. Store!Report(p)
    BY <2>1, <2>2, <2>3 DEF Store!Report, Reported
  <2>5. QED
    BY <2>4 DEF Store!StoreNext
<1>3. CASE \A p \in Process : ~ Publish(p) /\ ~ MarkCompleted(p)
  BY <1>3, StutterStep DEF ControlInv, Reported
<1>4. QED
  BY <1>1, <1>2, <1>3

\* The campaign implements the write-once evidence store: the evidence appears
\* once, whole, is never replaced, and success is reported only about it.
THEOREM EvidenceCorrect == Spec => StoreSpec
<1>1. Init => Store!StoreInit
  BY DEF Init, Store!StoreInit
<1>2. IInv /\ [Next]_vars => [Store!StoreNext]_(Store!storeVars)
  BY RefinesStep DEF IInv, ControlInv
<1>3. QED
  BY <1>1, <1>2, Invariance, PTL DEF Spec, StoreSpec, Store!StoreSpec

(***************************************************************************)
(* Retained records.                                                       *)
(***************************************************************************)

\* A step of a command under way is of that command alone.
LEMMA StepFrame ==
    ASSUME TypeOK, ExitWhenEnded, NEW p \in Process, Advance(p) \/ Crash(p)
    PROVE  /\ met' = met /\ cmd' = cmd /\ attempt' = attempt
           /\ pc[p] \notin {"idle", "ended"} /\ exit[p] = "none"
           /\ \A q \in Process \ {p} : pc'[q] = pc[q] /\ exit'[q] = exit[q]
<1> USE DEF args, Goto, Exit, TypeOK
<1>1. /\ met' = met /\ cmd' = cmd /\ attempt' = attempt
      /\ pc[p] \notin {"idle", "ended"}
      /\ \A q \in Process \ {p} : pc'[q] = pc[q] /\ exit'[q] = exit[q]
  <2>1. CASE \/ PrepareCheck(p) \/ PrepareWrite(p) \/ CancelCheck(p)
            \/ CancelWrite(p) \/ Probe(p) \/ ProbeUncaught(p)
            \/ ProbeUnauthorized(p) \/ RetainCheck(p) \/ RetainWrite(p)
    BY <2>1 DEF PrepareCheck, PrepareWrite, CancelCheck, CancelWrite,
       Probe, ProbeUncaught, ProbeUnauthorized, RetainCheck, RetainWrite
  <2>2. CASE \/ Admit(p) \/ AdmitInvalid(p) \/ Poll(p) \/ MarkRunning(p)
            \/ MismatchedOracle(p) \/ CreateKB(p) \/ CreateFails(p)
            \/ Work(p) \/ DeleteKB(p) \/ DeleteFails(p)
    BY <2>2 DEF Admit, AdmitInvalid, Poll, MarkRunning, MismatchedOracle,
       CreateKB, CreateFails, Work, DeleteKB, DeleteFails, NextCondition
  <2>3. CASE \/ BundleCheck(p) \/ Publish(p) \/ MarkCompleted(p)
            \/ DeviateCheck(p) \/ DeviateWrite(p) \/ WriteFails(p)
            \/ WriteDenied(p) \/ Crash(p)
    BY <2>3 DEF BundleCheck, Publish, MarkCompleted, DeviateCheck,
       DeviateWrite, WriteFails, WriteDenied, Crash
  <2>4. QED
    BY <2>1, <2>2, <2>3 DEF Advance
<1>2. QED
  BY <1>1 DEF ExitWhenEnded

\* Commands that come to be under way together meet, and stay met.
LEMMA MetStep ==
    ASSUME TypeOK, ExitWhenEnded, UnderWayMet, [Next]_vars
    PROVE  /\ UnderWayMet'
           /\ \A p \in UnderWay : met[p] \subseteq met'[p]
<1> USE DEF UnderWayMet, UnderWay
<1>1. ASSUME NEW p \in Process, NEW c \in Commands, Start(p, c)
      PROVE  /\ UnderWayMet'
             /\ \A q \in UnderWay : met[q] \subseteq met'[q]
  <2>1. /\ p \notin UnderWay
        /\ met'[p] = UnderWay
        /\ \A q \in UnderWay : met'[q] = met[q] \cup {p}
        /\ \A q \in Process \ {p} : pc'[q] = pc[q]
    BY <1>1 DEF Start, Goto, TypeOK
  <2>2. UnderWay' \subseteq UnderWay \cup {p}
    BY <2>1
  <2>3. QED
    BY <2>1, <2>2
<1>2. ASSUME NEW p \in Process, NEW c \in Commands, Refuse(p, c)
      PROVE  /\ UnderWayMet'
             /\ \A q \in UnderWay : met[q] \subseteq met'[q]
  <2>1. met' = met /\ UnderWay' \subseteq UnderWay
    BY <1>2 DEF Refuse, Exit, TypeOK
  <2>2. QED
    BY <2>1
<1>3. ASSUME NEW p \in Process, Advance(p) \/ Crash(p)
      PROVE  /\ UnderWayMet'
             /\ \A q \in UnderWay : met[q] \subseteq met'[q]
  <2>1. met' = met /\ UnderWay' \subseteq UnderWay
    BY <1>3, StepFrame
  <2>2. QED
    BY <2>1
<1>4. CASE Expire \/ Rest \/ UNCHANGED vars
  BY <1>4 DEF Expire, Rest, vars, local
<1>5. QED
  BY <1>1, <1>2, <1>3, <1>4 DEF Next, Step

\* Whoever changes a checkpoint or a deviation meanwhile is under way, so met.
LEMMA AbsentStep ==
    ASSUME TypeOK, ExitWhenEnded, UnderWayMet, AbsentOrMet, [Next]_vars
    PROVE  AbsentOrMet'
<1> USE NoneAssumption DEF vars, local, files, args, position, traffic, Goto,
        Exit, Raise, TypeOK, AbsentOrMet, Checkpoints, Deviations
<1>1. \A p \in UnderWay : met[p] \subseteq met'[p]
  BY MetStep
<1>2. ASSUME NEW p \in Process, NEW c \in Commands, Start(p, c)
      PROVE  AbsentOrMet'
  BY <1>1, <1>2 DEF Start, Commands, Entry, UnderWay
<1>3. ASSUME NEW p \in Process, NEW c \in Commands, Refuse(p, c)
      PROVE  AbsentOrMet'
  BY <1>3 DEF Refuse
<1>4. ASSUME NEW p \in Process, Advance(p) \/ Crash(p)
      PROVE  AbsentOrMet'
  <2> USE <1>4
  <2>1. \A q \in Process \ {p} : pc[q] \notin {"idle", "ended"} => p \in met[q]
    BY StepFrame DEF UnderWayMet, UnderWay
  <2>2. CASE \/ PrepareCheck(p) \/ CancelCheck(p) \/ CancelWrite(p) \/ Probe(p)
            \/ ProbeUncaught(p) \/ ProbeUnauthorized(p) \/ RetainCheck(p)
            \/ RetainWrite(p)
    BY <2>2 DEF PrepareCheck, CancelCheck, CancelWrite, Probe, ProbeUncaught,
       ProbeUnauthorized, RetainCheck, RetainWrite
  <2>3. CASE PrepareWrite(p) \/ MarkRunning(p) \/ MarkCompleted(p)
    BY <2>1, <2>3 DEF PrepareWrite, MarkRunning, MarkCompleted
  <2>4. CASE DeviateWrite(p)
    BY <2>1, <2>4 DEF DeviateWrite
  <2>5. CASE \/ Admit(p) \/ AdmitInvalid(p) \/ Poll(p)
            \/ MismatchedOracle(p) \/ CreateKB(p) \/ CreateFails(p)
            \/ Work(p) \/ DeleteKB(p) \/ DeleteFails(p)
    BY <2>5 DEF Admit, AdmitInvalid, Poll, MismatchedOracle, CreateKB,
       CreateFails, Work, DeleteKB, DeleteFails, NextCondition
  <2>6. CASE \/ BundleCheck(p) \/ Publish(p) \/ DeviateCheck(p)
            \/ WriteFails(p) \/ WriteDenied(p) \/ Crash(p)
    BY <2>6 DEF BundleCheck, Publish, DeviateCheck, WriteFails, WriteDenied,
       Crash
  <2>7. QED
    BY <2>2, <2>3, <2>4, <2>5, <2>6 DEF Advance
<1>5. CASE Expire \/ Rest \/ UNCHANGED vars
  BY <1>5 DEF Expire, Rest
<1>6. QED
  BY <1>2, <1>3, <1>4, <1>5 DEF Next, Step

\* The attempt that a preflight is let in with is one that an approval can have.
LEMMA NumberedStart ==
    ASSUME TypeOK, NEW p \in Process, NEW c \in Commands, Start(p, c)
    PROVE  c = "preflight" => attempt'[p] \in Attempts
<1>1. 1 .. MaxAttempts \subseteq Attempts
  BY DEF MaxAttempts, Attempts
<1>2. QED
  BY <1>1 DEF Start, TypeOK

\* The record of an attempt and the preflights that retain one go together.
RetainedTogether == RetainingInv /\ ReportedPreflightIsRetained

LEMMA RetainingStep ==
    ASSUME TypeOK, LabelOfCommand, ExitWhenEnded, UnderWayMet, RetainedTogether,
           [Next]_vars
    PROVE  RetainedTogether'
<1> USE RecordAssumption
    DEF vars, local, files, args, position, traffic, Goto, Exit, Raise, TypeOK,
        LabelOfCommand, ExitWhenEnded, RetainedTogether, RetainingInv, Retaining,
        ReportedPreflightIsRetained
<1>1. ASSUME NEW p \in Process, NEW c \in Commands, Start(p, c)
      PROVE  RetainedTogether'
  <2>1. /\ pc[p] = "idle" /\ exit[p] = "none" /\ UNCHANGED <<exit, preflight>>
        /\ cmd'[p] = c /\ pc'[p] \notin {"retainWrite", "retainFailedWrite"}
        /\ c = "preflight" => attempt'[p] \in Attempts
    <3>1. /\ pc[p] = "idle" /\ exit[p] = "none" /\ UNCHANGED <<exit, preflight>>
          /\ cmd'[p] = c /\ pc'[p] \notin {"retainWrite", "retainFailedWrite"}
      BY <1>1 DEF Start, Commands, Entry
    <3>2. c = "preflight" => attempt'[p] \in Attempts
      BY <1>1, NumberedStart
    <3>3. QED
      BY <3>1, <3>2
  <2>2. \A q \in Process \ {p} :
            /\ cmd'[q] = cmd[q] /\ attempt'[q] = attempt[q] /\ pc'[q] = pc[q]
            /\ met[q] \subseteq met'[q]
    BY <1>1 DEF Start
  <2>3. \A a \in Attempts : preflight[a] # None => preflight[a].by # p
    BY <2>1
  <2>4. RetainingInv'
    BY <2>1, <2>2, <2>3 DEF Preflights
  <2>5. ReportedPreflightIsRetained'
    BY <2>1, <2>2 DEF Preflights
  <2>6. QED
    BY <2>4, <2>5
<1>2. ASSUME NEW p \in Process, NEW c \in Commands, Refuse(p, c)
      PROVE  RetainedTogether'
  <2>1. /\ pc[p] = "idle" /\ exit[p] = "none" /\ UNCHANGED <<attempt, met, preflight>>
        /\ pc'[p] = "ended" /\ exit'[p] \in {"invalid", "blocked"}
    BY <1>2 DEF Refuse
  <2>2. \A q \in Process \ {p} :
            cmd'[q] = cmd[q] /\ pc'[q] = pc[q] /\ exit'[q] = exit[q]
    BY <1>2 DEF Refuse
  <2>3. \A a \in Attempts : preflight[a] # None => preflight[a].by # p
    BY <2>1
  <2>4. RetainingInv'
    BY <2>1, <2>2, <2>3 DEF Preflights
  <2>5. ReportedPreflightIsRetained'
    BY <2>1, <2>2
  <2>6. QED
    BY <2>4, <2>5
<1>3. ASSUME NEW p \in Process, Advance(p) \/ Crash(p)
      PROVE  RetainedTogether'
  <2> USE <1>3
  <2>1. /\ met' = met /\ cmd' = cmd /\ attempt' = attempt
        /\ pc[p] \notin {"idle", "ended"} /\ exit[p] = "none"
        /\ \A q \in Process \ {p} : pc'[q] = pc[q] /\ exit'[q] = exit[q]
    BY StepFrame
  <2>2. CASE RetainCheck(p)
    <3>1. preflight' = preflight /\ cmd[p] = "preflight" /\ attempt[p] \in Attempts
      BY <2>1, <2>2 DEF RetainCheck
    <3>2. exit'[p] \in {"none", "invalid"}
      BY <2>1, <2>2 DEF RetainCheck
    <3>3. Retaining(p)' => preflight[attempt[p]] = None
      BY <2>2, <3>2 DEF RetainCheck
    <3>4. ASSUME NEW q \in Process \ {p}, Retaining(p)', Retaining(q),
                 attempt[p] = attempt[q]
          PROVE  p \in met[q] /\ q \in met[p]
      <4>1. preflight[attempt[q]] = None
        BY <3>3, <3>4
      <4>2. pc[q] \notin {"idle", "ended"}
        BY <3>4, <4>1
      <4>3. QED
        BY <2>1, <4>2 DEF UnderWayMet, UnderWay
    <3>5. \A q \in Process \ {p} : Retaining(q)' <=> Retaining(q)
      BY <2>1
    <3>6. RetainingInv'
      BY <2>1, <3>1, <3>2, <3>4, <3>5 DEF Preflights
    <3>7. ReportedPreflightIsRetained'
      BY <2>1, <3>1, <3>2
    <3>8. QED
      BY <3>6, <3>7
  <2>3. CASE RetainWrite(p)
    <3>1. /\ Retaining(p) /\ cmd[p] = "preflight" /\ attempt[p] \in Attempts
      BY <2>1, <2>3 DEF RetainWrite
    <3>2. PICK ok \in BOOLEAN :
              /\ preflight' = [preflight EXCEPT ![attempt[p]] = [passed |-> ok, by |-> p]]
              /\ exit'[p] = IF ok THEN "ok" ELSE "execution_failure"
              /\ pc'[p] = "ended"
      <4> DEFINE wrote == pc[p] = "retainWrite"
      <4>1. wrote \in BOOLEAN
        BY Zenon
      <4>2. preflight' = [preflight EXCEPT ![attempt[p]] = [passed |-> wrote, by |-> p]]
        BY <2>3, Zenon DEF RetainWrite
      <4>3. /\ exit'[p] = IF wrote THEN "ok" ELSE "execution_failure"
            /\ pc'[p] = "ended"
        BY <2>3 DEF RetainWrite
      <4> HIDE DEF wrote
      <4>4. QED
        BY <4>1, <4>2, <4>3
    <3>3. [passed |-> ok, by |-> p] \in Preflights
      BY <3>2 DEF Preflights
    <3>4. \A q \in Process : Retaining(q)' <=> Retaining(q)
      BY <2>1, <3>1, <3>2
    <3>5. \A q \in Process \ {p} :
              cmd[q] = "preflight" /\ exit[q] \in {"ok", "execution_failure"}
                  /\ attempt[q] = attempt[p] => p \in met[q]
      BY <3>1
    <3>6. RetainingInv'
      BY <2>1, <3>1, <3>2, <3>3, <3>4 DEF Preflights
    <3>7. ReportedPreflightIsRetained'
      <4>1. preflight'[attempt[p]] = [passed |-> ok, by |-> p]
        BY <3>1, <3>2
      <4>2. \A q \in Process : attempt[q] # attempt[p] =>
                preflight'[attempt[q]] = preflight[attempt[q]]
        BY <3>2
      <4>3. exit'[p] = "ok" <=> ok
        BY <3>2
      <4>4. [passed |-> exit'[p] = "ok", by |-> p] = [passed |-> ok, by |-> p]
        BY <3>2, <4>3, Zenon
      <4>5. ASSUME NEW q \in Process, cmd'[q] = "preflight",
                   exit'[q] \in {"ok", "execution_failure"}
            PROVE  LET record == preflight'[attempt'[q]]
                   IN  /\ record # None
                       /\ \/ record = [passed |-> exit'[q] = "ok", by |-> q]
                          \/ record.by \in met'[q]
        <5>1. CASE q = p
          <6>1. preflight'[attempt'[q]] = [passed |-> exit'[q] = "ok", by |-> q]
            <7>1. attempt'[q] = attempt[p]
              BY <2>1, <5>1
            <7>2. QED
              BY <4>1, <4>4, <5>1, <7>1, Zenon
          <6>2. preflight'[attempt'[q]] # None
            BY <2>1, <3>3, <4>1, <5>1
          <6>3. QED
            BY <6>1, <6>2, Zenon
        <5>2. CASE q # p /\ attempt[q] = attempt[p]
          BY <2>1, <3>3, <3>5, <4>1, <4>5, <5>2
        <5>3. CASE q # p /\ attempt[q] # attempt[p]
          <6>1. exit'[q] = exit[q] /\ preflight'[attempt'[q]] = preflight[attempt[q]]
            BY <2>1, <4>2, <5>3
          <6>2. QED
            <7>1. /\ cmd[q] = "preflight" /\ exit[q] \in {"ok", "execution_failure"}
                  /\ met'[q] = met[q]
              BY <2>1, <4>5, <6>1
            <7>2. LET record == preflight[attempt[q]]
                  IN  /\ record # None
                      /\ \/ record = [passed |-> exit[q] = "ok", by |-> q]
                         \/ record.by \in met[q]
              BY <7>1, Zenon
            <7>3. QED
              BY <6>1, <7>1, <7>2, Zenon
        <5>4. QED
          BY <5>1, <5>2, <5>3
      <4>6. QED
        BY <4>5, Zenon
    <3>8. QED
      BY <3>6, <3>7
  <2>4. CASE ~ RetainCheck(p) /\ ~ RetainWrite(p)
    <3>1. /\ preflight' = preflight
          /\ Retaining(p)' => Retaining(p)
          /\ cmd[p] = "preflight" => exit'[p] \notin {"ok", "execution_failure"}
      <4>1. CASE \/ PrepareCheck(p) \/ PrepareWrite(p) \/ CancelCheck(p)
                \/ CancelWrite(p) \/ Probe(p) \/ ProbeUncaught(p)
                \/ ProbeUnauthorized(p)
        BY <2>1, <4>1 DEF PrepareCheck, PrepareWrite, CancelCheck,
           CancelWrite, Probe, ProbeUncaught, ProbeUnauthorized
      <4>2. CASE \/ Admit(p) \/ AdmitInvalid(p) \/ Poll(p) \/ MarkRunning(p)
                \/ MismatchedOracle(p) \/ CreateKB(p) \/ CreateFails(p)
                \/ Work(p) \/ DeleteKB(p) \/ DeleteFails(p)
        BY <2>1, <4>2 DEF Admit, AdmitInvalid, Poll, MarkRunning,
           MismatchedOracle, CreateKB, CreateFails, Work, DeleteKB,
           DeleteFails, NextCondition
      <4>3. CASE \/ BundleCheck(p) \/ Publish(p) \/ MarkCompleted(p)
                \/ DeviateCheck(p) \/ DeviateWrite(p) \/ WriteFails(p)
                \/ WriteDenied(p) \/ Crash(p)
        BY <2>1, <4>3 DEF BundleCheck, Publish, MarkCompleted, DeviateCheck,
           DeviateWrite, WriteFails, WriteDenied, Crash
      <4>4. QED
        BY <2>4, <4>1, <4>2, <4>3 DEF Advance
    <3>2. \A a \in Attempts : preflight[a] # None => preflight[a].by # p
      BY <2>1
    <3>3. RetainingInv'
      BY <2>1, <3>1, <3>2 DEF Preflights
    <3>4. ReportedPreflightIsRetained'
      BY <2>1, <3>1
    <3>5. QED
      BY <3>3, <3>4
  <2>5. QED
    BY <2>2, <2>3, <2>4
<1>4. CASE Expire \/ Rest \/ UNCHANGED vars
  BY <1>4 DEF Expire, Rest
<1>5. QED
  BY <1>1, <1>2, <1>3, <1>4 DEF Next, Step

\* A step replaces a retained record only where its command met the author.
Retains ==
    /\ cancelFile => cancelFile'
    /\ deviation # None /\ deviation' # deviation =>
           deviation.by \in met[deviation'.by]
    /\ \A a \in Attempts :
           preflight[a] # None /\ preflight'[a] # preflight[a] =>
               preflight[a].by \in met[preflight'[a].by]
    /\ checkpoint # None /\ checkpoint' # checkpoint =>
           (checkpoint'.phase = "prepared" => checkpoint.by \in met[checkpoint'.by])

LEMMA RetainsStep ==
    ASSUME TypeOK, LabelOfCommand, ExitWhenEnded, AbsentOrMet, RetainingInv,
           [Next]_vars
    PROVE  Retains
<1> USE DEF vars, local, files, TypeOK, AbsentOrMet, Retains
<1>1. ASSUME NEW p \in Process, NEW c \in Commands,
             Start(p, c) \/ Refuse(p, c)
      PROVE  Retains
  BY <1>1 DEF Start, Refuse
<1>2. ASSUME NEW p \in Process, Advance(p) \/ Crash(p)
      PROVE  Retains
  <2>1. CASE RetainWrite(p)
    <3>1. /\ Retaining(p) /\ attempt[p] \in Attempts /\ exit[p] = "none"
      BY <2>1 DEF RetainWrite, RetainingInv, Retaining, LabelOfCommand, ExitWhenEnded
    <3>2. ASSUME preflight[attempt[p]] # None
          PROVE  preflight[attempt[p]].by \in met[p]
      BY <3>1, <3>2 DEF RetainingInv, Retaining, Preflights
    <3>3. \A a \in Attempts \ {attempt[p]} : preflight'[a] = preflight[a]
      BY <2>1 DEF RetainWrite
    <3>4. preflight'[attempt[p]].by = p
      BY <2>1, <3>1 DEF RetainWrite
    <3>5. UNCHANGED <<cancelFile, deviation, checkpoint>>
      BY <2>1 DEF RetainWrite
    <3>6. QED
      BY <3>2, <3>3, <3>4, <3>5
  <2>2. CASE \/ PrepareCheck(p) \/ PrepareWrite(p) \/ CancelCheck(p)
            \/ CancelWrite(p) \/ Probe(p) \/ ProbeUncaught(p)
            \/ ProbeUnauthorized(p) \/ RetainCheck(p)
    BY <2>2 DEF PrepareCheck, PrepareWrite, CancelCheck, CancelWrite,
       Probe, ProbeUncaught, ProbeUnauthorized, RetainCheck
  <2>3. CASE \/ Admit(p) \/ AdmitInvalid(p) \/ Poll(p) \/ MarkRunning(p)
            \/ MismatchedOracle(p) \/ CreateKB(p) \/ CreateFails(p)
            \/ Work(p) \/ DeleteKB(p) \/ DeleteFails(p)
    BY <2>3 DEF Admit, AdmitInvalid, Poll, MarkRunning, MismatchedOracle,
       CreateKB, CreateFails, Work, DeleteKB, DeleteFails
  <2>4. CASE \/ BundleCheck(p) \/ Publish(p) \/ MarkCompleted(p)
            \/ DeviateCheck(p) \/ DeviateWrite(p) \/ WriteFails(p)
            \/ WriteDenied(p) \/ Crash(p)
    BY <2>4 DEF BundleCheck, Publish, MarkCompleted, DeviateCheck,
       DeviateWrite, WriteFails, WriteDenied, Crash
  <2>5. QED
    BY <1>2, <2>1, <2>2, <2>3, <2>4 DEF Advance
<1>3. CASE Expire \/ Rest \/ UNCHANGED vars
  BY <1>3 DEF Expire, Rest
<1>4. QED
  BY <1>1, <1>2, <1>3 DEF Next, Step

\* Every reachable state has the retention invariant too.
LEMMA RetentionInvariance == Spec => [](IInv /\ RetentionInv)
<1>1. Init => RetentionInv
  BY DEF Init, RetentionInv, UnderWayMet, UnderWay, AbsentOrMet, RetainingInv,
         Retaining, ReportedPreflightIsRetained
<1>2. IInv /\ RetentionInv /\ [Next]_vars => IInv' /\ RetentionInv'
  BY StepIInv, MetStep, AbsentStep, RetainingStep
     DEF IInv, RetentionInv, RetainedTogether
<1>3. QED
  BY InitIInv, <1>1, <1>2, PTL DEF Spec

\* However the commands interleave and crash, a retained record is replaced only
\* by a command that was under way together with its author, and a cancel record
\* is never taken back.
THEOREM RetentionCorrect == Spec => RetainedUnlessRaced
<1>1. IInv /\ RetentionInv /\ [Next]_vars => [Retains]_vars
  BY RetainsStep DEF IInv, RetentionInv
<1>2. QED
  BY <1>1, RetentionInvariance, PTL DEF Spec, RetainedUnlessRaced, Retains

\* A preflight that reported its outcome left it in the file of its attempt, or
\* lost the file to one of the preflights that it met.
THEOREM ReportsCorrect == Spec => []ReportedPreflightIsRetained
<1>1. RetentionInv => ReportedPreflightIsRetained
  BY DEF RetentionInv
<1>2. QED
  BY <1>1, RetentionInvariance, PTL
=============================================================================
