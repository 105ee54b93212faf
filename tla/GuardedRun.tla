---------------------------- MODULE GuardedRun ----------------------------
(***************************************************************************)
(* `risi run`: commands that run manifests with one run ID against one     *)
(* artifact root.  An admitted command (RunAdmission) recovers an existing *)
(* result or executes the episodes of the manifest under a budget ledger,  *)
(* accounts for the size of its evidence, stages the evidence file by file *)
(* and renames the staging directory over the final path.  Commands may    *)
(* run at once, be interrupted (and then recover), fail, or die, and the   *)
(* scenario file may be edited under them.                                 *)
(*                                                                         *)
(* Source: src/src/risi/runner.py, src/src/risi/artifacts.py,              *)
(* src/src/risi/evidence.py, src/src/risi/budget.py and the run command of *)
(* src/src/risi/cli.py.                                                    *)
(***************************************************************************)
EXTENDS RunAdmission

CONSTANTS
    Run,            \* command invocations
    File,           \* evidence files of a run, the inventory apart
    Inventory,      \* inventory.json, written last
    EvidenceBytes,  \* sizes the evidence of a run may have
    Edited,         \* what an edit may leave at the scenario's path, None for nothing
    MaxEdits

Complete == File \cup {Inventory}

Bundles == [by : Run, manifest : Manifest, files : SUBSET Complete]

ASSUME NoneAssumption == None \notin Run \cup Bundles
ASSUME FileAssumption == Inventory \notin File
ASSUME BytesAssumption == EvidenceBytes \subseteq Nat
ASSUME EditsAssumption == Edited \subseteq Scenario \cup {None} /\ MaxEdits \in Nat

VARIABLES
    pc,         \* where each command is
    manifest,   \* the manifest it runs
    used,       \* its budget ledger: what it consumed of every resource
    query,      \* retrievals done in the current episode
    calls,      \* what it really did: episodes begun, retrievals and decisions made
    staged,     \* files in its staging directory
    exit,       \* how it ended
    final,      \* the final bundle: who wrote it, for what, which files
    scenario,   \* what is at the scenario's path
    edits       \* edits of it

perRun == <<pc, manifest, used, query, calls, staged, exit>>
disk   == <<scenario, edits>>
vars   == <<perRun, final, disk>>
work   == <<used, query, calls>>

Labels == {"idle", "recover", "budget", "episode", "retrieve", "decide", "measure", "check",
           "stage", "rename", "report", "interrupted", "ended"}
Exits  == {"none", "ok", "reused", "blocked", "invalid", "exhausted",
           "artifact_failure", "interrupted", "traceback", "crashed"}

Unspent == [x \in Resource |-> 0]
Work    == [episodes : Nat, retrievals : Nat, decisions : Nat]
NoWork  == [episodes |-> 0, retrievals |-> 0, decisions |-> 0]

\* All the work of a manifest's policy: one decision in each of its arms.
AllWork(m) ==
    [episodes |-> Arms(m), retrievals |-> Arms(m) * Retrievals(m), decisions |-> Arms(m)]

Init ==
    /\ pc = [r \in Run |-> "idle"]
    /\ manifest = [r \in Run |-> None]
    /\ used = [r \in Run |-> Unspent]
    /\ query = [r \in Run |-> 0]
    /\ calls = [r \in Run |-> NoWork]
    /\ staged = [r \in Run |-> {}]
    /\ exit = [r \in Run |-> "none"]
    /\ final = None
    /\ scenario \in Scenario
    /\ edits = 0

----------------------------------------------------------------------------
Goto(r, label) ==
    /\ pc' = [pc EXCEPT ![r] = label]
    /\ UNCHANGED exit

Exit(r, code) ==
    /\ pc' = [pc EXCEPT ![r] = "ended"]
    /\ exit' = [exit EXCEPT ![r] = code]

\* Mutant: the evidence found is not compared with the manifest.
Recoverable_AnyManifest(r) ==
    /\ final # None
    /\ final.files = Complete

\* The final bundle is there, intact and for this manifest.
Recoverable(r) ==
    /\ final # None
    /\ final.files = Complete
    /\ final.manifest = manifest[r]

\* BudgetLedger.consume refuses what exceeds the approved limits.
Affordable(r, u) == \A x \in Resource : u[x] <= manifest[r].limits[x]

\* One unit of each of the resources that a piece of work takes.
Charge(r, spent) == [x \in Resource |-> used[r][x] + (IF x \in spent THEN 1 ELSE 0)]

EpisodeCost   == {"episodes", "logical_steps"}
RetrievalCost == {"retrieval_calls", "logical_steps"}
DecisionCost  == {"logical_steps"}

----------------------------------------------------------------------------
Start(r, m, a) ==
    /\ pc[r] = "idle"
    /\ Admission(m, a, scenario) = "admitted"
    /\ manifest' = [manifest EXCEPT ![r] = m]
    /\ Goto(r, "recover")
    /\ UNCHANGED <<work, staged, final, disk>>

Refuse(r, m, a) ==
    /\ pc[r] = "idle"
    /\ Admission(m, a, scenario) # "admitted"
    /\ manifest' = [manifest EXCEPT ![r] = m]
    /\ Exit(r, Admission(m, a, scenario))
    /\ UNCHANGED <<work, staged, final, disk>>

\* Mutant: evidence of another manifest is waited out instead of refused.
Recover_Waits(r) ==
    /\ pc[r] = "recover"
    /\ IF final = None THEN Goto(r, "budget")
       ELSE Recoverable(r) /\ Exit(r, "reused")
    /\ UNCHANGED <<manifest, work, staged, final, disk>>

Recover(r) ==
    /\ pc[r] = "recover"
    /\ IF final = None THEN Goto(r, "budget")
       ELSE IF Recoverable(r) THEN Exit(r, "reused")
       ELSE Exit(r, "artifact_failure")
    /\ UNCHANGED <<manifest, work, staged, final, disk>>

----------------------------------------------------------------------------
\* The episodes.  Work is charged before it is done.

\* The ledger opens with the size of the scenario file, which may have been edited
\* since it was loaded, and the memories that were loaded.
InitialBudget(r) ==
    /\ pc[r] = "budget"
    /\ scenario # None
    /\ LET charged == [used[r] EXCEPT !["input_bytes"] = scenario.bytes,
                                      !["memory_records"] = manifest[r].scenario.records]
       IN  /\ Affordable(r, charged)
           /\ used' = [used EXCEPT ![r] = charged]
    /\ Goto(r, "episode")
    /\ UNCHANGED <<manifest, query, calls, staged, final, disk>>

InitialBudgetFails(r) ==
    /\ pc[r] = "budget"
    /\ IF scenario = None THEN Exit(r, "invalid")
       ELSE scenario.bytes > manifest[r].limits["input_bytes"] /\ Exit(r, "exhausted")
    /\ UNCHANGED <<manifest, work, staged, final, disk>>

\* Mutant: the query counter is not reset for a new episode.
BeginEpisode_KeepsQuery(r) ==
    /\ pc[r] = "episode"
    /\ LET charged == Charge(r, EpisodeCost)
       IN  /\ Affordable(r, charged)
           /\ used' = [used EXCEPT ![r] = charged]
    /\ calls' = [calls EXCEPT ![r].episodes = @ + 1]
    /\ Goto(r, "retrieve")
    /\ UNCHANGED <<manifest, query, staged, final, disk>>

BeginEpisode(r) ==
    /\ pc[r] = "episode"
    /\ LET charged == Charge(r, EpisodeCost)
       IN  /\ Affordable(r, charged)
           /\ used' = [used EXCEPT ![r] = charged]
    /\ calls' = [calls EXCEPT ![r].episodes = @ + 1]
    /\ query' = [query EXCEPT ![r] = 0]
    /\ Goto(r, "retrieve")
    /\ UNCHANGED <<manifest, staged, final, disk>>

\* Mutant: the charged ledger is dropped, as when `ledger = ` is forgotten.
Retrieve_Uncharged(r) ==
    /\ pc[r] = "retrieve"
    /\ Affordable(r, Charge(r, RetrievalCost))
    /\ UNCHANGED used
    /\ calls' = [calls EXCEPT ![r].retrievals = @ + 1]
    /\ query' = [query EXCEPT ![r] = @ + 1]
    /\ Goto(r, IF query[r] + 1 < Retrievals(manifest[r]) THEN "retrieve" ELSE "decide")
    /\ UNCHANGED <<manifest, staged, final, disk>>

Retrieve(r) ==
    /\ pc[r] = "retrieve"
    /\ LET charged == Charge(r, RetrievalCost)
       IN  /\ Affordable(r, charged)
           /\ used' = [used EXCEPT ![r] = charged]
    /\ calls' = [calls EXCEPT ![r].retrievals = @ + 1]
    /\ query' = [query EXCEPT ![r] = @ + 1]
    /\ Goto(r, IF query[r] + 1 < Retrievals(manifest[r]) THEN "retrieve" ELSE "decide")
    /\ UNCHANGED <<manifest, staged, final, disk>>

\* Mutant: the last arm is skipped.
Decide_SkipsLastArm(r) ==
    /\ pc[r] = "decide"
    /\ LET charged == Charge(r, DecisionCost)
       IN  /\ Affordable(r, charged)
           /\ used' = [used EXCEPT ![r] = charged]
    /\ calls' = [calls EXCEPT ![r].decisions = @ + 1]
    /\ IF ~ manifest[r].scenario.typed THEN Exit(r, "traceback")
       ELSE Goto(r, IF calls[r].episodes + 1 < Arms(manifest[r]) THEN "episode" ELSE "measure")
    /\ UNCHANGED <<manifest, query, staged, final, disk>>

\* The provider decides; facts of another type than its protocol's end the command
\* with a TypeError, which no handler expects.
Decide(r) ==
    /\ pc[r] = "decide"
    /\ LET charged == Charge(r, DecisionCost)
       IN  /\ Affordable(r, charged)
           /\ used' = [used EXCEPT ![r] = charged]
    /\ calls' = [calls EXCEPT ![r].decisions = @ + 1]
    /\ IF ~ manifest[r].scenario.typed THEN Exit(r, "traceback")
       ELSE Goto(r, IF calls[r].episodes < Arms(manifest[r]) THEN "episode" ELSE "measure")
    /\ UNCHANGED <<manifest, query, staged, final, disk>>

\* The charge an episode's next piece of work needs exceeds the ledger.
Exhaust(r) ==
    /\ \/ pc[r] = "episode"  /\ ~ Affordable(r, Charge(r, EpisodeCost))
       \/ pc[r] = "retrieve" /\ ~ Affordable(r, Charge(r, RetrievalCost))
       \/ pc[r] = "decide"   /\ ~ Affordable(r, Charge(r, DecisionCost))
    /\ Exit(r, "exhausted")
    /\ UNCHANGED <<manifest, work, staged, final, disk>>

\* A scenario contract fails in an episode (an event that does not isolate its
\* memory, an unreadable scenario file, a state the evaluator rejects).
Reject(r) ==
    /\ pc[r] \in {"episode", "retrieve", "decide"}
    /\ Exit(r, "invalid")
    /\ UNCHANGED <<manifest, work, staged, final, disk>>

----------------------------------------------------------------------------
\* Evidence: size accounting, then staging and rename.

\* The size the evidence reports about itself fits the approval, or it does not
\* (ArtifactAccounting has the rounds it takes to find out).
Measure(r) ==
    /\ pc[r] = "measure"
    /\ \E n \in EvidenceBytes :
           LET charged == [used[r] EXCEPT !["artifact_bytes"] = n]
           IN  /\ Affordable(r, charged)
               /\ used' = [used EXCEPT ![r] = charged]
    /\ Goto(r, "check")
    /\ UNCHANGED <<manifest, query, calls, staged, final, disk>>

MeasureExhausted(r) ==
    /\ pc[r] = "measure"
    /\ \E n \in EvidenceBytes : n > manifest[r].limits["artifact_bytes"]
    /\ Exit(r, "exhausted")
    /\ UNCHANGED <<manifest, work, staged, final, disk>>

Check(r) ==
    /\ pc[r] = "check"
    /\ IF final # None THEN Exit(r, "artifact_failure") ELSE Goto(r, "stage")
    /\ UNCHANGED <<manifest, work, staged, final, disk>>

StageFile(r, f) ==
    /\ pc[r] = "stage"
    /\ f \in File \ staged[r]
    /\ staged' = [staged EXCEPT ![r] = @ \cup {f}]
    /\ UNCHANGED <<pc, exit, manifest, work, final, disk>>

\* Mutant: the inventory, and with it the rename, can come before a file.
StageInventory_Early(r) ==
    /\ pc[r] = "stage"
    /\ staged' = [staged EXCEPT ![r] = @ \cup {Inventory}]
    /\ Goto(r, "rename")
    /\ UNCHANGED <<manifest, work, final, disk>>

StageInventory(r) ==
    /\ pc[r] = "stage"
    /\ staged[r] = File
    /\ staged' = [staged EXCEPT ![r] = @ \cup {Inventory}]
    /\ Goto(r, "rename")
    /\ UNCHANGED <<manifest, work, final, disk>>

\* Mutant: the rename replaces an existing bundle.
Rename_Replaces(r) ==
    /\ pc[r] = "rename"
    /\ staged' = [staged EXCEPT ![r] = {}]
    /\ final' = [by |-> r, manifest |-> manifest[r], files |-> staged[r]]
    /\ Goto(r, "report")
    /\ UNCHANGED <<manifest, work, disk>>

\* Mutant: the staging directory is not removed when the rename fails.
Rename_LeavesStaging(r) ==
    /\ pc[r] = "rename"
    /\ IF final = None
       THEN /\ final' = [by |-> r, manifest |-> manifest[r], files |-> staged[r]]
            /\ staged' = [staged EXCEPT ![r] = {}]
            /\ Goto(r, "report")
       ELSE /\ UNCHANGED <<final, staged>>
            /\ Exit(r, "artifact_failure")
    /\ UNCHANGED <<manifest, work, disk>>

\* The rename over the final path; over a non-empty directory it fails, and
\* the temporary directory is removed on the way out.
Rename(r) ==
    /\ pc[r] = "rename"
    /\ staged' = [staged EXCEPT ![r] = {}]
    /\ IF final = None
       THEN /\ final' = [by |-> r, manifest |-> manifest[r], files |-> staged[r]]
            /\ Goto(r, "report")
       ELSE /\ UNCHANGED final
            /\ Exit(r, "artifact_failure")
    /\ UNCHANGED <<manifest, work, disk>>

\* Mutant: a failure after the rename is reported as a failure to write.
StageFails_Late(r) ==
    /\ pc[r] \in {"stage", "rename", "report"}
    /\ staged' = [staged EXCEPT ![r] = {}]
    /\ Exit(r, "artifact_failure")
    /\ UNCHANGED <<manifest, work, final, disk>>

\* Writing fails: the temporary directory is removed, the final path untouched.
StageFails(r) ==
    /\ pc[r] \in {"stage", "rename"}
    /\ staged' = [staged EXCEPT ![r] = {}]
    /\ Exit(r, "artifact_failure")
    /\ UNCHANGED <<manifest, work, final, disk>>

ReportResult(r) ==
    /\ pc[r] = "report"
    /\ Exit(r, "ok")
    /\ UNCHANGED <<manifest, work, staged, final, disk>>

----------------------------------------------------------------------------
\* Interruption and death.

\* Ctrl-C anywhere in the guarded call: unwinding removes the staging
\* directory; the handler then looks whether the evidence made it.
Interrupt(r) ==
    /\ pc[r] \notin {"idle", "interrupted", "ended"}
    /\ staged' = [staged EXCEPT ![r] = {}]
    /\ Goto(r, "interrupted")
    /\ UNCHANGED <<manifest, work, final, disk>>

\* Mutant: the handler does not look for evidence.
InterruptRecover_Blind(r) ==
    /\ pc[r] = "interrupted"
    /\ Exit(r, "interrupted")
    /\ UNCHANGED <<manifest, work, staged, final, disk>>

InterruptRecover(r) ==
    /\ pc[r] = "interrupted"
    /\ IF scenario = manifest[r].scenario /\ Recoverable(r) THEN Exit(r, "reused")
       ELSE Exit(r, "interrupted")
    /\ UNCHANGED <<manifest, work, staged, final, disk>>

\* The process dies: what it staged stays behind, never to be read.
Crash(r) ==
    /\ pc[r] \notin {"idle", "ended"}
    /\ Exit(r, "crashed")
    /\ UNCHANGED <<manifest, work, staged, final, disk>>

\* Somebody edits or removes the scenario file.
EditScenario ==
    /\ edits < MaxEdits
    /\ scenario' \in Edited \ {scenario}
    /\ edits' = edits + 1
    /\ UNCHANGED <<perRun, final>>

Rest ==
    /\ \A r \in Run : pc[r] = "ended"
    /\ UNCHANGED vars

----------------------------------------------------------------------------
Advance(r) ==
    \/ Recover(r) \/ InitialBudget(r) \/ InitialBudgetFails(r)
    \/ BeginEpisode(r) \/ Retrieve(r) \/ Decide(r) \/ Exhaust(r) \/ Reject(r)
    \/ Measure(r) \/ MeasureExhausted(r) \/ Check(r)
    \/ (\E f \in File : StageFile(r, f)) \/ StageInventory(r)
    \/ Rename(r) \/ StageFails(r) \/ ReportResult(r) \/ InterruptRecover(r)

Step(r) ==
    \/ \E m \in Manifest, a \in Approval \cup {None} : Start(r, m, a) \/ Refuse(r, m, a)
    \/ Advance(r) \/ Interrupt(r) \/ Crash(r)

Next == (\E r \in Run : Step(r)) \/ EditScenario \/ Rest

Spec == Init /\ [][Next]_vars

\* A run is a straight line of local computation and file writes: once started
\* it keeps going.
FairSpec == Spec /\ \A r \in Run : WF_vars(Advance(r))

----------------------------------------------------------------------------
\* Properties.

\* Every variable keeps its type.
TypeOK ==
    /\ pc \in [Run -> Labels]
    /\ manifest \in [Run -> Manifest \cup {None}]
    /\ used \in [Run -> [Resource -> Nat]]
    /\ query \in [Run -> 0 .. 3]
    /\ calls \in [Run -> Work]
    /\ staged \in [Run -> SUBSET Complete]
    /\ exit \in [Run -> Exits]
    /\ final \in Bundles \cup {None}
    /\ scenario \in Scenario \cup {None}
    /\ edits \in Nat

\* The final path never shows part of a bundle, whatever the moment at which a
\* writer fails, is interrupted or dies.
NeverPartial == final # None => final.files = Complete

\* A success is a success about what is on disk: the bundle is for the
\* command's own manifest, and "not reused" means it wrote the bundle itself.
SuccessMatchesEvidence ==
    \A r \in Run :
        /\ exit[r] \in {"ok", "reused"} => final # None /\ final.manifest = manifest[r]
        /\ exit[r] = "ok" => final.by = r

\* "run interrupted before atomic evidence finalization" is the truth, unless
\* the scenario was changed under the command in the meantime.
InterruptedBeforeFinalization ==
    \A r \in Run :
        exit[r] = "interrupted" /\ final # None /\ final.by = r => edits > 0

\* A command that says it ran out of budget, or was given invalid input, or ended
\* with a traceback, has not left evidence.
FailureLeavesNoEvidence ==
    \A r \in Run :
        exit[r] \in {"exhausted", "invalid", "blocked", "artifact_failure", "traceback"} =>
            final = None \/ final.by # r

\* The ledger tells the truth about the work, which never exceeds what the
\* manifest's approval allows, also when the scenario file grows under the command.
BudgetIsHonest ==
    \A r \in Run :
        /\ used[r]["episodes"] = calls[r].episodes
        /\ used[r]["retrieval_calls"] = calls[r].retrievals
        /\ used[r]["logical_steps"] =
              calls[r].episodes + calls[r].retrievals + calls[r].decisions
        /\ manifest[r] # None => Affordable(r, used[r])

\* Evidence is of all the work of the policy, never of a part of its arms.
EvidenceIsOfAllArms == final # None => calls[final.by] = AllWork(final.manifest)

\* The run contract reckons the work that the policy then does: an admitted run never
\* runs out of episodes or of retrievals, only of what the contract does not look at.
AdmittedWorkFits ==
    \A r \in Run :
        /\ pc[r] = "episode" => used[r]["episodes"] < manifest[r].limits["episodes"]
        /\ pc[r] = "retrieve" =>
              used[r]["retrieval_calls"] < manifest[r].limits["retrieval_calls"]

\* Staged files outlive a command only if it died.
StagingIsTemporary ==
    \A r \in Run : staged[r] # {} => pc[r] \in {"stage", "rename"} \/ exit[r] = "crashed"

\* Evidence is whole in every respect: all the files of a bundle, with nothing
\* staged left beside it, and all the arms of the run.
EvidenceIsWhole == NeverPartial /\ StagingIsTemporary /\ EvidenceIsOfAllArms

\* What the exit code says of the evidence is so: of a success, of an
\* interruption, and of each failure.
ExitTellsTheTruth ==
    SuccessMatchesEvidence /\ InterruptedBeforeFinalization /\ FailureLeavesNoEvidence

\* Every command that starts ends.
RunsEnd == \A r \in Run : pc[r] # "idle" ~> pc[r] = "ended"

\* documentation/operator-guide.mdx:28-38, "Stable exit codes": a command ends with
\* one of the documented outcomes (or is killed), never with a Python traceback.
ExitIsDocumented == \A r \in Run : exit[r] # "traceback"

----------------------------------------------------------------------------
\* The inductive strengthening of the safety properties.

\* A command has a manifest once it has started.
StartedHasManifest == \A r \in Run : pc[r] # "idle" => manifest[r] # None

\* A command under way was admitted: the scenario it loaded is the one on disk, unless
\* that was edited, and its limits allow the work of its policy.
AdmittedUnderWay ==
    \A r \in Run : pc[r] \notin {"idle", "ended"} =>
        /\ edits = 0 => scenario = manifest[r].scenario
        /\ AllWork(manifest[r]).episodes <= manifest[r].limits["episodes"]
        /\ AllWork(manifest[r]).retrievals <= manifest[r].limits["retrieval_calls"]

\* What a command did is whole episodes, and its part of the one it is in.
WorkAt(r) ==
    LET c == calls[r]
        arms == Arms(manifest[r])
        each == Retrievals(manifest[r])
    IN  /\ pc[r] \in {"idle", "recover", "budget"} => c = NoWork /\ used[r] = Unspent
        /\ pc[r] = "episode" =>
              /\ c.episodes < arms
              /\ c.retrievals = c.episodes * each
              /\ c.decisions = c.episodes
        /\ pc[r] = "retrieve" =>
              /\ c.episodes \in 1 .. arms
              /\ query[r] < each
              /\ c.retrievals = (c.episodes - 1) * each + query[r]
              /\ c.decisions = c.episodes - 1
        /\ pc[r] = "decide" =>
              /\ c.episodes \in 1 .. arms
              /\ c.retrievals = c.episodes * each
              /\ c.decisions = c.episodes - 1
        /\ pc[r] \in {"measure", "check", "stage", "rename", "report"} =>
              c = AllWork(manifest[r])

WorkInStep == \A r \in Run : WorkAt(r)

\* An exit code is there once a command has ended.
ExitWhenEnded == \A r \in Run : exit[r] # "none" => pc[r] = "ended"

\* What is about to be renamed is a whole bundle.
RenameIsWhole == \A r \in Run : pc[r] = "rename" => staged[r] = Complete

\* The author of the bundle is past its rename, and whoever is about to report
\* new evidence is the author.
AuthorIsDone ==
    /\ final # None =>
           /\ manifest[final.by] = final.manifest
           /\ pc[final.by] \in {"report", "interrupted", "ended"}
    /\ \A r \in Run : pc[r] = "report" => final # None /\ final.by = r

IInv ==
    /\ TypeOK
    /\ StartedHasManifest
    /\ AdmittedUnderWay
    /\ WorkInStep
    /\ ExitWhenEnded
    /\ RenameIsWhole
    /\ AuthorIsDone
    /\ NeverPartial
    /\ SuccessMatchesEvidence
    /\ InterruptedBeforeFinalization
    /\ FailureLeavesNoEvidence
    /\ StagingIsTemporary
    /\ BudgetIsHonest
    /\ EvidenceIsOfAllArms
    /\ AdmittedWorkFits

----------------------------------------------------------------------------
\* The run implements the write-once store: the evidence is the manifest of the
\* final bundle, a report is an exit with success.

Store == INSTANCE EvidenceStore
    WITH Writer <- Run, Content <- Manifest,
         evidence <- IF final = None THEN None ELSE final.manifest,
         report <- [r \in Run |-> IF exit[r] \in {"ok", "reused"} THEN manifest[r] ELSE None]

StoreSpec == Store!StoreSpec
=============================================================================
