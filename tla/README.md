# A TLA+ model of RISI

RISI runs guarded, deterministic experiments on memory systems: local reference
runs that execute an approved manifest against a reference memory and write an
evidence bundle, and external-target campaigns that drive a knowledge-base
service through one approved workspace. Everything it claims rests on its
evidence: bundles that are whole, written once and for the manifest they name;
traces that verify; replays that arrive where the memory was; and an external
target that is left as it was found. This directory models the parts of the
program that keep those promises, checks them with TLC on small instances and
proves the most important ones with TLAPS for every value of the constants.

All source paths below are relative to `src/src/risi/` unless they say otherwise.

## 1. Inventory

| Component | State it keeps | Operations | Interacts with | What makes it correct |
|---|---|---|---|---|
| Campaign lifecycle (`campaign.py`, campaign commands of `cli.py`) | files of a workspace: checkpoint, cancel record, deviation, numbered preflight results; per command: world, condition, document, exception in flight | prepare, preflight, status, cancel, execute, inspect | each command is a process; they share the workspace, the artifact root and the target | retained records survive, COMPLETED and success mean published evidence, cancellation is bounded, the target is reset |
| Dify adapter (`adapters/dify.py`), transport (`transport.py`) | request counter, cancellation token | create/inspect/delete knowledge base and document, wait for indexing, retrieve, health | campaign drives it; the service is external and indexes on its own | one request, no retry; a definite outcome of every wait; queries meet only what is indexed |
| Guarded run (`runner.py`, `run` of `cli.py`) | per command: ledger, arm, evidence in memory | validate, recover or execute, interrupt | artifact root shared with other commands; reads the scenario file up to three times | every exit code tells the truth about the final bundle |
| Budget ledger (`budget.py`) | immutable counters of six resources | `consume` | charged by the runner before the work it pays for | counters equal work done, never above the approval |
| Safety kernel (`operator/`) | none | authorize a run | runner, CLI | denies unless every binding matches; what it admits can be done |
| Scenario loader (`scenarios.py`, `models.py`) | none | load, check against manifest, check the protocols | runner, comparisons | what is accepted can be executed |
| Evidence bundles (`artifacts.py`) | staging directory, final directory, inventory | prepare, measure, create, verify | used by runner, campaign, replay, evidence readers | never partial, never replaced, reports its own size, verifies iff untouched |
| Evidence readers (`evidence.py`, `replay_campaign_bundle`) | none | recover, inspect, compare, replay of a campaign | bundles, which may change while they are read | what they accept was intact, what they call equal is |
| Reference memory (`adapters/reference.py`) | snapshot: clock, sequence, policy, derived state; the trace | retrieve, assemble context, configure policy, snapshot, reset, advance clock, record event | runner drives one per arm | removals have causes, protection restores the control |
| Event trace (`trace.py`) | none (hash chain over events) | create, verify | memory writes it, runner and replay verify it | exported traces verify |
| Replay (`replay.py`) | reconstructed state | replay bundle, rescore arms | bundles only | a second implementation that agrees with the first |
| CRAF assessment (`craf.py`), evaluator (`evaluator.py`), decision providers (`decision.py`) | none | localize a failure, evaluate a decision, propose a decision | three arms of one comparison | a removal is blamed on the read-side update and nothing else |
| RISI-C assessment (`confidentiality.py`) | none | observer views, leakage comparison | four arms of one comparison | the reported leak is one the observer's view shows |
| Target contracts (`adapters/external.py`, `health.py`) | none (immutable manifests, credentials) | load, verify | campaign commands | closed field sets, digests |
| Canonical JSON, statistics | none | encode, compute | everybody | pure functions of their input |
| Episode engine (`engine.py`) | none of its own | identity-checked snapshot and reset | reference memory | no cross-episode reset |

The hard behaviours are listed with their lines under `hazards` in
`PROJECT.json`. In short: check-then-rename on shared paths (`_atomic_write`,
`create_evidence_bundle`), a cancel record that is polled, requests whose effect
and whose response can part, a service that indexes asynchronously, a `finally`
block that fails, handlers that raise, exceptions that nobody handles, Ctrl-C
around the rename of a bundle, files that are read again after they were checked, a
ledger that must be reassigned, evidence that states its own size, and a replay that
must agree with the transitions it replays.

## 2. Modules

| Module | Models | Composes |
|---|---|---|
| `EvidenceStore` | the abstract promise: a write-once register and truthful reports | |
| `CampaignWorkspace` | the campaign commands as processes over one workspace | implements `EvidenceStore` |
| `KnowledgeExchange` | every request of one world and of an E2 target validation, and the service | implements the `Advance` steps of `CampaignWorkspace` |
| `RunAdmission` | what decides whether `risi run` begins: kernel, loader, run contract, as operators | |
| `GuardedRun` | `risi run` commands with one run ID over one artifact root | extends `RunAdmission`, implements `EvidenceStore` |
| `ArtifactAccounting` | the size accounting of `_prepare_budgeted_evidence` | |
| `BundleReaders` | two finalized bundles, what may happen to them, and every reader | extends `ArtifactAccounting` |
| `ReferenceMemory` | the reference memory, its trace, trace verification and event replay | |
| `CrafAssessment`, `RisiAssessment` | the assessments of `craf.py` and `confidentiality.py` as operators | |
| `ReferenceComparison` | the arms of both reference comparisons, the loader's checks of them, their result and the replay of their bundle | extends `ReferenceMemory` and the assessments |
| `*_proofs` | theorems and proofs about the module of that name | extends it |
| `MC*` | instances for TLC | extends it |

Definitions whose name has an underscore after another definition's name
(`Publish_Adopts`, ...) are mutants: the definition as a plausible bug would
have it. They are used by nothing; substituting one for the definition it
precedes must make TLC report the property `PROJECT.json` pairs it with.

### EvidenceStore

`evidence` is the content at the final path and `report` what each command
reported with success. `Finalize` writes once, `Report` reports what is there.
This is the contract of `create_evidence_bundle` and `recover_existing_result`.

### CampaignWorkspace

A process is one command invocation; `pc` names the file operation or target
exchange it is about to do. Files are variables: `checkpoint`, `cancelFile`,
`deviation`, `preflight`, `bundle`; `kbs` is the set of knowledge bases alive at
the target.

- `_atomic_write` with `overwrite=False` is two steps, the check of `exists()`
  and the rename, so two commands can interleave between them.
- `authorize_campaign` is called at the door (`Start`, `Refuse`) and again inside
  prepare, preflight and execute; `Expire` may happen in between. Validation-only
  (E2) manifests allow three preflight attempts and no execute, E3 manifests one.
- `execute` loops over worlds (`Poll`, `MarkRunning`) and conditions (`CreateKB`,
  `Work`, `DeleteKB`, `NextCondition`). `Work` stands for all the requests within
  one condition; `KnowledgeExchange` has them. A request may take effect and fail
  (`CreateFails`, `DeleteFails`); a malformed reply may also raise an exception no
  handler expects (`uncaught`), and an oracle that names a memory of another world a
  `KeyError` (`lookup`). The delete of the `finally` block runs whatever happened
  and replaces the exception when it fails.
- Finalization is `BundleCheck`, `Publish` (the rename) and `MarkCompleted`; the
  handler is `DeviateCheck` and `DeviateWrite`.
- `WriteFails` and `WriteDenied` are failing writes, `Crash` the death of a
  process anywhere. Ctrl-C within a condition takes the same steps as an
  uncaught exception, elsewhere those of a crash.

Properties: `ClaimsArePublished` (of the checkpoint, `CompletedMeansPublished`, and
of the exit code, `SuccessMeansPublished`), `PublishedRunLeavesNoKnowledgeBase`,
`LateWorkIsBounded`, `RetainedUnlessRaced`, `ReportedPreflightIsRetained`,
`CommandsEnd` and the refinement `StoreSpec`. `met` is a history variable: the commands
that were under way while this one was. Two steps of `_atomic_write` are two steps, so a
retained record can be replaced (`CampaignPreflightRace`); the two properties about
retention say by whom only, a command that was under way together with the record's
author, and that a repeated attempt number is stopped otherwise, before it reports.

### KnowledgeExchange

One command and the service. `workload` is a world of an execute (`_run_world`:
three conditions over two source memories and a pool) or an E2 validation
(`run_e2_target_validation`: clean recreations, then dry runs with the geometry of a
world, an owner inventory before, between and after). One step is one request with
what is made of its answer: `CreateKB`, `Submit`, the polls, `Verify` (the segments
of a document), `Observe` and `Probe` (the retrievals of a checkpoint), `Inspect`,
`DeleteKB`, `ListEmpty`, `Health`, and for each of them how it fails. Of a request
that fails the service may have carried out everything, nothing, or, for a creation,
everything later (`abandoned`, `LateCreate`). Indexing is the service's own business:
`Progress` completes a waiting document or fails it, at any time or never. `kbs`,
`index`, `answer` and `abandoned` are the service's state; it answers a retrieval
with any of the indexed documents.

`transport` is the shipped one or one injected in its place. `request_json` of the
shipped one returns what it parsed frozen: arrays are tuples and nested objects read-only
mappings (`transport.py:211`, `canonical.py:87`). The adapter demands a list or a dict
(`_array`, `_object`, `dify.py:60-69`), so every step that looks into an array or object
of a reply requires `Readable` and otherwise fails as a malformed response: behind the
shipped transport a command gets no further than its first inventory or its first
submission. The properties hold of both; where they are about polls, segments and
retrievals they speak of an adapter whose transport leaves replies as they are, like the
one its tests inject. `MCKnowledgeExchange` narrows the module down to a target where
nothing goes wrong, and the run `TransportReplies` shows that a command fails there.

The verdict of a validation is made of the counts and of whether the target was fit;
health and throughput thresholds are one free choice.

`Workspace` instantiates `CampaignWorkspace` with one process, one world and three
conditions, and `ImplementsWork` says that every step of a world is a step of that
process or leaves the workspace alone: creation, work and reset fail here as they
are taken to fail there. An abandoned creation counts as made, as it does there.

Properties: `ObservedCorpus`, `RecallIsHonest`, `NothingLeftBehind`, `CountsMatch`,
`TimeoutIsReal`, `LeftoverIsNoticed`, `ConversationEnds`, `ImplementsWork`. What an
earlier command's lost creation leaves at the target in the middle of a validation no
reset of the validation takes away, and the validation then ends without a verdict
(`LeftoverIsNoticed`). What a command itself may leave is of the one knowledge base it was
at, and only a failed creation or a failed reset leaves it (`NothingLeftBehind`).

### RunAdmission and GuardedRun

`Admission` is `validate_run` in its order: the safety kernel (`Authorized`: governing
policy, contract, ceilings, approval), the loader (`Loads`), the run contract of the
policy (`CrafContract`, `RisiContract`, `PureReadContract`). A digest is the content
it is of, so a manifest holds the scenario it was made for. A scenario is reduced to
what any of these looks at: size, records, seeds, protocol, which protocols it
configures, whether its fields are sound and its facts typed as the decision
provider expects.

All commands of `GuardedRun` use one run ID, the interesting case: their manifests may
differ. `Start` and `Refuse` are admission; `Recover` is `recover_existing_result`;
`InitialBudget` opens the ledger with the size of the scenario file, which is read
once more and may have been edited (`EditScenario`); `BeginEpisode`, `Retrieve` and
`Decide` are the charged work of every policy's arms (one pure-read episode, three
CRAF arms of two retrievals, four RISI-C arms of three), `Exhaust` the exception of
the ledger, `Reject` a scenario contract that fails in mid-episode; `Measure` is the
outcome of the size accounting; `Check`, `StageFile`, `StageInventory`, `Rename`,
`StageFails` are `create_evidence_bundle`; `Interrupt` and `InterruptRecover` are the
`KeyboardInterrupt` handler, which validates the scenario again. A staged file is in
the set or not; `final` says who renamed, for which manifest, and which files are
there. `calls` counts what was really done and is compared with the ledger `used`.

Properties: `BudgetIsHonest`; `AdmittedWorkFits`, which compares the arithmetic of the
run contract with the loops that do the work; `EvidenceIsWhole` (`NeverPartial`,
`StagingIsTemporary`, `EvidenceIsOfAllArms`); `ExitTellsTheTruth`
(`SuccessMatchesEvidence`, `InterruptedBeforeFinalization`, `FailureLeavesNoEvidence`);
`RunsEnd` and the refinement `StoreSpec`. `InterruptedBeforeFinalization` makes one
exception: when the scenario was edited, the handler's validation fails and a run
whose evidence is finalized is reported as interrupted.

### ArtifactAccounting and BundleReaders

`execution.json` holds the size of the bundle in decimal, and the inventory holds the
size of `execution.json`. `BundleBytes(n)` is the size of the bundle when it reports
`n`: a fixed part (`overhead`, `core`) and the digits of two numbers. The accounting
begins with the guess 0, charges the guess against the approval (`Exhaust`), measures
(`Converge`, `GuessAgain`) and gives up after eight rounds; `create_evidence_bundle`
looks at the size again (`Write`). `SizeIsFound` says that it never gives up, that
nothing it accounted for is too large when written, and that the budget is exhausted
only if no size within the approval reports itself. `Powers` is the set of numbers at
which a decimal gets longer, so the theorem is about every size below a bound that
these powers set.

`BundleReaders` puts two such bundles on disk, of a run or of a campaign. Their
authors are one run written twice, or two runs that share their ID.
`Disturb` is what happens to files: damage of the same length or longer, loss, a file
of the other bundle in place of this one's, an unlisted file, a file and its entry
removed together, an inventory lost, relabelled or made anew. A reader is a plan of
jobs that read one file per step, so the disk may change between any two reads:
`ReadInventory`, `VerifyEntry`, `List` are `verify_evidence_bundle`; `LoadFile` and
`Anchors` are `_inspect_verified`, which reads the files again; `LoadAgain` the third
read of a recovery; comparisons read both bundles in the order of the code; `Counts`
the replay of a campaign.

Properties: `AcceptedWasIntact` (a bundle that is accepted matched its inventory when
the reader began, or was changed under it), `UndisturbedIsAccepted` (writer and reader
agree on every size), `ResultIsOfOneRun` (`InspectedIsOneRun`, `ReportedIsOneRun`, `RecoveredIsOwn`),
`EqualMeansSame`. `ReportedIsOneRun` needs no quiet disk: what an inspection or a
comparison has loaded agrees in itself although files were replaced between their
verification and their second read. A recovery reads `execution.json` once more behind
all checks, so of a disturbed one `RecoveredIsOwn` says only that its manifest was the one
asked for. `AcceptedWasIntact` exempts files in subdirectories that are named
`inventory.json`: the readers pass them over.

### ReferenceMemory

The log is a pair of state and trace and every operation appends to it by
`Commit`, as every method of the adapter does by `_commit_event`. A hash is the
value it hashes, so the comparison of hashes is the comparison of states. A query
carries its candidates in the order of their scores; access control and lexical
scoring are in that order, validity in time is modelled. `Verified` is
`verify_trace`, `Replayed` is `_replay_events` and reads only payloads and the
recorded states, as the code does.

### CrafAssessment, RisiAssessment, ReferenceComparison

A scenario is a record of what decides an outcome: which memory the evaluator
calls critical and which one the decision requires, the queries and what they
match, the facts, the safe actions. `LoaderAccepts` is what the loader checks of the
two protocols against memories and principals; only scenarios it accepts begin.
`CrafArm` and `RisiArm` are one arm each, `_execute_craf_arm` and
`_execute_risi_c_arm`: a new memory on the shared initial state (`Begun`), the
arm's policy, its retrievals with their contexts (`Asked`, the same `Retrieved` the
memory's own action uses), the decision, its evaluation, the events that close the
episode. An arm whose interaction does not isolate the memory it is meant to touch
raises and the run is `invalid`; so does a scenario that marks no memory or several as
critical, or one without the protection label (`Labelled`, `Refuse`); facts of another
type than the decision provider needs end the command (`crashed`). `Compare` assesses the arms. `Replay` is
`replay_bundle`: traces and transitions again, retained outputs against events, the
CRAF localization from the text of the context, the CRAF result by other conditions
than the runner's, the RISI-C result by the assessment made anew. A memory in
`mentions` holds the bracketed name of the critical memory, or the canary, in its
content: serialized contexts and views are searched as text.

The budget is left out, since `GuardedRun` has it, and so are the arms' files: what
is retained of an arm is its record in `arms`.

Properties: `FailureIsInTheFile`, `RecoveryIsEclipse` (`RecoveredMeansEclipsed`,
`ProtectedArmIsControl`), `LeakIsReal`, `HiddenIsContained` (`PureReadIsSilent`,
`DecisionIsUnaffected`), `ReplayAgrees`. `FailureIsInTheFile` names what the loader lets
pass and a run does not, and when the run finds it out: not exactly one critical memory or
an unlabelled one, an interaction whose query does not isolate its memory, ill-typed
facts. It says that there is nothing else, no policy of an arm and no order of arms, and
that a concluded comparison had none of them. `RecoveredMeansEclipsed` is about the memory
the decision requires: nothing in the loader ties it to the critical one, of which it only
says that the vulnerable arm went without it. `DecisionIsUnaffected` leaves out a decision
that asks as the observer, whose query the shared counter reorders. `ReplayAgrees` names
the two kinds of finalized comparison that the replay rejects, an unsafe region decision
and a context in which another memory mentions the critical one.

## 3. What the runs check

| Run | Instance | Shows |
|---|---|---|
| `CampaignCommands` | two commands, two worlds of three conditions, crashes and failing writes, fairness | no interleaving makes a loser of the race to finalize claim or replace the winner's evidence; a published run left no knowledge base; after a cancel record at most three target operations per condition of one world begin; the workspace implements `EvidenceStore`; a retained record is replaced only by a command that raced its author, and a reported preflight is on disk or lost to such a command; every command ends |
| `KnowledgeExchange` | a world, or a validation, against a service that indexes when it likes, fails, answers late or never | queries meet exactly the documents of their checkpoint, timeouts are real, what an earlier command left behind is noticed, what this one leaves is of its last knowledge base, the counts come out right, every conversation ends, a world is the step the campaign takes it for |
| `GuardedRuns` | two commands, eight scenario files, fourteen manifests, one edit of the scenario file, fairness | bundles are whole and of all arms; exit codes tell the truth; the ledger is honest; admitted work fits; `EvidenceStore` is implemented; every command ends |
| `BundleReaders` | sizes around every length at which a digit is added, three runs of two IDs, two disturbances | the accounting finds the size; what readers accept was intact, what is undisturbed is accepted, equality, inspection and recovery mean what they say |
| `MemoryTraces` | three memories, three queries, six policies, five events | traces verify, replay agrees, removals have causes, protection restores the control |
| `ReferenceComparison` | 7,931 CRAF and RISI-C scenarios that the loader accepts, over eight memories | an accepted scenario fails only for what its file shows, a reported recovery is in the traces, ablation arms ablate, the observer's advantage is a real one, replay agrees with the runner |
| `TransportReplies` | a target where nothing goes wrong | behind the shipped transport the adapter cannot read what the architecture page says it may ask for |
| `CampaignCancelNext`, `CampaignPreflightRace`, `CampaignDeviation`, `RunTraceback`, `ComparisonDecisions` | small instances | five places where a document says more than the code does; see `findings` in `PROJECT.json` |

Bounds. Two commands are enough for every race between a check and a rename: each of
them finds the other before, within and after its own. Two worlds distinguish the
boundary between worlds, the only place where the cancel record is read, from the end
of a world. Three conditions are the program's own number.

In `KnowledgeExchange` a world has its two sources and a pool of two memories
observed at both sizes, a wait has three polls, and a validation recreates twice and
runs two dry runs: one of each kind that has a next, and one that has none. A limit of
three polls has a first, a middle and a last one.

In `GuardedRuns` two evidence files besides the inventory show a bundle with a part
missing. Arms and retrievals are the program's own numbers. The manifests fit their
scenario exactly, are a step or a retrieval too tight, exceed a ceiling, name another
policy's scenario or a seed it does not have; the approvals cover a manifest or not.
Two sizes of evidence are below and above the approval. `MaxEdits` 1 is one edit or
removal of the scenario file, between any two reads of it.

In `BundleReaders` every size at which the digits of the total or of `execution.json`
grow, and every approval next to it, is tried; disturbances are tried for one size,
where both lengths are at an edge of their digits. Two disturbances allow a change
that hides another one (a file is exchanged and the inventory made anew) and one
before and one between reads.

Five events of a memory are enough for a policy, a trigger's retrieval, its
read-side update, and a later query with its set change; `MaxSequence` bounds when
a new operation may start, not how many events it records. `MaxTime` 1 makes one
memory expire. The scenarios
of the comparisons vary one or two memories in every role: critical and required
the same or not, one, none or several, labelled or not, valid or not, rankings that meet the trigger, the
memory or both, observers that see one signal, the other or both, any set of safe
actions; and files that differ from an accepted one in a single point, for each check
of the loader. Every classification the runner can give an arm or a pair occurs among
them. A run of a scenario is deterministic, so their product is the instance.
Symmetry is used for commands, never with a liveness property.

Fairness. `CommandsEnd` and `RunsEnd` assume weak fairness of each command's own
next step. The program is synchronous and single-threaded, takes no lock, bounds
each request by a ten-second deadline without retries and each indexing wait by
300 polls, so a started command always has a next step it will take. Nothing is
assumed about success: a fair behaviour may fail at every request. Starting a
command, interrupting it and crashing are not fair. A command that waits for
nothing can only fail to end by a missing case, which is what the mutants of
these properties are. `ConversationEnds` assumes the same of the command and nothing
of the service, which may index a document never: the bound on the polls is what ends
the wait, and its mutant forgets to count them.

Terminal states. When every command has ended the model stutters (`Rest`, `Finished`);
deadlock is checked in every run.

## 4. What is proved

TLAPS proves, for any number of commands, worlds, conditions, manifests, scenarios,
sizes, memories and policies:

- `CampaignWorkspace_proofs`: `TypeCorrect`, `ClaimsCorrect`, `ResetCorrect`,
  `CancelCorrect`, the refinement `EvidenceCorrect`, `RetentionCorrect` and
  `ReportsCorrect`. The
  inductive invariant `IInv` adds to the properties that a publisher is past its
  own publication (`PublisherFinalizing`), that a live knowledge base belongs to
  the condition its owner is working at or to an owner that failed
  (`NoStrayKnowledgeBase`), and how many operations an execute may have begun
  late at each place (`LateWorkAccount`: three per condition behind it, plus one
  or two in the condition it is in). The last is why the bound is three times the
  conditions and not less. For the last two
  theorems `RetentionInv` adds that commands under way together have met (`UnderWayMet`),
  that what a non-overwriting write looked for is absent still or by a command met since
  (`AbsentOrMet`), and that all preflights of one attempt that passed their check before
  the first of them wrote have met one another (`RetainingInv`), so whoever checks later
  finds the record and reports nothing.
- `GuardedRun_proofs`: `TypeCorrect`, `WholenessCorrect`, `ExitCorrect`,
  `BudgetCorrect`, `AdmissionCorrect` and the refinement `EvidenceCorrect`. `IInv` adds
  that what is about to be renamed is whole (`RenameIsWhole`), that the author of the
  bundle is past its rename and whoever is about to report is the author
  (`AuthorIsDone`), that a command under way was admitted for the scenario its manifest
  names (`AdmittedUnderWay`), and how the work done so far relates to the arm and the
  query a command is at (`WorkInStep`). From the last two and the formulas of the run
  contract follows that the work fits (`AdmittedWorkFits`) and, at the end of the last
  arm, that all of it was done.
- `ArtifactAccounting_proofs`: `AccountingCorrect` and `SizeCorrect`. The argument:
  the measure of a size grows with it, but more slowly, since a tenfold size adds one
  digit to each of two numbers. Hence the third measure after the guess 0 is its own
  measure whatever the sizes (`GuessesInTurn`), the loop needs at most four of its
  eight rounds, and no guess ever passes a size that reports itself (`NoOvershoot`), so
  the one it finds is the least and exhaustion is real.
- `BundleReaders_proofs`: `ReadersTyped`, `ReadersAcceptIntact`,
  `ReadersAcceptUndisturbed`, `ReadersReportOneRun` and `ReadersCompareTruly`. A reader is
  a plan of jobs, and `ReadersInv` says what each job that is done has established
  (`JobsDone`, `JobUnderWay`, `LoadedFromDisk`): something about the disk when the reader
  began, for which no disturbance may restore a file or take an added one away
  (`OnlyDecays`), and something about the disk as it is, if nothing has disturbed it since
  (`quiet`). Comparing the disk with the one the reader began with would not do for the
  latter: of two relabellings the second can undo the first between two reads.
- `ReferenceMemory_proofs`: `TypeCorrect`, `TraceCorrect`, `CauseCorrect`, `ReplayCorrect`
  and `ProtectionCorrect`. The invariant `TraceInv` says of the log that it is numbered
  from its base, chained, continuous and ends where the state is (`Good`); `ToldInv` that
  each event's payload describes its transition and that every suppressed memory has its
  cause before it (`Told`). An episode begun later than a fresh snapshot fails
  verification at its first event. One lemma about `Commit` carries every operation, a retrieval
  with its up to three events included. Replay is a fold over the trace: that it follows
  the recorded states, until a clock event rejects the trace for good, is an induction on
  their number, made from the well-founded order of
  strict subsets (`Least`, `NoCounterexample`), and so is what `FlattenSeq` makes of a
  sequence with one element more (`FlattenJoins`, `FlattenAppend`, `FlattenHead`,
  `AmongHead`), which the comparisons need.
- `ReferenceComparison_proofs`: `ComparisonTyped`, `AcceptanceCorrect`, `EclipseCorrect`,
  `LeakCorrect`, `HiddenCorrect` and `ReplayAgreement`. `ComparisonInv` is short: the arms
  are the outputs that the scenario determines, one by one, on the one initial state, and
  the verdicts are of these arms. The work is in what an arm's log is. `AskedAnswers` says
  what a query does to the state (`Answered`) and what it leaves in the trace (`Traced`),
  and the log of every arm is a good one that tells of its states and never of the clock
  (`Kept`), from which `ReplayAgreement` takes the replay of its transitions from
  `ReferenceMemory_proofs`. `PayloadsAppend` and `AskedReads` read results, contexts and
  decisions back from the trace. `LeakCorrect` needs that a view which does not depend on
  the counter tells nothing (`SameViewTellsNothing`): two right predictions or two wrong
  ones need two views, and only the canary's retrieval makes two. `EclipseCorrect` needs that
  the decision is safe or not by the required memory alone (`DecisionByRequired`).
  `AcceptanceCorrect` needs that whether an arm isolates its memory is a matter of its
  query on the initial state and not of the arm's policy (`IsolatesByQuery`).
- `KnowledgeExchange_proofs`: `TypeCorrect`, `CorpusCorrect`, `RecallCorrect`,
  `CleanCorrect`, `CountsCorrect`, `TimeoutCorrect` and `WorkCorrect`, of which the last
  two are about steps. `IInv` says at each place what is left to be done (`PlaceInv`), what the
  service holds and has indexed (`CorpusInv`), what the map of documents contains
  (`MapInv`), how much of the oracle a world has confirmed by then (`OracleInv`: its
  first condition holds its sources and nothing else, so whoever is past its queries
  has an oracle of this world), which knowledge bases may still be the command's
  (`TargetInv`), and how many retrievals the checkpoints and conditions behind have made
  (`AccountInv`), where a validation begins anew with every scenario of three conditions.
  `WorkCorrect` is the refinement: the image of a conversation is where the campaign is,
  what it has in flight and told, and what it has at the target. Steps that leave the
  image alone are none of the campaign (`Unseen`), one lemma each (`SeenAs...`) says
  which change of it is which step, and `WorkStep` goes through the steps of a world.
  `TargetInv` is what it takes: a knowledge base that is deleted must not be one that a
  lost request may yet create.

Assumptions are the named ones of the modules: `None` is none of the values it
marks the absence of, the inventory is not an evidence file, there is at least
one world and one condition, limits are positive, a manifest names a scenario file,
the powers at which decimals grow are at least tenfold apart and at most eight (sizes
below a billion; the ceiling is twenty million), the loop has its eight rounds, logical
time is a natural number. `RunAssumption`, `RecordAssumption`: "none" is no run's ID
or scenario, and `None` no record of a preflight. `NoteAssumption`: an event type that only records is none of those replay
interprets. `PolicyAssumption`: a policy has a name and a top-k, and the
initial one is valid (the adapter's constructor refuses any other). `ReadsAssumption`,
`ArmAssumption`: queries ask for a number of memories and are answered from what their
principal may read, and the policies the comparisons configure are policies.
`RejectedAssumption`: the replay's rejection is no state.
TLC evaluates each of them.

Every invariant and every action property that a passing run checks is stated by one of
these theorems, and so are the three refinements. Only model-checked: the liveness
properties `CommandsEnd`, `RunsEnd` and `ConversationEnds`, because the prover has neither
fairness arguments over enabledness nor `ENABLED`; for the same reason `LeftoverIsNoticed`. Induction is available where it is over
numbers or finite sets and its property can be written as a set; a theorem about every
recursive definition cannot be, since the library's induction theorems take an operator.
The runs that expect a violation have nothing to prove.

## 5. What is not modelled

- Hashing, canonical encoding, JSON parsing, field checks of manifests,
  scenarios and credentials: pure functions of immutable inputs. A malformed
  input is a refusal; damaged content says of itself that it is nobody's.
- Reason codes of the safety kernel, path boundaries and symbolic links: the kernel's
  verdict is modelled, not which of several reasons it names.
- TLS, routes, size ceilings: checks of a single request, abstracted to its
  outcome.
- The list of differences that a comparison prints, report text, output formats,
  statistics over final counts.
- The obligation provider and its decision: runs without a comparison end in a
  decision that is charged and not looked at.
- External target contracts (`adapters/external.py`, `health.py`): immutable manifests
  and field checks. The episode engine (`engine.py`): an identity check around
  operations `ReferenceMemory` has, used by tests only.
- Failures of the file system other than those of `WriteFails`, `WriteDenied` and
  `StageFails`: a `PermissionError` while a deviation is written, an artifact root that
  cannot be created, an `OSError` while a file is read whose path was just checked
  (`artifacts.py:246`), which leaves a recovery as it is. A second Ctrl-C inside the
  handler of the first. None of them writes anything, so what they leave behind is what a
  crash at the same place leaves; the exit codes they end with are not modelled.
- `status` and `inspect` of a campaign: they read and print.
- The replay of a campaign bundle compares the campaign ID of the result, never that
  of the manifest, with the verified one. `Counts` models it; which of the two a
  reader may rely on is said nowhere, so no property is about it.

## 6. Plan

Done: every module of the table above, with its runs; the proofs of section 4.

Next, in this order, proofs:

1. The assessments on their own: every combination of evidence has one classification,
   and a loss is localized at the first stage that lost the memory. In the comparison they
   are only met with preserved sources.
2. Two steps that one module takes for granted and another takes apart, as
   `ImplementsWork` does for a world: `Measure` of `GuardedRun` by `ArtifactAccounting`,
   `Recover` of `GuardedRun` by the recovery of `BundleReaders`.
