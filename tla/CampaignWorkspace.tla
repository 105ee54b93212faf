------------------------- MODULE CampaignWorkspace -------------------------
(***************************************************************************)
(* The lifecycle of one guarded external-target campaign: several operator *)
(* commands (`risi campaign prepare | preflight | cancel | execute`), each *)
(* a process of its own, sharing the files of one workspace, one artifact  *)
(* root and one knowledge-base target.  A step is one file operation or    *)
(* one exchange with the target, so that steps of different commands       *)
(* interleave exactly where the program gives them the chance.             *)
(*                                                                         *)
(* Source: src/src/risi/campaign.py and the campaign commands of           *)
(* src/src/risi/cli.py.                                                    *)
(***************************************************************************)
EXTENDS Integers, FiniteSets

CONSTANTS
    Process,         \* command invocations; each runs one command
    None,            \* absence of a file
    NumWorlds,       \* worlds of the campaign manifest (330 in the design)
    NumConditions    \* conditions of a world: baseline, benign, targeted

ASSUME NoneAssumption == None \notin Process
ASSUME NumWorldsAssumption == NumWorlds \in Nat \ {0}
ASSUME NumConditionsAssumption == NumConditions \in Nat \ {0}

VARIABLES
    validationOnly, \* an E2 manifest, which can never execute a campaign?
    pc,          \* where each command is
    cmd,         \* which command a process runs
    attempt,     \* the --attempt number of a preflight
    met,         \* history: the commands that were under way while this one was
    world,       \* index of the world an execute is at
    cond,        \* index of the condition within that world
    exc,         \* the exception in flight in an execute
    exit,        \* how a command ended
    contacted,   \* has the command sent anything to the target?
    late,        \* target operations it began after the cancel record existed
    checkpoint,  \* <campaign>.checkpoint.json
    cancelFile,  \* <campaign>.cancel
    deviation,   \* <campaign>.deviation.json
    preflight,   \* <campaign>.preflight-attempt-<n>.json, per n
    bundle,      \* the evidence bundle: the process that published it
    kbs,         \* knowledge bases alive at the target
    expired      \* has the approval's expiry date passed?

local    == <<validationOnly, pc, cmd, attempt, met, world, cond, exc, exit,
              contacted, late>>
files    == <<checkpoint, cancelFile, deviation, preflight, bundle>>
vars     == <<local, files, kbs, expired>>
args     == <<validationOnly, cmd, attempt, met>>
position == <<world, cond>>
traffic  == <<contacted, late>>

\* The ceiling of an approval's attempts.
MaxAttempts == IF validationOnly THEN 3 ELSE 1
Attempts    == 1 .. 3

Commands == {"prepare", "preflight", "cancel", "execute"}
Entry    == [prepare |-> "prepare", preflight |-> "probe",
             cancel |-> "cancel", execute |-> "admit"]

InWorldLabels == {"mark", "create", "work", "delete"}
Labels == {"idle", "ended", "prepare", "prepareWrite", "cancel", "cancelWrite",
           "probe", "retain", "retainFailed", "retainWrite", "retainFailedWrite",
           "admit", "poll", "publish", "complete", "deviate", "deviateWrite"}
          \cup InWorldLabels

Exceptions == {"none", "cancelled", "transport", "input", "permission", "uncaught",
               "lookup"}
Exits      == {"none", "ok", "invalid", "blocked", "execution_failure", "crashed"}

KnowledgeBases == Process \X (0 .. NumWorlds - 1) \X (0 .. NumConditions - 1)
Checkpoints == [phase : {"prepared", "running", "completed"}, by : Process,
                next : 0 .. NumWorlds]
Deviations  == [phase : {"cancelled", "failed"}, by : Process]
Preflights  == [passed : BOOLEAN, by : Process]

\* A file that is there is never mistaken for an absent one.
ASSUME RecordAssumption == None \notin Preflights

Init ==
    /\ validationOnly \in BOOLEAN
    /\ pc = [p \in Process |-> "idle"]
    /\ cmd = [p \in Process |-> "none"]
    /\ attempt = [p \in Process |-> 0]
    /\ met = [p \in Process |-> {}]
    /\ world = [p \in Process |-> 0]
    /\ cond = [p \in Process |-> 0]
    /\ exc = [p \in Process |-> "none"]
    /\ exit = [p \in Process |-> "none"]
    /\ contacted = [p \in Process |-> FALSE]
    /\ late = [p \in Process |-> 0]
    /\ checkpoint = None
    /\ cancelFile = FALSE
    /\ deviation = None
    /\ preflight = [a \in Attempts |-> None]
    /\ bundle = None
    /\ kbs = {}
    /\ expired = FALSE

----------------------------------------------------------------------------
\* Control helpers.

Goto(p, label) ==
    /\ pc' = [pc EXCEPT ![p] = label]
    /\ UNCHANGED exit

Exit(p, code) ==
    /\ pc' = [pc EXCEPT ![p] = "ended"]
    /\ exit' = [exit EXCEPT ![p] = code]

Raise(p, e) == exc' = [exc EXCEPT ![p] = e]

Contact(p) ==
    /\ contacted' = [contacted EXCEPT ![p] = TRUE]
    /\ late' = [late EXCEPT ![p] = IF cancelFile THEN @ + 1 ELSE @]

\* The commands that have begun and not ended.
UnderWay == {p \in Process : pc[p] \notin {"idle", "ended"}}

\* The knowledge base an execute is working with.
Current(p) == <<p, world[p], cond[p]>>

\* Mutant: a cancelled run reports success.
ExitCode_CancelledIsOk(e) ==
    CASE e = "cancelled"  -> "ok"
      [] e = "transport"  -> "execution_failure"
      [] e = "permission" -> "blocked"
      [] OTHER            -> "invalid"

\* The command's exit code for the exception that leaves `execute`.
ExitCode(e) ==
    CASE e \in {"cancelled", "transport"} -> "execution_failure"
      [] e = "permission"                 -> "blocked"
      [] OTHER                            -> "invalid"

----------------------------------------------------------------------------
\* Every command first loads its contracts and asks authorize_campaign.

Start(p, c) ==
    /\ pc[p] = "idle"
    /\ ~ expired
    /\ c = "execute" => ~ validationOnly
    /\ cmd' = [cmd EXCEPT ![p] = c]
    /\ IF c = "preflight"
       THEN \E a \in 1 .. MaxAttempts : attempt' = [attempt EXCEPT ![p] = a]
       ELSE UNCHANGED attempt
    /\ met' = [q \in Process |-> CASE q = p          -> UnderWay
                                  [] q \in UnderWay -> met[q] \cup {p}
                                  [] OTHER          -> met[q]]
    /\ Goto(p, Entry[c])
    /\ UNCHANGED <<validationOnly, position, exc, traffic, files, kbs, expired>>

\* Refused at the door: expired, validation-only, attempt above the ceiling.
Refuse(p, c) ==
    /\ pc[p] = "idle"
    /\ cmd' = [cmd EXCEPT ![p] = c]
    /\ \/ /\ expired \/ (c = "execute" /\ validationOnly)
          /\ Exit(p, "blocked")
       \/ /\ c = "preflight"
          /\ Exit(p, "invalid")
    /\ UNCHANGED <<validationOnly, attempt, met, position, exc, traffic, files,
                   kbs, expired>>

----------------------------------------------------------------------------
\* prepare: authorize again, then _atomic_write(..., overwrite=False), which
\* looks for the file first and renames over it later.

PrepareCheck(p) ==
    /\ pc[p] = "prepare"
    /\ IF expired \/ checkpoint # None
       THEN Exit(p, "invalid")
       ELSE Goto(p, "prepareWrite")
    /\ UNCHANGED <<args, position, exc, traffic, files, kbs, expired>>

PrepareWrite(p) ==
    /\ pc[p] = "prepareWrite"
    /\ checkpoint' = [phase |-> "prepared", by |-> p, next |-> 0]
    /\ Exit(p, "ok")
    /\ UNCHANGED <<args, position, exc, traffic, cancelFile, deviation,
                   preflight, bundle, kbs, expired>>

----------------------------------------------------------------------------
\* cancel: one more non-overwriting write.

CancelCheck(p) ==
    /\ pc[p] = "cancel"
    /\ IF cancelFile THEN Exit(p, "invalid") ELSE Goto(p, "cancelWrite")
    /\ UNCHANGED <<args, position, exc, traffic, files, kbs, expired>>

CancelWrite(p) ==
    /\ pc[p] = "cancelWrite"
    /\ cancelFile' = TRUE
    /\ Exit(p, "ok")
    /\ UNCHANGED <<args, position, exc, traffic, checkpoint, deviation,
                   preflight, bundle, kbs, expired>>

----------------------------------------------------------------------------
\* preflight: contact the target, then retain the numbered result.

Probe(p) ==
    /\ pc[p] = "probe"
    /\ ~ expired
    /\ Contact(p)
    /\ \E next \in {"retain", "retainFailed"} : Goto(p, next)
    /\ UNCHANGED <<args, position, exc, files, kbs, expired>>

\* A reply that the JSON freezer rejects escapes as a ValueError.
ProbeUncaught(p) ==
    /\ pc[p] = "probe"
    /\ ~ expired
    /\ Contact(p)
    /\ Exit(p, "invalid")
    /\ UNCHANGED <<args, position, exc, files, kbs, expired>>

\* Expired since the command was admitted: nothing is sent, the result fails.
ProbeUnauthorized(p) ==
    /\ pc[p] = "probe"
    /\ expired
    /\ Goto(p, "retainFailed")
    /\ UNCHANGED <<args, position, exc, traffic, files, kbs, expired>>

\* Mutant: the retained result is not looked for.
RetainCheck_Overwrites(p) ==
    /\ pc[p] \in {"retain", "retainFailed"}
    /\ Goto(p, IF pc[p] = "retain" THEN "retainWrite" ELSE "retainFailedWrite")
    /\ UNCHANGED <<args, position, exc, traffic, files, kbs, expired>>

RetainCheck(p) ==
    /\ pc[p] \in {"retain", "retainFailed"}
    /\ IF preflight[attempt[p]] # None
       THEN Exit(p, "invalid")
       ELSE Goto(p, IF pc[p] = "retain" THEN "retainWrite" ELSE "retainFailedWrite")
    /\ UNCHANGED <<args, position, exc, traffic, files, kbs, expired>>

\* Mutant: the attempt number is missing from the path.
RetainWrite_Unnumbered(p) ==
    /\ pc[p] \in {"retainWrite", "retainFailedWrite"}
    /\ LET ok == pc[p] = "retainWrite"
       IN  /\ preflight' = [preflight EXCEPT ![1] = [passed |-> ok, by |-> p]]
           /\ Exit(p, IF ok THEN "ok" ELSE "execution_failure")
    /\ UNCHANGED <<args, position, exc, traffic, checkpoint, cancelFile,
                   deviation, bundle, kbs, expired>>

RetainWrite(p) ==
    /\ pc[p] \in {"retainWrite", "retainFailedWrite"}
    /\ LET ok == pc[p] = "retainWrite"
       IN  /\ preflight' = [preflight EXCEPT ![attempt[p]] = [passed |-> ok, by |-> p]]
           /\ Exit(p, IF ok THEN "ok" ELSE "execution_failure")
    /\ UNCHANGED <<args, position, exc, traffic, checkpoint, cancelFile,
                   deviation, bundle, kbs, expired>>

----------------------------------------------------------------------------
\* execute: the loop over worlds.

Admit(p) ==
    /\ pc[p] = "admit"
    /\ IF expired THEN Exit(p, "blocked") ELSE Goto(p, "poll")
    /\ UNCHANGED <<args, position, exc, traffic, files, kbs, expired>>

\* Inventory, record counts or record fields differ from the manifest.
AdmitInvalid(p) ==
    /\ pc[p] = "admit"
    /\ Exit(p, "invalid")
    /\ UNCHANGED <<args, position, exc, traffic, files, kbs, expired>>

\* Mutant: the cancel record is looked for before the first world only.
Poll_OnlyOnce(p) ==
    /\ pc[p] = "poll"
    /\ world[p] < NumWorlds
    /\ IF cancelFile /\ world[p] = 0
       THEN Raise(p, "cancelled") /\ Goto(p, "deviate")
       ELSE UNCHANGED exc /\ Goto(p, "mark")
    /\ UNCHANGED <<args, position, traffic, files, kbs, expired>>

\* The only place a running execute looks for the cancel record.
Poll(p) ==
    /\ pc[p] = "poll"
    /\ world[p] < NumWorlds
    /\ IF cancelFile
       THEN Raise(p, "cancelled") /\ Goto(p, "deviate")
       ELSE UNCHANGED exc /\ Goto(p, "mark")
    /\ UNCHANGED <<args, position, traffic, files, kbs, expired>>

MarkRunning(p) ==
    /\ pc[p] = "mark"
    /\ checkpoint' = [phase |-> "running", by |-> p, next |-> world[p]]
    /\ Goto(p, "create")
    /\ UNCHANGED <<args, position, exc, traffic, cancelFile, deviation,
                   preflight, bundle, kbs, expired>>

\* The evaluator's oracle is for another world.
MismatchedOracle(p) ==
    /\ pc[p] = "create"
    /\ cond[p] = 0
    /\ Raise(p, "input")
    /\ Goto(p, "deviate")
    /\ UNCHANGED <<args, position, traffic, files, kbs, expired>>

CreateKB(p) ==
    /\ pc[p] = "create"
    /\ Contact(p)
    /\ kbs' = kbs \cup {Current(p)}
    /\ Goto(p, "work")
    /\ UNCHANGED <<args, position, exc, files, expired>>

\* The create request fails, with or without having taken effect: outside the
\* try block, so nothing deletes what a lost response left behind.
CreateFails(p) ==
    /\ pc[p] = "create"
    /\ Contact(p)
    /\ kbs' \in {kbs, kbs \cup {Current(p)}}
    /\ \/ Raise(p, "transport") /\ Goto(p, "deviate")
       \/ Raise(p, "uncaught") /\ Exit(p, "invalid")
    /\ UNCHANGED <<args, position, files, expired>>

\* Ingest, index, observe and inspect one condition.  The oracle may name a
\* memory that the condition does not hold: a KeyError that nothing catches.
Work(p) ==
    /\ pc[p] = "work"
    /\ Contact(p)
    /\ \E e \in {"none", "transport", "uncaught", "lookup"} : Raise(p, e)
    /\ Goto(p, "delete")
    /\ UNCHANGED <<args, position, files, kbs, expired>>

\* Mutant: one condition too many.
NextCondition_OneMore(p) ==
    IF cond[p] + 1 <= NumConditions
    THEN /\ cond' = [cond EXCEPT ![p] = @ + 1]
         /\ UNCHANGED world
         /\ Goto(p, "create")
    ELSE /\ cond' = [cond EXCEPT ![p] = 0]
         /\ world' = [world EXCEPT ![p] = @ + 1]
         /\ Goto(p, "poll")

NextCondition(p) ==
    IF cond[p] + 1 < NumConditions
    THEN /\ cond' = [cond EXCEPT ![p] = @ + 1]
         /\ UNCHANGED world
         /\ Goto(p, "create")
    ELSE /\ cond' = [cond EXCEPT ![p] = 0]
         /\ world' = [world EXCEPT ![p] = @ + 1]
         /\ Goto(p, "poll")

\* The finally block: the reset runs whatever the condition's outcome was.
DeleteKB(p) ==
    /\ pc[p] = "delete"
    /\ Contact(p)
    /\ kbs' = kbs \ {Current(p)}
    /\ \/ exc[p] = "none" /\ NextCondition(p)
       \/ exc[p] = "transport" /\ Goto(p, "deviate") /\ UNCHANGED position
       \/ exc[p] = "uncaught" /\ Exit(p, "invalid") /\ UNCHANGED position
       \/ exc[p] = "lookup" /\ Exit(p, "crashed") /\ UNCHANGED position
    /\ UNCHANGED <<args, exc, files, expired>>

\* Mutant: a failed reset is ignored.
DeleteFails_Ignored(p) ==
    /\ pc[p] = "delete"
    /\ exc[p] = "none"
    /\ Contact(p)
    /\ kbs' \in {kbs, kbs \ {Current(p)}}
    /\ NextCondition(p)
    /\ UNCHANGED <<args, exc, files, expired>>

\* A failed reset replaces whatever exception was in flight.
DeleteFails(p) ==
    /\ pc[p] = "delete"
    /\ Contact(p)
    /\ kbs' \in {kbs, kbs \ {Current(p)}}
    /\ Raise(p, "transport")
    /\ Goto(p, "deviate")
    /\ UNCHANGED <<args, position, files, expired>>

----------------------------------------------------------------------------
\* execute: finalization.

BundleCheck(p) ==
    /\ pc[p] = "poll"
    /\ world[p] = NumWorlds
    /\ IF bundle # None THEN Exit(p, "invalid") ELSE Goto(p, "publish")
    /\ UNCHANGED <<args, position, exc, traffic, files, kbs, expired>>

\* Mutant: the rename replaces whatever is there.
Publish_Replaces(p) ==
    /\ pc[p] = "publish"
    /\ bundle' = p
    /\ Goto(p, "complete")
    /\ UNCHANGED <<args, position, exc, traffic, checkpoint, cancelFile,
                   deviation, preflight, kbs, expired>>

\* Mutant: losing the rename is taken for success.
Publish_Adopts(p) ==
    /\ pc[p] = "publish"
    /\ bundle' = IF bundle = None THEN p ELSE bundle
    /\ Goto(p, "complete")
    /\ UNCHANGED <<args, position, exc, traffic, checkpoint, cancelFile,
                   deviation, preflight, kbs, expired>>

\* The staged directory is renamed over the final path; a rename over a
\* non-empty directory fails and leaves the handler as an ArtifactError.
Publish(p) ==
    /\ pc[p] = "publish"
    /\ IF bundle = None
       THEN bundle' = p /\ Goto(p, "complete")
       ELSE UNCHANGED bundle /\ Exit(p, "invalid")
    /\ UNCHANGED <<args, position, exc, traffic, checkpoint, cancelFile,
                   deviation, preflight, kbs, expired>>

MarkCompleted(p) ==
    /\ pc[p] = "complete"
    /\ checkpoint' = [phase |-> "completed", by |-> p, next |-> NumWorlds]
    /\ Exit(p, "ok")
    /\ UNCHANGED <<args, position, exc, traffic, cancelFile, deviation,
                   preflight, bundle, kbs, expired>>

\* Mutant: a retained deviation makes the handler wait for it to go away.
DeviateCheck_Waits(p) ==
    /\ pc[p] = "deviate"
    /\ deviation = None
    /\ Goto(p, "deviateWrite")
    /\ UNCHANGED <<args, position, exc, traffic, files, kbs, expired>>

\* The handler's own write is non-overwriting and can raise in its turn.
DeviateCheck(p) ==
    /\ pc[p] = "deviate"
    /\ IF deviation # None THEN Exit(p, "invalid") ELSE Goto(p, "deviateWrite")
    /\ UNCHANGED <<args, position, exc, traffic, files, kbs, expired>>

DeviateWrite(p) ==
    /\ pc[p] = "deviateWrite"
    /\ deviation' = [phase |-> IF exc[p] = "cancelled" THEN "cancelled" ELSE "failed",
                     by |-> p]
    /\ Exit(p, ExitCode(exc[p]))
    /\ UNCHANGED <<args, position, exc, traffic, checkpoint, cancelFile,
                   preflight, bundle, kbs, expired>>

----------------------------------------------------------------------------
\* Failures of the workspace, of the process, and the passing of the date.

\* An OSError other than PermissionError: no file changes, no handler applies.
WriteFails(p) ==
    /\ pc[p] \in {"prepareWrite", "cancelWrite", "retainWrite", "retainFailedWrite",
                  "mark", "publish", "complete", "deviateWrite"}
    /\ Exit(p, "invalid")
    /\ UNCHANGED <<args, position, exc, traffic, files, kbs, expired>>

\* A PermissionError of a checkpoint write is handled as a deviation.
WriteDenied(p) ==
    /\ pc[p] \in {"mark", "complete"}
    /\ Raise(p, "permission")
    /\ Goto(p, "deviate")
    /\ UNCHANGED <<args, position, traffic, files, kbs, expired>>

Crash(p) ==
    /\ pc[p] \notin {"idle", "ended"}
    /\ Exit(p, "crashed")
    /\ UNCHANGED <<args, position, exc, traffic, files, kbs, expired>>

Expire ==
    /\ ~ expired
    /\ expired' = TRUE
    /\ UNCHANGED <<local, files, kbs>>

\* Every command has ended: the workspace is at rest.
Rest ==
    /\ \A p \in Process : pc[p] = "ended"
    /\ UNCHANGED vars

----------------------------------------------------------------------------
\* What a started command does next, its failures included.
Advance(p) ==
    \/ PrepareCheck(p) \/ PrepareWrite(p)
    \/ CancelCheck(p) \/ CancelWrite(p)
    \/ Probe(p) \/ ProbeUncaught(p) \/ ProbeUnauthorized(p)
    \/ RetainCheck(p) \/ RetainWrite(p)
    \/ Admit(p) \/ AdmitInvalid(p) \/ Poll(p) \/ MarkRunning(p)
    \/ MismatchedOracle(p) \/ CreateKB(p) \/ CreateFails(p)
    \/ Work(p) \/ DeleteKB(p) \/ DeleteFails(p)
    \/ BundleCheck(p) \/ Publish(p) \/ MarkCompleted(p)
    \/ DeviateCheck(p) \/ DeviateWrite(p)
    \/ WriteFails(p) \/ WriteDenied(p)

Step(p) ==
    \/ \E c \in Commands : Start(p, c) \/ Refuse(p, c)
    \/ Advance(p)
    \/ Crash(p)

Next == (\E p \in Process : Step(p)) \/ Expire \/ Rest

Spec == Init /\ [][Next]_vars

\* A started command keeps running: the program is synchronous, has no lock to
\* wait for, and bounds every request and every indexing wait by a deadline.
FairSpec == Spec /\ \A p \in Process : WF_vars(Advance(p))

\* One command at a time, as a careful operator would run them.
Alone(p) == \A q \in Process \ {p} : pc[q] \in {"idle", "ended"}

SerialNext == (\E p \in Process : Alone(p) /\ Step(p)) \/ Expire \/ Rest

SerialSpec == Init /\ [][SerialNext]_vars

----------------------------------------------------------------------------
\* Properties.

\* Every variable keeps its type.
TypeOK ==
    /\ validationOnly \in BOOLEAN
    /\ pc \in [Process -> Labels]
    /\ cmd \in [Process -> Commands \cup {"none"}]
    /\ attempt \in [Process -> 0 .. 3]
    /\ met \in [Process -> SUBSET Process]
    /\ world \in [Process -> 0 .. NumWorlds]
    /\ cond \in [Process -> 0 .. NumConditions - 1]
    /\ exc \in [Process -> Exceptions]
    /\ exit \in [Process -> Exits]
    /\ contacted \in [Process -> BOOLEAN]
    /\ late \in [Process -> Nat]
    /\ checkpoint \in Checkpoints \cup {None}
    /\ cancelFile \in BOOLEAN
    /\ deviation \in Deviations \cup {None}
    /\ preflight \in [Attempts -> Preflights \cup {None}]
    /\ bundle \in Process \cup {None}
    /\ kbs \subseteq KnowledgeBases
    /\ expired \in BOOLEAN

\* A checkpoint that says COMPLETED was written by the very command whose
\* evidence is in the bundle, however many commands race to finalize.
CompletedMeansPublished ==
    checkpoint # None =>
        (checkpoint.phase = "completed" => bundle = checkpoint.by)

\* Evidence is published only by a run that returned the target to where it
\* found it: none of the publisher's knowledge bases is left alive.
PublishedRunLeavesNoKnowledgeBase ==
    \A kb \in kbs : bundle # kb[1]

\* `execute` reports success only for its own evidence, and never after it
\* has retained a deviation.
SuccessMeansPublished ==
    \A p \in Process :
        cmd[p] = "execute" /\ exit[p] = "ok" =>
            /\ bundle = p
            /\ deviation # None => deviation.by # p

\* What a campaign claims is about published evidence: the claim that the
\* checkpoint makes, and the one that the exit code makes.
ClaimsArePublished == CompletedMeansPublished /\ SuccessMeansPublished

\* The promise of the cancel record that the code keeps: an execute begins no
\* more target operations after it than the world it is in still needs.
LateWorkIsBounded ==
    \A p \in Process : cmd[p] = "execute" => late[p] <= 3 * NumConditions

\* Looking for a file and renaming over it are two steps, and this is all that it
\* costs: a retained record (a deviation, a numbered preflight result, or a
\* checkpoint that a prepare replaces) is replaced only by a command that was under
\* way at the same time as its author.  The cancel record is never taken back.
RetainedUnlessRaced ==
    [][/\ cancelFile => cancelFile'
       /\ deviation # None /\ deviation' # deviation =>
              deviation.by \in met[deviation'.by]
       /\ \A a \in Attempts :
              preflight[a] # None /\ preflight'[a] # preflight[a] =>
                  preflight[a].by \in met[preflight'[a].by]
       /\ checkpoint # None /\ checkpoint' # checkpoint =>
              (checkpoint'.phase = "prepared" => checkpoint.by \in met[checkpoint'.by])]_vars

\* A preflight that reports its outcome (passed or failed, rather than an error of
\* the command) left exactly that outcome in the file of its attempt, unless a
\* command that it met put its own there: however many race for one attempt number,
\* none that comes later reports anything.
ReportedPreflightIsRetained ==
    \A p \in Process :
        cmd[p] = "preflight" /\ exit[p] \in {"ok", "execution_failure"} =>
            LET record == preflight[attempt[p]]
            IN  /\ record # None
                /\ \/ record = [passed |-> exit[p] = "ok", by |-> p]
                   \/ record.by \in met[p]

\* Every command that starts ends.
CommandsEnd == \A p \in Process : pc[p] # "idle" ~> pc[p] = "ended"

----------------------------------------------------------------------------
\* The campaign implements the write-once evidence store: its evidence is the
\* published bundle, a report is an execute that exits with success.  Evidence
\* is never replaced, not even by a command that looked before it was there.

Store == INSTANCE EvidenceStore
    WITH Writer <- Process, Content <- Process,
         evidence <- bundle,
         report <- [p \in Process |->
                       IF cmd[p] = "execute" /\ exit[p] = "ok" THEN p ELSE None]

StoreSpec == Store!StoreSpec

----------------------------------------------------------------------------
\* The inductive strengthening of the safety properties.

\* A world is run only while one is left.
WorldInRange == \A p \in Process : pc[p] \in InWorldLabels => world[p] < NumWorlds

\* A process is somewhere in its own command.
LabelOfCommand ==
    \A p \in Process :
        /\ pc[p] \in {"prepare", "prepareWrite"} => cmd[p] = "prepare"
        /\ pc[p] \in {"cancel", "cancelWrite"} => cmd[p] = "cancel"
        /\ pc[p] \in {"probe", "retain", "retainFailed", "retainWrite",
                      "retainFailedWrite"} => cmd[p] = "preflight"
        /\ pc[p] \in {"admit", "poll", "mark", "create", "work", "delete", "publish",
                      "complete", "deviate", "deviateWrite"} => cmd[p] = "execute"

\* An exit code is there once a command has ended.
ExitWhenEnded == \A p \in Process : exit[p] # "none" => pc[p] = "ended"

\* The publisher is past its own publication, and whoever is about to write
\* COMPLETED is the publisher.
PublisherFinalizing ==
    \A p \in Process :
        /\ bundle = p => pc[p] \in {"complete", "deviate", "deviateWrite", "ended"}
        /\ pc[p] = "complete" => bundle = p

\* The author of the retained deviation has ended.
DeviatorEnded == deviation # None => pc[deviation.by] = "ended"

\* A live knowledge base is the one its owner is working with, or the leftover
\* of an owner that failed or died; it is never the publisher's.
NoStrayKnowledgeBase ==
    \A kb \in kbs :
        /\ bundle # kb[1]
        /\ pc[kb[1]] \in {"work", "delete", "deviate", "deviateWrite", "ended"}
        /\ pc[kb[1]] \in {"work", "delete"} => kb = Current(kb[1])

\* What an execute may have sent late when it is where it is.
LateWorkAccount ==
    \A p \in Process :
        /\ ~ cancelFile => late[p] = 0
        /\ pc[p] \in {"idle", "admit"} => late[p] = 0
        /\ pc[p] \in {"idle", "admit", "poll", "mark"} => cond[p] = 0
        /\ pc[p] = "mark"   => late[p] = 0
        /\ pc[p] = "create" => late[p] <= 3 * cond[p]
        /\ pc[p] = "work"   => late[p] <= 3 * cond[p] + 1
        /\ pc[p] = "delete" => late[p] <= 3 * cond[p] + 2

IInv ==
    /\ TypeOK
    /\ WorldInRange
    /\ LabelOfCommand
    /\ ExitWhenEnded
    /\ PublisherFinalizing
    /\ DeviatorEnded
    /\ NoStrayKnowledgeBase
    /\ LateWorkAccount
    /\ CompletedMeansPublished
    /\ SuccessMeansPublished
    /\ LateWorkIsBounded

----------------------------------------------------------------------------
\* The strengthening of what holds of retained records.

\* Commands that are under way together have met.
UnderWayMet == \A p \in UnderWay : UnderWay \ {p} \subseteq met[p]

\* What a non-overwriting write looked for is absent still, or by a command that
\* was under way since.
AbsentOrMet ==
    \A p \in Process :
        /\ pc[p] = "prepareWrite" /\ checkpoint # None => checkpoint.by \in met[p]
        /\ pc[p] = "deviateWrite" /\ deviation # None => deviation.by \in met[p]

\* A preflight that found no record of its attempt, and has not failed to write its
\* own: it is about to report its outcome, or has.
Retaining(p) ==
    /\ cmd[p] = "preflight"
    /\ pc[p] \in {"retainWrite", "retainFailedWrite"} \/ exit[p] \in {"ok", "execution_failure"}

\* It has an attempt number, the author of a record is one of them, and all of one
\* attempt were under way when the first of them wrote.
RetainingInv ==
    /\ \A p \in Process :
           cmd[p] = "preflight" /\ exit[p] \notin {"invalid", "blocked"}
               => attempt[p] \in Attempts
    /\ \A a \in Attempts :
           preflight[a] # None =>
               LET w == preflight[a].by
               IN  /\ cmd[w] = "preflight" /\ attempt[w] = a
                   /\ exit[w] = IF preflight[a].passed THEN "ok" ELSE "execution_failure"
    /\ \A p, q \in Process :
           p # q /\ Retaining(p) /\ Retaining(q) /\ attempt[p] = attempt[q] => q \in met[p]

RetentionInv ==
    /\ UnderWayMet
    /\ AbsentOrMet
    /\ RetainingInv
    /\ ReportedPreflightIsRetained

----------------------------------------------------------------------------
\* What the documents say and the code does not do.

\* "A cancel record prevents the next request" (documentation/operator-guide.mdx).
\* One operation is conceded, for a request about to leave when the record came.
CancelPreventsNextRequest ==
    \A p \in Process : cmd[p] = "execute" => late[p] <= 1

\* "retains a numbered, non-overwriting result" (documentation/operator-guide.mdx).
PreflightNonOverwriting ==
    [][\A a \in Attempts : preflight[a] # None => preflight'[a] = preflight[a]]_vars

\* "causes a closed failure and a retained deviation"
\* (documentation/operator-guide.mdx): an execute that failed after contacting
\* the target left a deviation of its own.
FailureRetainsDeviation ==
    \A p \in Process :
        /\ cmd[p] = "execute" /\ contacted[p]
        /\ exit[p] \in {"invalid", "execution_failure", "blocked"}
        => deviation # None /\ deviation.by = p
=============================================================================
