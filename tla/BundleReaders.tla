---------------------------- MODULE BundleReaders ----------------------------
(***************************************************************************)
(* Two finalized evidence bundles on disk, what may happen to them there,  *)
(* and the commands that read them: verify, inspect, compare, the recovery *)
(* of an existing result, and their counterparts for campaign bundles.  A  *)
(* step of a reader is the read of one file, and the disk may change       *)
(* between any two of them.  A digest is the content it is the digest of.  *)
(*                                                                         *)
(* Source: src/src/risi/artifacts.py, src/src/risi/evidence.py and         *)
(* src/src/risi/replay.py.                                                 *)
(***************************************************************************)
EXTENDS ArtifactAccounting, Sequences

CONSTANTS
    Run,          \* runs a bundle may be of: [id, variant, scenario, requests]
    Authors,      \* the runs that wrote the two bundles
    Disturbed,    \* the sizes whose bundles are also disturbed
    MaxChanges    \* changes of the disk

ASSUME AuthorsAssumption == Authors \subseteq [{"a", "b"} -> Run]
ASSUME RunAssumption == \A r \in Run : r.id # "none" /\ r.scenario # "none"
ASSUME DisturbedAssumption == Disturbed \subseteq Sizes /\ MaxChanges \in Nat

VARIABLES
    family,       \* "run" or "campaign"
    author,       \* slot -> the run that wrote the bundle in it
    disk,         \* slot -> its files and its inventory
    changes,      \* changes made to the disk
    kind,         \* what the reader does
    wanted,       \* the run whose result a recovery is to find
    plan,         \* what the reader has yet to do
    todo,         \* files of its current job that it has yet to read
    inv,          \* slot -> the inventory it read
    loaded,       \* slot -> the contents it loaded after verification
    verdict,      \* "none", "rejected", "accepted", "equal" or "different"
    before,       \* the disk when the reader began
    quiet         \* has the disk been left alone since then?

reading == <<plan, todo, inv, loaded, verdict>>
command == <<kind, wanted, before>>
storage == <<disk, changes, quiet>>
written == <<family, author>>
vars    == <<accounting, written, storage, command, reading>>

Slot == {"a", "b"}
Other(s) == CHOOSE t \in Slot : t # s

\* The files that readers load, and one that stands for all the others.  A
\* campaign's manifest is campaign-manifest.json, its execution result.json, its
\* records the paired JSON Lines.
Names == {"manifest", "execution", "records"} \cup (IF family = "run" THEN {"target"} ELSE {})

\* A file nobody listed, and one in a subdirectory whose name is inventory.json.
Stray == {"stray", "nested"}

Nothing == [x \in {} |-> x]
Missing == [id |-> "none", entries |-> Nothing, hash |-> Nothing]

\* The files with one more, or with another content for one.
With(files, n, content) ==
    [m \in DOMAIN files \cup {n} |-> IF m = n THEN content ELSE files[m]]

Without(files, n) == [m \in DOMAIN files \ {n} |-> files[m]]

----------------------------------------------------------------------------
\* A bundle as it is finalized.

\* The size that execution.json reports; a campaign's result reports none.
Reported == IF family = "run" THEN guess ELSE 0

\* What damaged content says of the run it is of.
Nobody == [id |-> "none", variant |-> "none", scenario |-> "none", requests |-> 0]

Original(r, n) ==
    [says  |-> IF n = "target" THEN [Nobody EXCEPT !.scenario = r.scenario] ELSE r,
     use   |-> IF n = "execution" THEN Reported ELSE 0,
     bytes |-> IF n = "execution" THEN ExecutionBytes(guess) ELSE 1]

\* The inventory lists every file but itself; the run ID is not under its hash.
Listing(id, files) == [id |-> id, entries |-> files, hash |-> files]

Finalized(r) ==
    LET files == [n \in Names |-> Original(r, n)]
    IN  [files |-> files, inventory |-> Listing(r.id, files)]

BytesOf(entries, n) == IF n \in DOMAIN entries THEN entries[n].bytes ELSE 0

\* The bytes of a run's listed files and of the inventory that lists them: what the
\* other three files contribute is a part of the overhead.
VerifiedBytes(entries) ==
    (size.overhead - 3)
        + BytesOf(entries, "manifest") + BytesOf(entries, "target")
        + BytesOf(entries, "records") + BytesOf(entries, "execution")
        + (IF "execution" \in DOMAIN entries THEN Digits(entries["execution"].bytes) ELSE 0)

Init ==
    /\ AccountingInit
    /\ family \in {"run", "campaign"}
    /\ author \in Authors
    /\ disk = [s \in Slot |-> [files |-> Nothing, inventory |-> Missing]]
    /\ changes = 0
    /\ kind = "none"
    /\ wanted = author["a"]
    /\ plan = << >> /\ todo = {}
    /\ inv = [s \in Slot |-> Missing]
    /\ loaded = [s \in Slot |-> Nothing]
    /\ verdict = "none"
    /\ before = disk
    /\ quiet = TRUE

Account ==
    /\ family = "run"
    /\ Exhaust \/ Converge \/ GuessAgain
    /\ UNCHANGED <<written, storage, command, reading>>

\* A campaign's evidence is written without an account of its size.
Finalize ==
    /\ IF family = "run" THEN Write
       ELSE stage = "measure" /\ stage' = "written" /\ UNCHANGED <<size, round, guess>>
    /\ disk' = IF stage' = "written" THEN [s \in Slot |-> Finalized(author[s])] ELSE disk
    /\ UNCHANGED <<written, changes, quiet, command, reading>>

----------------------------------------------------------------------------
\* What happens to bundles at rest: damage, loss, what a careless copy or edit does.

Change(s, bundle) ==
    /\ stage = "written"
    /\ size \in Disturbed /\ changes < MaxChanges
    /\ verdict = "none"
    /\ bundle # disk[s]
    /\ disk' = [disk EXCEPT ![s] = bundle]
    /\ changes' = changes + 1
    /\ quiet' = FALSE
    /\ UNCHANGED <<accounting, written, command, reading>>

Put(s, n, content) ==
    Change(s, [disk[s] EXCEPT !.files = With(@, n, content)])

Damage(s, n) ==
    /\ n \in DOMAIN disk[s].files
    /\ \E longer \in {0, 1} :
           Put(s, n, [says |-> Nobody, use |-> 0,
                      bytes |-> Original(author[s], n).bytes + longer])

Lose(s, n) ==
    /\ n \in DOMAIN disk[s].files
    /\ Change(s, [disk[s] EXCEPT !.files = Without(@, n)])

\* A file of the other bundle takes the place of this one's.
Mix(s, n) ==
    /\ n \in DOMAIN disk[s].files \cap DOMAIN disk[Other(s)].files
    /\ disk[Other(s)].files[n] # Original(author[s], n)
    /\ Put(s, n, disk[Other(s)].files[n])

Add(s, n) == Put(s, n, [says |-> Nobody, use |-> 0, bytes |-> 1])

LoseInventory(s) == Change(s, [disk[s] EXCEPT !.inventory = Missing])

Relabel(s, id) ==
    disk[s].inventory # Missing /\ Change(s, [disk[s] EXCEPT !.inventory.id = id])

\* A file and its entry are lost; the hash over the entries stays.
Drop(s, n) ==
    /\ n \in DOMAIN disk[s].files \cap DOMAIN disk[s].inventory.entries
    /\ Change(s, [files     |-> Without(disk[s].files, n),
                  inventory |-> [disk[s].inventory EXCEPT !.entries = Without(@, n)]])

\* The inventory is made anew for the files it lists, as the tests do.
Regenerate(s) ==
    LET listed == DOMAIN disk[s].inventory.entries
    IN  /\ disk[s].inventory # Missing
        /\ listed \subseteq DOMAIN disk[s].files
        /\ Change(s, [disk[s] EXCEPT !.inventory =
                        Listing(@.id, [n \in listed |-> disk[s].files[n]])])

Disturb ==
    \E s \in Slot :
        \/ \E n \in Names : Damage(s, n) \/ Lose(s, n) \/ Mix(s, n) \/ Drop(s, n)
        \/ \E n \in Stray : Add(s, n)
        \/ LoseInventory(s) \/ Regenerate(s)
        \/ \E r \in Run : Relabel(s, r.id)

----------------------------------------------------------------------------
\* Readers.

Job(what, s) == [what |-> what, slot |-> s]

Plan(k) ==
    LET inventory(s) == Job("inventory", s)
        entries(s)   == Job("entries", s)
        listing(s)   == Job("listing", s)
        load(s)      == Job("load", s)
        anchors(s)   == Job("anchors", s)
    IN  CASE k = "verify" ->
               <<inventory("a"), entries("a"), listing("a")>>
          [] k = "inspect" ->
               <<inventory("a"), entries("a"), listing("a"), load("a"), anchors("a")>>
          [] k = "recover" ->
               <<inventory("a"), entries("a"), listing("a"), load("a"), anchors("a"),
                 Job("again", "a")>>
          [] k = "replay" ->
               <<inventory("a"), entries("a"), listing("a"), load("a"), Job("counts", "a")>>
          [] k = "compare" /\ family = "run" ->
               <<inventory("a"), entries("a"), listing("a"),
                 inventory("b"), entries("b"), listing("b"),
                 load("a"), anchors("a"), load("b"), anchors("b")>>
          [] k = "compare" /\ family = "campaign" ->
               <<inventory("a"), entries("a"), listing("a"), load("a"), anchors("a"),
                 inventory("b"), entries("b"), listing("b"), load("b"), anchors("b")>>

Kinds == {"verify", "inspect", "compare"} \cup
            (IF family = "run" THEN {"recover"} ELSE {"replay"})

Begin(k) ==
    /\ stage = "written" /\ kind = "none"
    /\ kind' = k
    /\ wanted' \in IF k = "recover" THEN {r \in Run : r.id = author["a"].id} ELSE {wanted}
    /\ before' = disk
    /\ quiet' = TRUE
    /\ plan' = Plan(k)
    /\ UNCHANGED <<accounting, written, disk, changes, todo, inv, loaded, verdict>>

\* Files are read one after the other in a fixed order.
FirstOf(names) == CHOOSE n \in names : TRUE

At(what) == verdict = "none" /\ plan # << >> /\ Head(plan).what = what
Here     == Head(plan).slot
Files    == disk[Here].files

\* The reader alone moves.
Undisturbed == UNCHANGED <<accounting, written, storage, command>>

Reject ==
    /\ verdict' = "rejected"
    /\ UNCHANGED <<plan, todo, inv, loaded>>

ReadInventory ==
    /\ At("inventory")
    /\ Undisturbed
    /\ IF disk[Here].inventory = Missing THEN Reject
       ELSE /\ inv' = [inv EXCEPT ![Here] = disk[Here].inventory]
            /\ todo' = DOMAIN disk[Here].inventory.entries
            /\ plan' = Tail(plan)
            /\ UNCHANGED <<loaded, verdict>>

\* Mutant: the length of an entry is compared and its digest is not.
EntryVerifies_ByLength(s, n) ==
    n \in DOMAIN disk[s].files /\ disk[s].files[n].bytes = inv[s].entries[n].bytes

\* `_verify_entry`: present, and as long and as digested as the inventory says.
EntryVerifies(s, n) ==
    n \in DOMAIN disk[s].files /\ disk[s].files[n] = inv[s].entries[n]

VerifyEntry ==
    /\ At("entries")
    /\ Undisturbed
    /\ todo # {}
    /\ LET n == FirstOf(todo)
       IN  IF EntryVerifies(Here, n) THEN todo' = todo \ {n} /\ UNCHANGED <<plan, inv, loaded, verdict>>
           ELSE Reject

EntriesVerified ==
    /\ At("entries") /\ todo = {}
    /\ Undisturbed
    /\ plan' = Tail(plan)
    /\ UNCHANGED <<todo, inv, loaded, verdict>>

Load == IF kind = "replay" THEN Names ELSE Names \ {"records"}

\* Mutant: the names that are listed are there, and others may be.
ListingHolds_Subset(s) ==
    /\ DOMAIN inv[s].entries \subseteq DOMAIN disk[s].files
    /\ inv[s].hash = inv[s].entries

\* Every file is listed but those named inventory.json, and the hash is of the entries.
ListingHolds(s) ==
    /\ DOMAIN disk[s].files \ {"nested"} = DOMAIN inv[s].entries
    /\ inv[s].hash = inv[s].entries

List ==
    /\ At("listing")
    /\ Undisturbed
    /\ IF ListingHolds(Here) THEN plan' = Tail(plan) /\ UNCHANGED <<todo, inv, loaded, verdict>>
       ELSE Reject

\* The files are read again, after their verification.
LoadFile ==
    /\ At("load")
    /\ Undisturbed
    /\ DOMAIN loaded[Here] # Load
    /\ LET n == FirstOf(Load \ DOMAIN loaded[Here])
       IN  IF n \in DOMAIN Files /\ Files[n].says # Nobody
           THEN /\ loaded' = [loaded EXCEPT ![Here] = With(@, n, Files[n])]
                /\ UNCHANGED <<plan, todo, inv, verdict>>
           ELSE Reject

FilesLoaded ==
    /\ At("load") /\ DOMAIN loaded[Here] = Load
    /\ Undisturbed
    /\ plan' = Tail(plan)
    /\ UNCHANGED <<todo, inv, loaded, verdict>>

\* Mutant: the reported size is that of the files, without the inventory.
AnchorsHold_FilesOnly(s) ==
    LET run == loaded[s]["execution"].says
    IN  /\ inv[s].id = loaded[s]["manifest"].says.id /\ inv[s].id = run.id
        /\ family = "run" =>
            /\ loaded[s]["manifest"].says = run
            /\ loaded[s]["target"].says.scenario = run.scenario
            /\ loaded[s]["execution"].use =
                 VerifiedBytes(inv[s].entries) - Digits(inv[s].entries["execution"].bytes)

\* Mutant: the manifest's digest is not compared with the one the execution names.
AnchorsHold_IdsOnly(s) ==
    LET run == loaded[s]["execution"].says
    IN  /\ inv[s].id = loaded[s]["manifest"].says.id /\ inv[s].id = run.id
        /\ family = "run" =>
            /\ loaded[s]["target"].says.scenario = run.scenario
            /\ loaded[s]["execution"].use = VerifiedBytes(inv[s].entries)

\* `_inspect_verified`: inventory, manifest, execution and target name one run, and
\* the size that was reported is the one that was verified.
AnchorsHold(s) ==
    LET run == loaded[s]["execution"].says
    IN  /\ inv[s].id = loaded[s]["manifest"].says.id /\ inv[s].id = run.id
        /\ family = "run" =>
            /\ loaded[s]["manifest"].says = run
            /\ loaded[s]["target"].says.scenario = run.scenario
            /\ loaded[s]["execution"].use = VerifiedBytes(inv[s].entries)

\* Mutant: a recovery takes whatever bundle is at its path.
Anchors_AnyRun ==
    /\ At("anchors")
    /\ Undisturbed
    /\ IF AnchorsHold(Here) THEN plan' = Tail(plan) /\ UNCHANGED <<todo, inv, loaded, verdict>>
       ELSE Reject

Anchors ==
    /\ At("anchors")
    /\ Undisturbed
    /\ IF AnchorsHold(Here) /\ (kind = "recover" => loaded[Here]["manifest"].says = wanted)
       THEN plan' = Tail(plan) /\ UNCHANGED <<todo, inv, loaded, verdict>>
       ELSE Reject

\* `recover_existing_result` takes its result from yet another read.
LoadAgain ==
    /\ At("again")
    /\ Undisturbed
    /\ IF "execution" \in DOMAIN Files /\ Files["execution"].says # Nobody
       THEN /\ loaded' = [loaded EXCEPT ![Here]["execution"] = Files["execution"]]
            /\ plan' = Tail(plan)
            /\ UNCHANGED <<todo, inv, verdict>>
       ELSE Reject

\* `replay_campaign_bundle`: the records are as many as manifest and result say, as
\* they are in all campaigns of the one geometry, and the result is the bundle's.
Counts ==
    /\ At("counts")
    /\ Undisturbed
    /\ IF loaded[Here]["execution"].says.id = inv[Here].id
       THEN plan' = Tail(plan) /\ UNCHANGED <<todo, inv, loaded, verdict>>
       ELSE Reject

\* Mutant: campaigns are equal when their counts are.
CampaignsEqual_ByCounts == loaded["a"]["execution"].says.requests = loaded["b"]["execution"].says.requests

CampaignsEqual ==
    /\ inv["a"].hash = inv["b"].hash
    /\ loaded["a"]["execution"].says.requests = loaded["b"]["execution"].says.requests

\* Digests decide; equal digests with different anchors are an error.
RunsCompared ==
    IF inv["a"] # inv["b"] THEN "different"
    ELSE IF loaded["a"] = loaded["b"] THEN "equal" ELSE "rejected"

Comparison ==
    IF family = "run" THEN RunsCompared
    ELSE IF CampaignsEqual THEN "equal" ELSE "different"

Conclude ==
    /\ verdict = "none" /\ kind # "none" /\ plan = << >>
    /\ Undisturbed
    /\ verdict' = IF kind = "compare" THEN Comparison ELSE "accepted"
    /\ UNCHANGED <<plan, todo, inv, loaded>>

Read ==
    \/ ReadInventory \/ VerifyEntry \/ EntriesVerified \/ List \/ LoadFile \/ FilesLoaded
    \/ Anchors \/ LoadAgain \/ Counts \/ Conclude

Rest ==
    /\ verdict # "none" \/ stage \in {"exhausted", "failed", "tooLarge"}
    /\ UNCHANGED vars

Next ==
    \/ Account \/ Finalize \/ Disturb \/ Read \/ Rest
    \/ \E k \in Kinds : Begin(k)

Spec == Init /\ [][Next]_vars

----------------------------------------------------------------------------
\* Properties.

\* Every variable keeps its type.
TypeOK ==
    /\ AccountingTypeOK
    /\ family \in {"run", "campaign"}
    /\ author \in [Slot -> Run]
    /\ DOMAIN disk = Slot /\ DOMAIN before = Slot
    /\ \A s \in Slot : DOMAIN disk[s].files \subseteq Names \cup Stray
    /\ changes \in 0 .. MaxChanges
    /\ kind \in Kinds \cup {"none"}
    /\ wanted \in Run
    /\ todo \subseteq Names
    /\ \A s \in Slot : DOMAIN loaded[s] \subseteq Names
    /\ verdict \in {"none", "rejected", "accepted", "equal", "different"}

Accepted == verdict \notin {"none", "rejected"}
ReadSlots == IF kind = "compare" THEN Slot ELSE {"a"}

\* A reader accepts a bundle whose inventory has the digest that was reported when
\* it was finalized only if every listed file was as it was finalized, and no other
\* was there but files named inventory.json, when the reader began: whatever was
\* damaged, lost or added before, and whatever more is while it reads.
AcceptedWasIntact ==
    Accepted => \A s \in ReadSlots :
        inv[s] = Finalized(author[s]).inventory =>
            [n \in DOMAIN before[s].files \ {"nested"} |-> before[s].files[n]]
                = Finalized(author[s]).files

\* What the writer writes its readers accept: an undisturbed bundle is never
\* rejected, its reported size included; only a recovery refuses another run's.
UndisturbedIsAccepted ==
    changes = 0 /\ verdict = "rejected" => kind = "recover" /\ wanted # author["a"]

\* An inspection or comparison that nothing disturbed is of one run: manifest and
\* execution are that run's, the inventory names it, and the bundle is as large as
\* it says, even if the inventory has been made anew.
InspectedIsOneRun ==
    Accepted /\ quiet /\ kind \in {"inspect", "recover", "compare"} =>
        \A s \in ReadSlots :
            LET manifest  == disk[s].files["manifest"]
                execution == disk[s].files["execution"]
                listed    == DOMAIN disk[s].files \ {"nested"}
            IN  /\ manifest.says.id = execution.says.id
                /\ disk[s].inventory.id = execution.says.id
                /\ family = "run" =>
                    /\ manifest.says = execution.says
                    /\ execution.use =
                         VerifiedBytes([n \in listed |-> disk[s].files[n]])

\* A comparison that nothing disturbed reports equality exactly when the bundles
\* hold the same files, of runs and of campaigns, and is never at odds with itself.
EqualMeansSame ==
    kind = "compare" /\ quiet /\ Accepted =>
        LET listed(s) == [n \in DOMAIN disk[s].files \ {"nested"} |-> disk[s].files[n]]
        IN  verdict = "equal" <=> listed("a") = listed("b")

\* What an inspection or comparison has loaded is of one run whatever was replaced
\* between the verification of a file and its second read: inventory, manifest,
\* execution and target of a mixture never agree.
ReportedIsOneRun ==
    Accepted /\ kind \in {"inspect", "compare"} =>
        \A s \in ReadSlots :
            LET run == loaded[s]["execution"].says
            IN  /\ inv[s].id = run.id /\ loaded[s]["manifest"].says.id = run.id
                /\ family = "run" =>
                    /\ loaded[s]["manifest"].says = run
                    /\ loaded[s]["target"].says.scenario = run.scenario
                    /\ loaded[s]["execution"].use = VerifiedBytes(inv[s].entries)

\* A recovered result stands beside the manifest that was asked for; it is of that
\* run if nothing disturbed the bundle under the reader, which reads the result once
\* more after all checks, and exactly what its author reported if nothing ever did.
RecoveredIsOwn ==
    kind = "recover" /\ verdict = "accepted" =>
        /\ loaded["a"]["manifest"].says = wanted
        /\ quiet => loaded["a"]["execution"].says = wanted
        /\ changes = 0 => loaded["a"]["execution"] = Original(author["a"], "execution")

\* What a reader tells of a bundle is of one run, and of the run that was asked for.
ResultIsOfOneRun == InspectedIsOneRun /\ ReportedIsOneRun /\ RecoveredIsOwn

----------------------------------------------------------------------------
\* The inductive strengthening.

\* What the variables hold, in detail.
Sayings == Run \cup {Nobody} \cup {[Nobody EXCEPT !.scenario = r.scenario] : r \in Run}
Content == [says : Sayings, use : Nat, bytes : Nat]

AreFiles(files, names) ==
    DOMAIN files \subseteq names /\ files \in [DOMAIN files -> Content]

IsInventory(i) ==
    /\ i = [id |-> i.id, entries |-> i.entries, hash |-> i.hash]
    /\ AreFiles(i.entries, Names) /\ AreFiles(i.hash, Names)

IsBundle(b) ==
    /\ b = [files |-> b.files, inventory |-> b.inventory]
    /\ AreFiles(b.files, Names \cup Stray) /\ IsInventory(b.inventory)

Jobs == [what : {"inventory", "entries", "listing", "load", "anchors", "again", "counts"},
         slot : Slot]

WellFormed ==
    /\ author \in Authors
    /\ plan \in Seq(Jobs)
    /\ DOMAIN inv = Slot /\ DOMAIN loaded = Slot
    /\ \A s \in Slot :
        /\ IsBundle(disk[s]) /\ IsBundle(before[s])
        /\ IsInventory(inv[s]) /\ AreFiles(loaded[s], Names)

\* A run's evidence is accounted for, a campaign's is written as it is.
Accounted ==
    /\ family = "run" => AccountingInv
    /\ family = "campaign" => stage \in {"measure", "written"}

\* There is nothing to disturb or to read before the bundles are written, and until
\* something disturbs them they are as they were finalized.
Untouched ==
    /\ stage # "written" => kind = "none" /\ changes = 0
    /\ kind = "none" => verdict = "none" /\ plan = << >> /\ \A s \in Slot : loaded[s] = Nothing
    /\ changes = 0 => quiet
    /\ stage = "written" /\ changes = 0 => \A s \in Slot : disk[s] = Finalized(author[s])
    /\ quiet /\ kind # "none" => disk = before

\* The rest of the plan is an end of it; what precedes that end is done.
Remains ==
    kind # "none" =>
        /\ Len(plan) <= Len(Plan(kind))
        /\ \A i \in 1 .. Len(plan) : plan[i] = Plan(kind)[Len(Plan(kind)) - Len(plan) + i]

Done(what, s) == \E i \in 1 .. Len(Plan(kind)) - Len(plan) : Plan(kind)[i] = Job(what, s)

\* No disturbance restores a file or removes one that was added.
AsFinalized(d, s, n) == n \in DOMAIN d[s].files /\ d[s].files[n] = Original(author[s], n)

OnlyDecays ==
    kind # "none" => \A s \in Slot :
        /\ \A n \in Names : AsFinalized(disk, s, n) => AsFinalized(before, s, n)
        /\ "stray" \in DOMAIN before[s].files => "stray" \in DOMAIN disk[s].files

\* What a job that is done has established: of the disk when the reader began, and of
\* the disk as it is if nothing has disturbed it since.
InventoryRead(s) == inv[s] # Missing /\ (quiet => inv[s] = disk[s].inventory)

EntryChecked(s, n) ==
    /\ inv[s].entries[n] = Original(author[s], n) => AsFinalized(before, s, n)
    /\ quiet => EntryVerifies(s, n)

EntriesRead(s) == \A n \in DOMAIN inv[s].entries : EntryChecked(s, n)

ListingRead(s) == "stray" \notin DOMAIN before[s].files /\ (quiet => ListingHolds(s))

Loaded(s) == DOMAIN loaded[s] = Load

Anchored(s) ==
    /\ Loaded(s)
    /\ quiet \/ kind # "recover" => AnchorsHold(s)
    /\ kind = "recover" => loaded[s]["manifest"].says = wanted

JobsDone ==
    kind # "none" => \A s \in Slot :
        /\ Done("inventory", s) => InventoryRead(s)
        /\ Done("entries", s)   => EntriesRead(s)
        /\ Done("listing", s)   => ListingRead(s)
        /\ Done("load", s)      => Loaded(s)
        /\ Done("anchors", s)   => Anchored(s)

JobUnderWay ==
    \A s \in Slot : plan # << >> /\ Head(plan) = Job("entries", s) =>
        /\ todo \subseteq DOMAIN inv[s].entries
        /\ \A n \in DOMAIN inv[s].entries \ todo : EntryChecked(s, n)

LoadedFromDisk ==
    \A s \in Slot :
        /\ DOMAIN loaded[s] \subseteq Load
        /\ quiet => \A n \in DOMAIN loaded[s] :
                       n \in DOMAIN disk[s].files /\ disk[s].files[n] = loaded[s][n]

Concluded == Accepted => plan = << >> /\ (kind = "compare" => verdict = Comparison)

ReadersInv ==
    /\ TypeOK /\ WellFormed /\ Accounted /\ Untouched
    /\ Remains /\ OnlyDecays /\ JobsDone /\ JobUnderWay /\ LoadedFromDisk /\ Concluded
    /\ UndisturbedIsAccepted
=============================================================================
