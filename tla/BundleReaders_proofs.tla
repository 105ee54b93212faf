------------------------- MODULE BundleReaders_proofs -------------------------
(***************************************************************************)
(* Proofs about BundleReaders, for bundles of any size, any set of runs    *)
(* and any number of disturbances, before and while a bundle is read.  The *)
(* invariant says of every job of a reader what it has established once it *)
(* is done: of the disk when the reader began, since no disturbance        *)
(* restores what another one changed, and of the disk as it is, as long as *)
(* nothing has disturbed it.                                               *)
(***************************************************************************)
EXTENDS BundleReaders, ArtifactAccounting_proofs

----------------------------------------------------------------------------
\* Plans.

\* A plan is a sequence of jobs.
LEMMA PlanType ==
    ASSUME family \in {"run", "campaign"}, NEW k \in Kinds
    PROVE  Plan(k) \in Seq(Jobs) /\ Len(Plan(k)) \in Nat \ {0}
<1> USE DEF Plan, Job, Jobs, Slot
<1>1. CASE k = "verify"
  BY <1>1
<1>2. CASE k = "inspect"
  BY <1>2
<1>3. CASE k = "recover"
  BY <1>3
<1>4. CASE k = "replay"
  BY <1>4
<1>5. CASE k = "compare" /\ family = "run"
  BY <1>5
<1>6. CASE k = "compare" /\ family = "campaign"
  BY <1>6
<1>7. QED
  BY <1>1, <1>2, <1>3, <1>4, <1>5, <1>6 DEF Kinds

\* A bundle's inventory is read before anything else of it, and its entries next.
LEMMA InventoryFirst ==
    ASSUME family \in {"run", "campaign"}, NEW k \in Kinds, NEW i \in 1 .. Len(Plan(k))
    PROVE  /\ Plan(k)[i].what = "inventory" =>
                \A j \in 1 .. i : Plan(k)[j].slot = Plan(k)[i].slot => j = i
           /\ Plan(k)[i].what = "entries" =>
                i > 1 /\ Plan(k)[i - 1] = Job("inventory", Plan(k)[i].slot)
           /\ Plan(k)[i].what # "inventory" =>
                \E j \in 1 .. i - 1 : Plan(k)[j] = Job("inventory", Plan(k)[i].slot)
<1> USE DEF Plan, Job, Slot
<1>1. CASE k = "verify"
  BY <1>1
<1>2. CASE k = "inspect"
  BY <1>2
<1>3. CASE k = "recover"
  BY <1>3
<1>4. CASE k = "replay"
  BY <1>4
<1>5. CASE k = "compare" /\ family = "run"
  BY <1>5
<1>6. CASE k = "compare" /\ family = "campaign"
  BY <1>6
<1>7. QED
  BY <1>1, <1>2, <1>3, <1>4, <1>5, <1>6 DEF Kinds

\* What a plan contains: a verification of every bundle it is about, and loading
\* before what is done with the loaded.
LEMMA PlanCovers ==
    ASSUME family \in {"run", "campaign"}, NEW k \in Kinds
    PROVE  /\ \A s \in {"a"} \cup (IF k = "compare" THEN Slot ELSE {}) :
                \A w \in {"inventory", "entries", "listing"} :
                   \E i \in 1 .. Len(Plan(k)) : Plan(k)[i] = Job(w, s)
           /\ k \in {"inspect", "recover", "compare"} =>
                \A s \in {"a"} \cup (IF k = "compare" THEN Slot ELSE {}) :
                   \E i \in 1 .. Len(Plan(k)) : Plan(k)[i] = Job("anchors", s)
           /\ \A i \in 1 .. Len(Plan(k)) :
                /\ Plan(k)[i].what \in {"anchors", "again", "counts"} =>
                     \E j \in 1 .. i - 1 : Plan(k)[j] = Job("load", Plan(k)[i].slot)
                /\ Plan(k)[i].what = "again" =>
                     /\ k = "recover"
                     /\ \E j \in 1 .. i - 1 : Plan(k)[j] = Job("anchors", Plan(k)[i].slot)
<1> USE DEF Plan, Job, Slot
<1>1. CASE k = "verify"
  BY <1>1
<1>2. CASE k = "inspect"
  BY <1>2
<1>3. CASE k = "recover"
  BY <1>3
<1>4. CASE k = "replay"
  BY <1>4
<1>5. CASE k = "compare" /\ family = "run"
  BY <1>5
<1>6. CASE k = "compare" /\ family = "campaign"
  BY <1>6
<1>7. QED
  BY <1>1, <1>2, <1>3, <1>4, <1>5, <1>6 DEF Kinds

\* The job at the head of the plan is the one after those that are done: the
\* inventory of its bundle has been read, or nothing of it.
LEMMA HeadJob ==
    ASSUME TypeOK, WellFormed, Remains, kind # "none", plan # << >>
    PROVE  /\ Head(plan) \in Jobs
           /\ Head(plan).what = "inventory" => \A w : ~ Done(w, Here)
           /\ Head(plan).what # "inventory" => Done("inventory", Here)
           /\ Head(plan).what \in {"anchors", "again", "counts"} => Done("load", Here)
           /\ Head(plan).what = "again" => kind = "recover" /\ Done("anchors", Here)
<1> DEFINE P == Plan(kind)
           h == Len(P) - Len(plan) + 1
<1>1. kind \in Kinds /\ family \in {"run", "campaign"}
  BY DEF TypeOK
<1>2. P \in Seq(Jobs) /\ Len(P) \in Nat /\ plan \in Seq(Jobs) /\ Len(plan) \in Nat \ {0}
  BY <1>1, PlanType DEF WellFormed
<1>3. h \in 1 .. Len(P) /\ Head(plan) = P[h] /\ Head(plan) \in Jobs
  BY <1>2 DEF Remains
<1> HIDE DEF P
<1>4. \A w, s : Done(w, s) <=> \E i \in 1 .. h - 1 : P[i] = Job(w, s)
  BY <1>2 DEF Done, P
<1> HIDE DEF h
<1>5. ASSUME P[h].what = "inventory", NEW w, Done(w, Here)
      PROVE  FALSE
  <2>1. PICK i \in 1 .. h - 1 : P[i] = Job(w, Here)
    BY <1>4, <1>5
  <2>2. i \in 1 .. h /\ P[i].slot = P[h].slot /\ i # h
    BY <1>2, <1>3, <2>1 DEF Here, Job
  <2>3. QED
    BY <1>1, <1>3, <1>5, <2>2, InventoryFirst DEF P
<1>6. P[h].what # "inventory" => Done("inventory", Here)
  BY <1>1, <1>3, <1>4, InventoryFirst DEF P, Here
<1>7. /\ P[h].what \in {"anchors", "again", "counts"} => Done("load", Here)
      /\ P[h].what = "again" => kind = "recover" /\ Done("anchors", Here)
  BY <1>1, <1>3, <1>4, PlanCovers DEF P, Here
<1>8. QED
  BY <1>3, <1>5, <1>6, <1>7

\* A plan is about the first bundle, unless it compares two.
LEMMA FirstBundle ==
    ASSUME TypeOK, WellFormed, Remains, kind \notin {"none", "compare"}, plan # << >>
    PROVE  Here = "a"
<1>1. kind \in Kinds /\ family \in {"run", "campaign"}
  BY DEF TypeOK
<1>2. \A i \in 1 .. Len(Plan(kind)) : Plan(kind)[i].slot = "a"
  <2> USE DEF Plan, Job
  <2>1. CASE kind = "verify"
    BY <2>1
  <2>2. CASE kind = "inspect"
    BY <2>2
  <2>3. CASE kind = "recover"
    BY <2>3
  <2>4. CASE kind = "replay"
    BY <2>4
  <2>5. QED
    BY <1>1, <2>1, <2>2, <2>3, <2>4 DEF Kinds
<1>3. Plan(kind) \in Seq(Jobs) /\ plan \in Seq(Jobs)
  BY <1>1, PlanType DEF WellFormed
<1>4. \E i \in 1 .. Len(Plan(kind)) : Head(plan) = Plan(kind)[i]
  BY <1>3 DEF Remains
<1>5. QED
  BY <1>2, <1>4 DEF Here

\* A job done leaves the rest of the plan, and the entries of a bundle are checked
\* right after its inventory has been read.
LEMMA JobDone ==
    ASSUME TypeOK, WellFormed, Remains, kind # "none", plan # << >>,
           plan' = Tail(plan), UNCHANGED <<kind, family>>
    PROVE  /\ Remains' /\ plan' \in Seq(Jobs)
           /\ \A w, s : Done(w, s)' <=> Done(w, s) \/ Head(plan) = Job(w, s)
           /\ plan' # << >> /\ Head(plan').what = "entries" =>
                 Head(plan) = Job("inventory", Head(plan').slot)
<1> DEFINE P == Plan(kind)
           h == Len(P) - Len(plan) + 1
<1>1. kind \in Kinds /\ family \in {"run", "campaign"}
  BY DEF TypeOK
<1>2. P \in Seq(Jobs) /\ Len(P) \in Nat /\ plan \in Seq(Jobs) /\ Len(plan) \in Nat \ {0}
  BY <1>1, PlanType DEF WellFormed
<1>3. h \in 1 .. Len(P) /\ Head(plan) = P[h]
  BY <1>2 DEF Remains
<1>4. Plan(kind)' = P
  BY DEF Plan, Job
<1> HIDE DEF P
<1>5. plan' \in Seq(Jobs) /\ Len(plan') = Len(plan) - 1
  BY <1>2
<1>6. \A i \in 1 .. Len(plan') : plan'[i] = P[h + i]
  BY <1>2, <1>5 DEF Remains, P
<1>7. Remains'
  BY <1>2, <1>3, <1>4, <1>5, <1>6 DEF Remains
<1>8. \A w, s : Done(w, s) <=> \E i \in 1 .. h - 1 : P[i] = Job(w, s)
  BY <1>2 DEF Done, P
<1>9. \A w, s : Done(w, s)' <=> \E i \in 1 .. h : P[i] = Job(w, s)
  BY <1>2, <1>4, <1>5 DEF Done
<1>10. ASSUME plan' # << >>, Head(plan').what = "entries"
       PROVE  Head(plan) = Job("inventory", Head(plan').slot)
  <2>1. Head(plan') = P[h + 1] /\ h + 1 \in 1 .. Len(P)
    BY <1>2, <1>5, <1>6, <1>10 DEF Remains, P
  <2>2. P[h + 1 - 1] = Job("inventory", P[h + 1].slot)
    BY <1>1, <1>10, <2>1, InventoryFirst DEF P
  <2>3. QED
    BY <1>2, <1>3, <2>1, <2>2
<1>11. QED
  BY <1>2, <1>3, <1>5, <1>7, <1>8, <1>9, <1>10

----------------------------------------------------------------------------
\* Contents, inventories and bundles.

\* What a bundle is finalized as says something, and other than that of a reader's
\* damaged file.
LEMMA OriginalType ==
    ASSUME guess \in Nat, size \in Sizes, NEW r \in Run, NEW n
    PROVE  Original(r, n) \in Content /\ Original(r, n).says # Nobody
<1>1. r # Nobody /\ [Nobody EXCEPT !.scenario = r.scenario] # Nobody
  BY RunAssumption DEF Nobody
<1>2. ExecutionBytes(guess) \in Nat /\ Reported \in Nat
  BY SizeType, DigitsRange DEF ExecutionBytes, Reported
<1>3. QED
  BY <1>1, <1>2 DEF Original, Content, Sayings

\* The empty bundle, and a bundle as it is finalized, are bundles.
LEMMA FinalizedType ==
    ASSUME guess \in Nat, size \in Sizes, NEW r \in Run
    PROVE  /\ AreFiles(Finalized(r).files, Names)
           /\ IsBundle(Finalized(r))
           /\ Finalized(r).inventory = Listing(r.id, Finalized(r).files)
           /\ DOMAIN Finalized(r).files = Names
           /\ \A n \in Names : Finalized(r).files[n] = Original(r, n)
           /\ Finalized(r).inventory # Missing
<1> DEFINE files == [n \in Names |-> Original(r, n)]
<1>1. \A n \in Names : Original(r, n) \in Content
  BY OriginalType
<1>2. AreFiles(files, Names) /\ AreFiles(files, Names \cup Stray)
  BY <1>1 DEF AreFiles
<1>3. Finalized(r) = [files |-> files, inventory |-> Listing(r.id, files)]
  BY DEF Finalized
<1>4. DOMAIN files = Names /\ \A n \in Names : files[n] = Original(r, n)
  OBVIOUS
<1>5. Listing(r.id, files) # Missing
  BY RunAssumption DEF Listing, Missing
<1> HIDE DEF files
<1>6. IsInventory(Listing(r.id, files))
  BY <1>2 DEF Listing, IsInventory
<1>7. QED
  BY <1>2, <1>3, <1>4, <1>5, <1>6 DEF IsBundle

LEMMA EmptyType ==
    /\ \A names : AreFiles(Nothing, names)
    /\ IsInventory(Missing)
    /\ IsBundle([files |-> Nothing, inventory |-> Missing])
<1>1. \A names : AreFiles(Nothing, names)
  BY DEF Nothing, AreFiles
<1>2. IsInventory(Missing)
  BY <1>1 DEF IsInventory, Missing
<1>3. QED
  BY <1>1, <1>2 DEF IsBundle

\* Files with one more, or without one, are files.
LEMMA WithType ==
    ASSUME NEW names, NEW files, AreFiles(files, names),
           NEW n \in names, NEW content \in Content
    PROVE  AreFiles(With(files, n, content), names)
BY DEF AreFiles, With

LEMMA WithoutType ==
    ASSUME NEW names, NEW files, AreFiles(files, names), NEW n
    PROVE  AreFiles(Without(files, n), names)
BY DEF AreFiles, Without

\* What bundles are finalized as changes with the accounting only.
LEMMA OriginalStays ==
    ASSUME UNCHANGED <<size, guess, family>>
    PROVE  /\ Names' = Names
           /\ \A r, n : Original(r, n)' = Original(r, n)
           /\ \A r : Finalized(r)' = Finalized(r)
           /\ \A e : VerifiedBytes(e)' = VerifiedBytes(e)
           /\ \A b : IsBundle(b)' <=> IsBundle(b)
           /\ \A i : IsInventory(i)' <=> IsInventory(i)
<1>1. Names' = Names /\ \A r, n : Original(r, n)' = Original(r, n)
  BY DEF Names, Original, Reported, ExecutionBytes
<1>2. \A r : Finalized(r)' = Finalized(r)
  BY <1>1 DEF Finalized, Listing
<1>3. \A e : VerifiedBytes(e)' = VerifiedBytes(e)
  BY DEF VerifiedBytes, BytesOf
<1>4. /\ \A b : IsBundle(b)' <=> IsBundle(b)
      /\ \A i : IsInventory(i)' <=> IsInventory(i)
  BY <1>1 DEF IsBundle, IsInventory, AreFiles
<1>5. QED
  BY <1>1, <1>2, <1>3, <1>4

----------------------------------------------------------------------------
\* The writer.

\* The readers' invariant holds before anything is written.
LEMMA ReadersBegin == Init => ReadersInv
<1> SUFFICES ASSUME Init PROVE ReadersInv
  OBVIOUS
<1>1. AccountingInv /\ stage = "measure" /\ kind = "none" /\ plan = << >> /\ verdict = "none"
  BY AccountingBegins DEF Init, AccountingInit
<1>2. author \in [Slot -> Run] /\ wanted \in Run
  BY AuthorsAssumption DEF Init, Slot
<1>3. TypeOK
  <2>1. \A s \in Slot : DOMAIN disk[s].files = {} /\ DOMAIN loaded[s] = {}
    BY DEF Init, Nothing
  <2>2. QED
    BY <1>1, <1>2, <2>1, DisturbedAssumption DEF Init, TypeOK, AccountingInv
<1>4. WellFormed
  BY <1>1, EmptyType DEF Init, WellFormed
<1>5. Accounted /\ Untouched /\ Remains /\ OnlyDecays /\ JobsDone /\ JobUnderWay
  BY <1>1 DEF Init, Accounted, Untouched, Remains, OnlyDecays, JobsDone, JobUnderWay
<1>6. LoadedFromDisk /\ Concluded /\ UndisturbedIsAccepted
  BY <1>1 DEF Init, Nothing, LoadedFromDisk, Concluded, Accepted, UndisturbedIsAccepted
<1>7. QED
  BY <1>3, <1>4, <1>5, <1>6 DEF ReadersInv

\* While the evidence is accounted for there is nothing on the disk to read.
LEMMA WriterKeeps ==
    ASSUME ReadersInv, Account \/ Finalize
    PROVE  ReadersInv'
<1> USE DEF ReadersInv
<1>1. /\ stage # "written" /\ kind = "none" /\ verdict = "none" /\ plan = << >>
      /\ changes = 0
      /\ UNCHANGED <<written, changes, quiet, command, reading>>
  BY DEF Untouched, Account, Finalize, Exhaust, Converge, GuessAgain, Write, accounting,
         storage
<1> USE <1>1 DEF written, command, reading
<1>2. Accounted' /\ AccountingTypeOK'
  <2>1. CASE family = "run"
    BY <2>1, GuessKeeps, EndKeeps DEF Accounted, Account, Finalize, AccountingInv
  <2>2. CASE family = "campaign"
    BY <2>2 DEF Accounted, Account, Finalize, TypeOK, AccountingTypeOK
  <2>3. QED
    BY <2>1, <2>2 DEF TypeOK
<1>3. Names' = Names
  BY DEF Names
<1>4. guess \in Nat /\ size \in Sizes /\ guess' \in Nat /\ size' \in Sizes
  BY <1>2 DEF TypeOK, AccountingTypeOK
<1>5. CASE disk' = disk /\ stage' # "written"
  <2>1. TypeOK'
    BY <1>2, <1>3, <1>5 DEF TypeOK, Kinds
  <2>2. WellFormed'
    BY <1>3, <1>5 DEF WellFormed, IsBundle, IsInventory, AreFiles
  <2>3. Untouched' /\ LoadedFromDisk'
    BY <1>5 DEF Untouched, LoadedFromDisk, Load, Names
  <2>4. QED
    BY <1>2, <2>1, <2>2, <2>3 DEF Remains, OnlyDecays, JobsDone, JobUnderWay, Concluded,
       Accepted, UndisturbedIsAccepted
<1>6. CASE disk' = [s \in Slot |-> Finalized(author[s])] /\ UNCHANGED <<size, guess>>
  <2>1. \A s \in Slot : author[s] \in Run
    BY DEF TypeOK
  <2>2. \A s \in Slot : /\ DOMAIN disk'[s].files \subseteq Names \cup Stray
                        /\ IsBundle(disk'[s])
                        /\ disk'[s] = Finalized(author[s])'
    BY <1>4, <1>6, <2>1, FinalizedType, OriginalStays
  <2>3. TypeOK'
    BY <1>2, <1>3, <1>6, <2>2 DEF TypeOK, Kinds
  <2>4. WellFormed'
    BY <1>3, <1>6, <2>2, OriginalStays DEF WellFormed, AreFiles
  <2>5. \A s \in Slot : loaded[s] = Nothing
    BY DEF Untouched
  <2>6. Untouched' /\ LoadedFromDisk'
    BY <1>6, <2>2, <2>5 DEF Untouched, LoadedFromDisk, Nothing
  <2>7. QED
    BY <1>2, <2>3, <2>4, <2>6 DEF Remains, OnlyDecays, JobsDone, JobUnderWay, Concluded,
       Accepted, UndisturbedIsAccepted
<1>7. QED
  <2>1. CASE Account
    BY <1>5, <2>1 DEF Account, storage, Exhaust, Converge, GuessAgain
  <2>2. CASE Finalize
    BY <1>5, <1>6, <2>2 DEF Finalize, Write
  <2>3. QED
    BY <2>1, <2>2

----------------------------------------------------------------------------
\* Disturbances.

\* The next content of a bundle restores nothing and removes no file that was added.
DecaysTo(s, b) ==
    /\ \A n \in Names :
          n \in DOMAIN b.files /\ b.files[n] = Original(author[s], n)
              => AsFinalized(disk, s, n)
    /\ "stray" \in DOMAIN disk[s].files => "stray" \in DOMAIN b.files

\* Another content for one file is a decay, if it is not the one it was finalized with.
LEMMA PutDecays ==
    ASSUME NEW s \in Slot, IsBundle(disk[s]), NEW n \in Names \cup Stray,
           NEW content \in Content,
           n \in Names => content # Original(author[s], n),
           Put(s, n, content)
    PROVE  \E b : Change(s, b) /\ IsBundle(b) /\ DecaysTo(s, b)
<1> DEFINE b == [disk[s] EXCEPT !.files = With(disk[s].files, n, content)]
<1>1. AreFiles(disk[s].files, Names \cup Stray) /\ IsInventory(disk[s].inventory)
  BY DEF IsBundle
<1>2. b = [files |-> With(disk[s].files, n, content), inventory |-> disk[s].inventory]
  BY DEF IsBundle
<1>3. Change(s, b)
  BY DEF Put
<1> DEFINE next == With(disk[s].files, n, content)
<1>4. AreFiles(next, Names \cup Stray)
  BY <1>1, WithType
<1>5. /\ DOMAIN next = DOMAIN disk[s].files \cup {n}
      /\ \A m \in DOMAIN disk[s].files \cup {n} :
            next[m] = IF m = n THEN content ELSE disk[s].files[m]
  BY DEF With
<1>6. b.files = next /\ b.inventory = disk[s].inventory
  BY <1>2
<1> HIDE DEF next, b
<1>7. b = [files |-> b.files, inventory |-> b.inventory]
  BY <1>2 DEF next
<1>8. IsBundle(b)
  BY <1>1, <1>4, <1>6, <1>7 DEF IsBundle
<1>9. "stray" \in DOMAIN disk[s].files => "stray" \in DOMAIN b.files
  BY <1>5, <1>6
<1>10. ASSUME NEW m \in Names, m \in DOMAIN b.files, b.files[m] = Original(author[s], m)
       PROVE  AsFinalized(disk, s, m)
  <2>1. m # n /\ m \in DOMAIN disk[s].files
    BY <1>5, <1>6, <1>10
  <2>2. disk[s].files[m] = Original(author[s], m)
    BY <1>5, <1>6, <1>10, <2>1
  <2>3. QED
    BY <2>1, <2>2 DEF AsFinalized
<1>11. QED
  BY <1>3, <1>8, <1>9, <1>10 DEF DecaysTo

\* So is the loss of a file of the bundle, with or without its entry.
LEMMA LossDecays ==
    ASSUME NEW s \in Slot, IsBundle(disk[s]), NEW n \in Names, Lose(s, n) \/ Drop(s, n)
    PROVE  \E b : Change(s, b) /\ IsBundle(b) /\ DecaysTo(s, b)
<1>1. /\ AreFiles(disk[s].files, Names \cup Stray)
      /\ IsInventory(disk[s].inventory) /\ AreFiles(disk[s].inventory.entries, Names)
  BY DEF IsBundle, IsInventory
<1> DEFINE next    == Without(disk[s].files, n)
           entries == Without(disk[s].inventory.entries, n)
           dropped == [disk[s].inventory EXCEPT !.entries = entries]
<1>2. /\ DOMAIN next = DOMAIN disk[s].files \ {n}
      /\ \A m \in DOMAIN disk[s].files \ {n} : next[m] = disk[s].files[m]
  BY DEF Without
<1>3. AreFiles(next, Names \cup Stray) /\ AreFiles(entries, Names)
  BY <1>1, WithoutType
<1>4. n # "stray"
  BY DEF Names
<1>5. ASSUME NEW i, IsInventory(i)
      PROVE  LET b == [files |-> next, inventory |-> i] IN IsBundle(b) /\ DecaysTo(s, b)
  <2> HIDE DEF next
  <2>1. QED
    BY <1>2, <1>3, <1>4, <1>5 DEF IsBundle, DecaysTo, AsFinalized
<1>6. CASE Lose(s, n)
  <2>1. Change(s, [disk[s] EXCEPT !.files = next])
    BY <1>6 DEF Lose
  <2> HIDE DEF next
  <2>2. [disk[s] EXCEPT !.files = next] = [files |-> next, inventory |-> disk[s].inventory]
    BY DEF IsBundle
  <2>3. QED
    BY <1>1, <1>5, <2>1, <2>2
<1>7. CASE Drop(s, n)
  <2>1. Change(s, [files |-> next, inventory |-> dropped])
    BY <1>7 DEF Drop
  <2> HIDE DEF next, entries
  <2>2. IsInventory(dropped)
    BY <1>1, <1>3 DEF IsInventory
  <2> HIDE DEF dropped
  <2>3. QED
    BY <1>5, <2>1, <2>2
<1>8. QED
  BY <1>6, <1>7

\* Whatever happens to the inventory alone leaves the files as they are.
LEMMA InventoryDecays ==
    ASSUME NEW s \in Slot, IsBundle(disk[s]),
           \/ LoseInventory(s) \/ Regenerate(s) \/ \E r \in Run : Relabel(s, r.id)
    PROVE  \E b : Change(s, b) /\ IsBundle(b) /\ DecaysTo(s, b)
<1> DEFINE inventory == disk[s].inventory
<1>1. /\ disk[s] = [files |-> disk[s].files, inventory |-> inventory]
      /\ AreFiles(disk[s].files, Names \cup Stray) /\ IsInventory(inventory)
  BY DEF IsBundle
<1>2. ASSUME NEW i, IsInventory(i)
      PROVE  LET b == [files |-> disk[s].files, inventory |-> i]
             IN  IsBundle(b) /\ DecaysTo(s, b)
  BY <1>1, <1>2 DEF IsBundle, DecaysTo, AsFinalized
<1>3. CASE LoseInventory(s)
  <2>1. Change(s, [files |-> disk[s].files, inventory |-> Missing])
    BY <1>1, <1>3 DEF LoseInventory
  <2>2. QED
    BY <1>2, <2>1, EmptyType
<1>4. CASE Regenerate(s)
  <2> DEFINE listed == DOMAIN inventory.entries
             files  == [n \in listed |-> disk[s].files[n]]
             i      == Listing(inventory.id, files)
  <2>1. listed \subseteq DOMAIN disk[s].files /\ listed \subseteq Names
    BY <1>1, <1>4 DEF Regenerate, IsInventory, AreFiles
  <2>2. AreFiles(files, Names)
    BY <1>1, <2>1 DEF AreFiles
  <2>3. Change(s, [files |-> disk[s].files, inventory |-> i])
    BY <1>1, <1>4 DEF Regenerate
  <2> HIDE DEF files
  <2>4. IsInventory(i)
    BY <2>2 DEF Listing, IsInventory
  <2>5. QED
    BY <1>2, <2>3, <2>4
<1>5. CASE \E r \in Run : Relabel(s, r.id)
  <2>1. PICK r \in Run : Relabel(s, r.id)
    BY <1>5
  <2> DEFINE i == [inventory EXCEPT !.id = r.id]
  <2>2. Change(s, [files |-> disk[s].files, inventory |-> i])
    BY <1>1, <2>1 DEF Relabel
  <2>3. IsInventory(i)
    BY <1>1 DEF IsInventory
  <2>4. QED
    BY <1>2, <2>2, <2>3
<1>6. QED
  BY <1>3, <1>4, <1>5

\* A disturbance replaces one bundle by a decayed one.
LEMMA DisturbIsDecay ==
    ASSUME TypeOK, WellFormed, Disturb
    PROVE  \E s \in Slot : \E b : Change(s, b) /\ IsBundle(b) /\ DecaysTo(s, b)
<1>1. guess \in Nat /\ size \in Sizes /\ \A s \in Slot : author[s] \in Run
  BY DEF TypeOK, AccountingTypeOK
<1>2. PICK s \in Slot :
         \/ \E n \in Names : Damage(s, n) \/ Lose(s, n) \/ Mix(s, n) \/ Drop(s, n)
         \/ \E n \in Stray : Add(s, n)
         \/ LoseInventory(s) \/ Regenerate(s)
         \/ \E r \in Run : Relabel(s, r.id)
  BY DEF Disturb
<1>3. IsBundle(disk[s]) /\ author[s] \in Run
  BY <1>1 DEF WellFormed
<1>4. ASSUME NEW n \in Names, Damage(s, n)
      PROVE  \E b : Change(s, b) /\ IsBundle(b) /\ DecaysTo(s, b)
  <2>1. Original(author[s], n) \in Content /\ Original(author[s], n).says # Nobody
    BY <1>1, <1>3, OriginalType
  <2>2. PICK longer \in {0, 1} :
           Put(s, n, [says |-> Nobody, use |-> 0,
                      bytes |-> Original(author[s], n).bytes + longer])
    BY <1>4 DEF Damage
  <2> DEFINE content == [says |-> Nobody, use |-> 0,
                         bytes |-> Original(author[s], n).bytes + longer]
  <2>3. content \in Content /\ content # Original(author[s], n)
    BY <2>1 DEF Content, Sayings
  <2> HIDE DEF content
  <2>4. Put(s, n, content)
    BY <2>2 DEF content
  <2>5. QED
    BY <1>3, <2>3, <2>4, PutDecays
<1>5. ASSUME NEW n \in Names, Mix(s, n)
      PROVE  \E b : Change(s, b) /\ IsBundle(b) /\ DecaysTo(s, b)
  <2> DEFINE content == disk[Other(s)].files[n]
  <2>1. Other(s) \in Slot
    BY DEF Other, Slot
  <2>2. content \in Content /\ content # Original(author[s], n) /\ Put(s, n, content)
    BY <1>5, <2>1 DEF WellFormed, IsBundle, AreFiles, Mix
  <2>3. QED
    BY <1>3, <2>2, PutDecays
<1>6. ASSUME NEW n \in Stray, Add(s, n)
      PROVE  \E b : Change(s, b) /\ IsBundle(b) /\ DecaysTo(s, b)
  <2> DEFINE content == [says |-> Nobody, use |-> 0, bytes |-> 1]
  <2>1. content \in Content /\ n \notin Names
    BY DEF Content, Sayings, Names, Stray
  <2>2. Put(s, n, content)
    BY <1>6 DEF Add
  <2>3. QED
    BY <1>3, <2>1, <2>2, PutDecays
<1>7. QED
  BY <1>2, <1>3, <1>4, <1>5, <1>6, LossDecays, InventoryDecays

\* A disturbance leaves what the reader knows of the disk as it began.
LEMMA DisturbKeeps ==
    ASSUME ReadersInv, Disturb
    PROVE  ReadersInv'
<1> USE DEF ReadersInv
<1>0. PICK s \in Slot : \E b : Change(s, b) /\ IsBundle(b) /\ DecaysTo(s, b)
  BY DisturbIsDecay
<1>1. PICK b : Change(s, b) /\ IsBundle(b) /\ DecaysTo(s, b)
  BY <1>0
<1>2. /\ stage = "written" /\ verdict = "none"
      /\ disk' = [disk EXCEPT ![s] = b] /\ changes' = changes + 1 /\ quiet' = FALSE
      /\ changes < MaxChanges
      /\ UNCHANGED <<accounting, written, command, reading>>
  BY <1>1 DEF Change
<1> USE DEF accounting, written, command, reading
<1>3. /\ Names' = Names /\ \A r, n : Original(r, n)' = Original(r, n)
      /\ \A c : IsBundle(c)' <=> IsBundle(c)
      /\ \A i : IsInventory(i)' <=> IsInventory(i)
  BY <1>2, OriginalStays
<1>4. DOMAIN disk = Slot
  BY DEF TypeOK
<1>5. TypeOK'
  <2>1. \A t \in Slot : DOMAIN disk'[t].files \subseteq Names \cup Stray
    BY <1>1, <1>2, <1>4 DEF TypeOK, IsBundle, AreFiles
  <2>2. changes' \in 0 .. MaxChanges
    BY <1>2, DisturbedAssumption DEF TypeOK
  <2>3. QED
    BY <1>2, <1>3, <1>4, <2>1, <2>2 DEF TypeOK, AccountingTypeOK, Kinds
<1>6. WellFormed'
  BY <1>1, <1>2, <1>3, <1>4 DEF WellFormed, AreFiles
<1>7. Accounted'
  <2>1. family = "run" => AccountingInv'
    BY <1>2, EndKeeps DEF Accounted
  <2>2. QED
    BY <1>2, <2>1 DEF Accounted
<1>8. Untouched'
  BY <1>2 DEF Untouched, TypeOK
<1>9. Plan(kind)' = Plan(kind) /\ \A w, t : Done(w, t)' <=> Done(w, t)
  BY <1>2 DEF Plan, Job, Done
<1>10. Remains'
  BY <1>2, <1>9 DEF Remains
<1>11. OnlyDecays'
  <2>1. ASSUME NEW t \in Slot
        PROVE  /\ \A n \in Names : AsFinalized(disk, t, n)' => AsFinalized(disk, t, n)
               /\ \A n \in Names : AsFinalized(before, t, n)' <=> AsFinalized(before, t, n)
               /\ "stray" \in DOMAIN disk[t].files => "stray" \in DOMAIN disk'[t].files
    <3>1. CASE t = s
      BY <1>1, <1>2, <1>3, <1>4, <3>1 DEF DecaysTo, AsFinalized
    <3>2. CASE t # s
      BY <1>2, <1>3, <1>4, <3>2 DEF AsFinalized
    <3>3. QED
      BY <3>1, <3>2
  <2>2. QED
    BY <1>2, <1>3, <2>1 DEF OnlyDecays
<1>12. \A t \in Slot : \A n : EntryChecked(t, n) => EntryChecked(t, n)'
  BY <1>2, <1>3 DEF EntryChecked, AsFinalized
<1>13. JobsDone'
  <2>1. ASSUME NEW t \in Slot
        PROVE  /\ InventoryRead(t) => InventoryRead(t)'
               /\ EntriesRead(t) => EntriesRead(t)'
               /\ ListingRead(t) => ListingRead(t)'
               /\ Loaded(t) => Loaded(t)'
               /\ Anchored(t) => Anchored(t)'
    <3>1. AnchorsHold(t)' <=> AnchorsHold(t)
      BY <1>2 DEF AnchorsHold, VerifiedBytes, BytesOf
    <3>2. QED
      BY <1>2, <1>3, <1>12, <3>1 DEF InventoryRead, EntriesRead, ListingRead, Loaded, Load, Anchored
  <2>2. QED
    BY <1>2, <1>9, <2>1 DEF JobsDone
<1>14. JobUnderWay'
  BY <1>2, <1>12 DEF JobUnderWay, Job
<1>15. LoadedFromDisk' /\ Concluded' /\ UndisturbedIsAccepted'
  BY <1>2 DEF LoadedFromDisk, Load, Names, Concluded, Accepted, UndisturbedIsAccepted
<1>16. QED
  BY <1>5, <1>6, <1>7, <1>8, <1>10, <1>11, <1>13, <1>14, <1>15

\* A reader that begins has done nothing and sees the disk as it is.
LEMMA BeginKeeps ==
    ASSUME ReadersInv, NEW k \in Kinds, Begin(k)
    PROVE  ReadersInv'
<1> USE DEF ReadersInv
<1>1. /\ stage = "written" /\ kind = "none" /\ kind' = k /\ before' = disk /\ quiet' = TRUE
      /\ plan' = Plan(k)
      /\ UNCHANGED <<accounting, written, disk, changes, todo, inv, loaded, verdict>>
  BY DEF Begin
<1> USE DEF accounting, written
<1>2. /\ Names' = Names /\ \A r, n : Original(r, n)' = Original(r, n)
      /\ \A c : IsBundle(c)' <=> IsBundle(c)
      /\ \A i : IsInventory(i)' <=> IsInventory(i)
      /\ \A r : Finalized(r)' = Finalized(r)
  BY <1>1, OriginalStays
<1>3. family \in {"run", "campaign"} /\ k # "none" /\ wanted' \in Run
  BY DEF TypeOK, Kinds, Begin
<1>4. Plan(k) \in Seq(Jobs) /\ Len(Plan(k)) \in Nat \ {0} /\ Plan(kind)' = Plan(k)
  BY <1>1, <1>3, PlanType DEF Plan, Job
<1>5. TypeOK'
  BY <1>1, <1>2, <1>3 DEF TypeOK, AccountingTypeOK, Kinds
<1>6. WellFormed' /\ Untouched'
  BY <1>1, <1>2, <1>3, <1>4 DEF WellFormed, AreFiles, Untouched
<1>7. Accounted'
  <2>1. family = "run" => AccountingInv'
    BY <1>1, EndKeeps DEF Accounted
  <2>2. QED
    BY <1>1, <2>1 DEF Accounted
<1>8. Remains' /\ \A w, s : ~ Done(w, s)'
  BY <1>1, <1>4 DEF Remains, Done
<1>9. OnlyDecays'
  BY <1>1, <1>2 DEF OnlyDecays, AsFinalized
<1>10. JobsDone'
  BY <1>8 DEF JobsDone
<1>11. JobUnderWay'
  <2>1. Plan(k)[1].what # "entries"
    BY <1>3, <1>4, InventoryFirst
  <2>2. QED
    BY <1>1, <1>4, <2>1 DEF JobUnderWay, Job
<1>12. verdict = "none" /\ \A s \in Slot : loaded[s] = Nothing
  BY <1>1 DEF Untouched
<1>13. LoadedFromDisk' /\ Concluded' /\ UndisturbedIsAccepted'
  BY <1>1, <1>12 DEF LoadedFromDisk, Nothing, Concluded, Accepted, UndisturbedIsAccepted
<1>14. QED
  BY <1>5, <1>6, <1>7, <1>8, <1>9, <1>10, <1>11, <1>13

----------------------------------------------------------------------------
\* Readers.

\* A reader changes neither the bundles nor what it has to find in them.
LEMMA BundlesStay ==
    ASSUME ReadersInv, Undisturbed, kind # "none",
           todo' \subseteq Names, plan' \in Seq(Jobs),
           verdict' \in {"none", "rejected", "accepted", "equal", "different"},
           DOMAIN inv' = Slot, DOMAIN loaded' = Slot,
           \A s \in Slot : IsInventory(inv'[s]) /\ AreFiles(loaded'[s], Names)
    PROVE  TypeOK' /\ WellFormed' /\ Accounted' /\ Untouched' /\ OnlyDecays'
<1> USE DEF ReadersInv, Undisturbed, accounting, written, storage, command
<1>1. /\ Names' = Names /\ \A r, n : Original(r, n)' = Original(r, n)
      /\ \A c : IsBundle(c)' <=> IsBundle(c)
      /\ \A i : IsInventory(i)' <=> IsInventory(i)
      /\ \A r : Finalized(r)' = Finalized(r)
  BY OriginalStays
<1>2. TypeOK'
  BY <1>1 DEF TypeOK, AccountingTypeOK, Kinds, AreFiles
<1>3. WellFormed'
  BY <1>1 DEF WellFormed, AreFiles
<1>4. Accounted'
  <2>1. family = "run" => AccountingInv'
    BY EndKeeps DEF Accounted
  <2>2. QED
    BY <2>1 DEF Accounted
<1>5. Untouched' /\ OnlyDecays'
  BY <1>1 DEF Untouched, OnlyDecays, AsFinalized
<1>6. QED
  BY <1>2, <1>3, <1>4, <1>5

\* What is known of a bundle stays known while its inventory and what was loaded
\* from it stay.
LEMMA FactsStay ==
    ASSUME Undisturbed, NEW s, inv'[s] = inv[s]
    PROVE  /\ \A n : EntryChecked(s, n)' <=> EntryChecked(s, n)
           /\ InventoryRead(s)' <=> InventoryRead(s)
           /\ EntriesRead(s)' <=> EntriesRead(s)
           /\ ListingRead(s)' <=> ListingRead(s)
           /\ loaded'[s] = loaded[s] => /\ Loaded(s)' <=> Loaded(s)
                                        /\ Anchored(s)' <=> Anchored(s)
<1> USE DEF Undisturbed, accounting, written, storage, command
<1>1. /\ Names' = Names /\ \A r, n : Original(r, n)' = Original(r, n)
      /\ \A e : VerifiedBytes(e)' = VerifiedBytes(e)
  BY OriginalStays
<1>2. \A n : EntryChecked(s, n)' <=> EntryChecked(s, n)
  BY <1>1 DEF EntryChecked, EntryVerifies, AsFinalized
<1>3. EntriesRead(s)' <=> EntriesRead(s)
  BY <1>2 DEF EntriesRead
<1>4. (InventoryRead(s)' <=> InventoryRead(s)) /\ (ListingRead(s)' <=> ListingRead(s))
  BY DEF InventoryRead, ListingRead, ListingHolds
<1>5. ASSUME loaded'[s] = loaded[s]
      PROVE  (Loaded(s)' <=> Loaded(s)) /\ (Anchored(s)' <=> Anchored(s))
  BY <1>1, <1>5 DEF Loaded, Load, Anchored, AnchorsHold
<1>6. QED
  BY <1>2, <1>3, <1>4, <1>5

\* A reader is at a job of its plan.
LEMMA AtJob ==
    ASSUME ReadersInv, NEW w, At(w)
    PROVE  /\ kind # "none" /\ verdict = "none" /\ plan # << >>
           /\ Here \in Slot /\ Head(plan) = Job(w, Here)
<1>1. kind # "none" /\ verdict = "none" /\ plan # << >> /\ Head(plan).what = w
  BY DEF At, ReadersInv, Untouched
<1>2. Head(plan) \in Jobs
  BY <1>1, HeadJob DEF ReadersInv
<1>3. QED
  BY <1>1, <1>2 DEF Here, Jobs, Job

\* A job other than the reading of an inventory, when it has established what it is
\* there to establish.
LEMMA JobKeeps ==
    ASSUME ReadersInv, Undisturbed, NEW w, At(w), w # "inventory",
           plan' = Tail(plan), UNCHANGED <<todo, inv, loaded, verdict>>,
           w = "entries" => EntriesRead(Here),
           w = "listing" => ListingRead(Here),
           w = "load" => Loaded(Here),
           w = "anchors" => Anchored(Here)
    PROVE  ReadersInv'
<1>1. /\ kind # "none" /\ verdict = "none" /\ plan # << >>
      /\ Here \in Slot /\ Head(plan) = Job(w, Here)
  BY AtJob
<1>2. UNCHANGED <<kind, family, quiet, disk, changes>>
  BY DEF Undisturbed, written, command, storage
<1>3. /\ Remains' /\ plan' \in Seq(Jobs)
      /\ \A v, s : Done(v, s)' <=> Done(v, s) \/ Head(plan) = Job(v, s)
      /\ plan' # << >> /\ Head(plan').what = "entries" =>
            Head(plan) = Job("inventory", Head(plan').slot)
  BY <1>1, <1>2, JobDone DEF ReadersInv
<1>4. TypeOK' /\ WellFormed' /\ Accounted' /\ Untouched' /\ OnlyDecays'
  BY <1>1, <1>3, BundlesStay DEF ReadersInv, TypeOK, WellFormed
<1>5. JobsDone'
  <2>1. SUFFICES ASSUME NEW s \in Slot
                 PROVE  /\ Done("inventory", s)' => InventoryRead(s)'
                        /\ Done("entries", s)'   => EntriesRead(s)'
                        /\ Done("listing", s)'   => ListingRead(s)'
                        /\ Done("load", s)'      => Loaded(s)'
                        /\ Done("anchors", s)'   => Anchored(s)'
    BY DEF JobsDone
  <2>2. /\ InventoryRead(s)' <=> InventoryRead(s)
        /\ EntriesRead(s)' <=> EntriesRead(s)
        /\ ListingRead(s)' <=> ListingRead(s)
        /\ Loaded(s)' <=> Loaded(s)
        /\ Anchored(s)' <=> Anchored(s)
    BY FactsStay
  <2>3. \A v : Done(v, s)' => Done(v, s) \/ (v = w /\ s = Here)
    BY <1>1, <1>3 DEF Job
  <2>4. QED
    BY <1>1, <2>2, <2>3 DEF ReadersInv, JobsDone
<1>6. JobUnderWay'
  BY <1>1, <1>3 DEF JobUnderWay, Job
<1>7. LoadedFromDisk'
  BY <1>2 DEF LoadedFromDisk, Load, Names, ReadersInv
<1>8. Concluded' /\ UndisturbedIsAccepted'
  BY <1>1 DEF Concluded, Accepted, UndisturbedIsAccepted
<1>9. QED
  BY <1>3, <1>4, <1>5, <1>6, <1>7, <1>8 DEF ReadersInv

\* A verdict ends the reading.
LEMMA VerdictKeeps ==
    ASSUME ReadersInv, Undisturbed, kind # "none", UNCHANGED <<plan, todo, inv, loaded>>,
           verdict' \in {"rejected", "accepted", "equal", "different"},
           Concluded', UndisturbedIsAccepted'
    PROVE  ReadersInv'
<1> USE DEF ReadersInv
<1>1. TypeOK' /\ WellFormed' /\ Accounted' /\ Untouched' /\ OnlyDecays'
  BY BundlesStay DEF TypeOK, WellFormed
<1>2. Plan(kind)' = Plan(kind) /\ \A w, s : Done(w, s)' <=> Done(w, s)
  BY DEF Undisturbed, written, command, Plan, Job, Done
<1>3. Remains' /\ LoadedFromDisk'
  BY <1>2 DEF Remains, LoadedFromDisk, Load, Names, Undisturbed, command, storage, written
<1>4. ASSUME NEW s
      PROVE  /\ \A n : EntryChecked(s, n)' <=> EntryChecked(s, n)
             /\ InventoryRead(s)' <=> InventoryRead(s)
             /\ EntriesRead(s)' <=> EntriesRead(s)
             /\ ListingRead(s)' <=> ListingRead(s)
             /\ Loaded(s)' <=> Loaded(s)
             /\ Anchored(s)' <=> Anchored(s)
  BY FactsStay
<1>5. JobsDone'
  BY <1>2, <1>4 DEF JobsDone, Undisturbed, command
<1>6. JobUnderWay'
  BY <1>4 DEF JobUnderWay, Job
<1>7. QED
  BY <1>1, <1>3, <1>5, <1>6

\* A rejection, if not of an undisturbed bundle or by a recovery of another run.
LEMMA RejectKeeps ==
    ASSUME ReadersInv, Undisturbed, kind # "none", Reject,
           changes = 0 => kind = "recover" /\ wanted # author["a"]
    PROVE  ReadersInv'
<1>1. verdict' = "rejected" /\ UNCHANGED <<plan, todo, inv, loaded, changes, kind, wanted, author>>
  BY DEF Reject, Undisturbed, storage, command, written
<1>2. Concluded' /\ UndisturbedIsAccepted'
  BY <1>1 DEF Concluded, Accepted, UndisturbedIsAccepted
<1>3. QED
  BY <1>1, <1>2, VerdictKeeps

\* What a reader has read of an undisturbed bundle is what was finalized.
LEMMA UndisturbedFacts ==
    ASSUME ReadersInv, changes = 0, kind # "none", NEW s \in Slot
    PROVE  /\ author[s] \in Run /\ stage = "written" /\ quiet
           /\ disk[s].inventory = Listing(author[s].id, disk[s].files)
           /\ disk[s].inventory # Missing
           /\ DOMAIN disk[s].files = Names
           /\ \A n \in Names : disk[s].files[n] = Original(author[s], n)
           /\ Done("inventory", s) => inv[s] = disk[s].inventory
           /\ \A n \in DOMAIN loaded[s] : loaded[s][n] = Original(author[s], n)
<1> USE DEF ReadersInv
<1>1. author[s] \in Run /\ stage = "written" /\ quiet /\ disk[s] = Finalized(author[s])
  BY DEF TypeOK, Untouched
<1>2. guess \in Nat /\ size \in Sizes
  BY DEF TypeOK, AccountingTypeOK
<1>3. /\ disk[s].inventory = Listing(author[s].id, disk[s].files)
      /\ disk[s].inventory # Missing
      /\ DOMAIN disk[s].files = Names
      /\ \A n \in Names : disk[s].files[n] = Original(author[s], n)
  BY <1>1, <1>2, FinalizedType
<1>4. Done("inventory", s) => inv[s] = disk[s].inventory
  BY <1>1 DEF JobsDone, InventoryRead
<1>5. \A n \in DOMAIN loaded[s] : loaded[s][n] = Original(author[s], n)
  BY <1>1, <1>3 DEF LoadedFromDisk
<1>6. QED
  BY <1>1, <1>3, <1>4, <1>5

\* A run's bundle is as large as it says when the accounting has converged.
LEMMA ReportedIsVerified ==
    ASSUME ReadersInv, stage = "written", family = "run", NEW r \in Run
    PROVE  Original(r, "execution").use = VerifiedBytes([n \in Names |-> Original(r, n)])
<1> DEFINE files == [n \in Names |-> Original(r, n)]
<1>1. /\ size \in Sizes /\ guess \in Nat /\ BundleBytes(guess) = guess
  BY DEF ReadersInv, Accounted, AccountingInv, StageTold, AccountingTypeOK
<1>2. {"manifest", "execution", "records", "target"} \subseteq Names
  BY DEF Names
<1>3. /\ BytesOf(files, "manifest") = 1 /\ BytesOf(files, "records") = 1
      /\ BytesOf(files, "target") = 1
      /\ BytesOf(files, "execution") = ExecutionBytes(guess)
      /\ "execution" \in DOMAIN files
      /\ files["execution"].bytes = ExecutionBytes(guess)
  BY <1>2 DEF BytesOf, Original
<1>4. Original(r, "execution").use = guess
  BY DEF Original, Reported
<1>5. ExecutionBytes(guess) \in Nat /\ Digits(ExecutionBytes(guess)) \in Nat
  BY <1>1, SizeType, DigitsRange DEF ExecutionBytes
<1> HIDE DEF files
<1>6. VerifiedBytes(files) = BundleBytes(guess)
  BY <1>1, <1>3, <1>5, SizeType DEF VerifiedBytes, BundleBytes
<1>7. QED
  BY <1>1, <1>4, <1>6 DEF files

\* The inventory of a bundle is read first, and its entries are next.
LEMMA InventoryKeeps ==
    ASSUME ReadersInv, ReadInventory
    PROVE  ReadersInv'
<1>1. /\ kind # "none" /\ verdict = "none" /\ plan # << >>
      /\ Here \in Slot /\ Head(plan) = Job("inventory", Here)
  BY AtJob DEF ReadInventory
<1>2. Undisturbed
  BY DEF ReadInventory
<1>3. CASE disk[Here].inventory = Missing
  <2>1. changes # 0
    BY <1>1, <1>3, UndisturbedFacts
  <2>2. Reject
    BY <1>3 DEF ReadInventory
  <2>3. QED
    BY <1>1, <1>2, <2>1, <2>2, RejectKeeps
<1>4. CASE disk[Here].inventory # Missing
  <2> DEFINE here == Here
  <2>1. /\ inv' = [inv EXCEPT ![here] = disk[here].inventory]
        /\ todo' = DOMAIN disk[here].inventory.entries
        /\ plan' = Tail(plan)
        /\ UNCHANGED <<loaded, verdict>>
    BY <1>4 DEF ReadInventory
  <2>2. UNCHANGED <<kind, family, quiet, disk, changes, before>>
    BY <1>2 DEF Undisturbed, written, command, storage
  <2>3. /\ Remains' /\ plan' \in Seq(Jobs)
        /\ \A v, s : Done(v, s)' <=> Done(v, s) \/ Head(plan) = Job(v, s)
        /\ plan' # << >> /\ Head(plan').what = "entries" =>
              Head(plan) = Job("inventory", Head(plan').slot)
    BY <1>1, <2>1, <2>2, JobDone DEF ReadersInv
  <2>4. here \in Slot /\ Head(plan) = Job("inventory", here) /\ disk[here].inventory # Missing
    BY <1>1, <1>4
  <2>5. \A v : ~ Done(v, here)
    BY <1>1, HeadJob DEF ReadersInv, Job
  <2> HIDE DEF here
  <2>6. DOMAIN inv = Slot /\ IsInventory(disk[here].inventory)
    BY <2>4 DEF ReadersInv, WellFormed, IsBundle
  <2>7. todo' \subseteq Names
    BY <2>1, <2>6 DEF IsInventory, AreFiles
  <2>8. TypeOK' /\ WellFormed' /\ Accounted' /\ Untouched' /\ OnlyDecays'
    <3>1. \A s \in Slot : IsInventory(inv'[s]) /\ AreFiles(loaded'[s], Names)
      BY <2>1, <2>6 DEF ReadersInv, WellFormed
    <3>2. QED
      BY <1>1, <1>2, <2>1, <2>3, <2>6, <2>7, <3>1, BundlesStay DEF ReadersInv, TypeOK, WellFormed
  <2>9. JobsDone'
    <3>1. SUFFICES ASSUME NEW s \in Slot
                   PROVE  /\ Done("inventory", s)' => InventoryRead(s)'
                          /\ Done("entries", s)'   => EntriesRead(s)'
                          /\ Done("listing", s)'   => ListingRead(s)'
                          /\ Done("load", s)'      => Loaded(s)'
                          /\ Done("anchors", s)'   => Anchored(s)'
      BY DEF JobsDone
    <3>2. CASE s = here
      <4>1. InventoryRead(s)'
        BY <2>1, <2>2, <2>4, <2>6, <3>2 DEF InventoryRead
      <4>2. \A v : Done(v, s)' => v = "inventory"
        BY <2>3, <2>4, <2>5, <3>2 DEF Job
      <4>3. QED
        BY <4>1, <4>2
    <3>3. CASE s # here
      <4>1. inv'[s] = inv[s] /\ loaded'[s] = loaded[s]
        BY <2>1, <2>6, <3>3
      <4>2. \A v : Done(v, s)' <=> Done(v, s)
        BY <2>3, <2>4, <3>3 DEF Job
      <4>3. QED
        BY <1>1, <1>2, <4>1, <4>2, FactsStay DEF ReadersInv, JobsDone
    <3>4. QED
      BY <3>2, <3>3
  <2>10. JobUnderWay'
    BY <2>1, <2>3, <2>4, <2>6 DEF JobUnderWay, Job
  <2>11. LoadedFromDisk' /\ Concluded' /\ UndisturbedIsAccepted'
    BY <1>1, <2>1, <2>2
       DEF ReadersInv, LoadedFromDisk, Load, Names, Concluded, Accepted, UndisturbedIsAccepted
  <2>12. QED
    BY <2>3, <2>8, <2>9, <2>10, <2>11 DEF ReadersInv
<1>5. QED
  BY <1>3, <1>4

\* Each entry that is verified was as the inventory says; if that is as it was
\* finalized, it was so when the reader began.
LEMMA EntryKeeps ==
    ASSUME ReadersInv, VerifyEntry
    PROVE  ReadersInv'
<1>1. /\ kind # "none" /\ verdict = "none" /\ plan # << >>
      /\ Here \in Slot /\ Head(plan) = Job("entries", Here)
  BY AtJob DEF VerifyEntry
<1>2. Undisturbed /\ todo # {}
  BY DEF VerifyEntry
<1> DEFINE n == FirstOf(todo)
<1>0. PICK here \in Slot : here = Here
  BY <1>1
<1>3. n \in todo
  BY <1>2 DEF FirstOf
<1>4. \/ EntryVerifies(here, n) /\ todo' = todo \ {n} /\ UNCHANGED <<plan, inv, loaded, verdict>>
      \/ ~ EntryVerifies(here, n) /\ Reject
  BY <1>0 DEF VerifyEntry
<1>5. here \in Slot /\ Head(plan) = Job("entries", here) /\ Done("inventory", here)
  BY <1>0, <1>1, HeadJob DEF ReadersInv, Job
<1> HIDE DEF n
<1>6. /\ todo \subseteq DOMAIN inv[here].entries /\ n \in DOMAIN inv[here].entries /\ n \in Names
      /\ \A m \in DOMAIN inv[here].entries \ todo : EntryChecked(here, m)
  BY <1>1, <1>3, <1>5 DEF ReadersInv, JobUnderWay, TypeOK
<1>7. CASE ~ EntryVerifies(here, n) /\ Reject
  <2>1. changes # 0
    <3>1. SUFFICES ASSUME changes = 0 PROVE FALSE
      OBVIOUS
    <3>2. /\ disk[here].inventory = Listing(author[here].id, disk[here].files)
          /\ DOMAIN disk[here].files = Names /\ inv[here] = disk[here].inventory
      BY <1>1, <1>5, <3>1, UndisturbedFacts
    <3>3. inv[here].entries = disk[here].files
      BY <3>2 DEF Listing
    <3>4. QED
      BY <1>6, <1>7, <3>2, <3>3 DEF EntryVerifies
  <2>2. QED
    BY <1>1, <1>2, <1>7, <2>1, RejectKeeps
<1>8. CASE EntryVerifies(here, n) /\ todo' = todo \ {n} /\ UNCHANGED <<plan, inv, loaded, verdict>>
  <2>1. UNCHANGED <<kind, family, quiet, disk, changes, before>>
    BY <1>2 DEF Undisturbed, written, command, storage
  <2>2. TypeOK' /\ WellFormed' /\ Accounted' /\ Untouched' /\ OnlyDecays'
    BY <1>1, <1>2, <1>8, BundlesStay DEF ReadersInv, TypeOK, WellFormed
  <2>3. Plan(kind)' = Plan(kind) /\ \A w, s : Done(w, s)' <=> Done(w, s)
    BY <1>8, <2>1 DEF Plan, Job, Done
  <2>4. Remains'
    BY <1>8, <2>1, <2>3 DEF ReadersInv, Remains
  <2>5. \A s : /\ \A m : EntryChecked(s, m)' <=> EntryChecked(s, m)
               /\ InventoryRead(s)' <=> InventoryRead(s)
               /\ EntriesRead(s)' <=> EntriesRead(s)
               /\ ListingRead(s)' <=> ListingRead(s)
               /\ Loaded(s)' <=> Loaded(s)
               /\ Anchored(s)' <=> Anchored(s)
    BY <1>2, <1>8, FactsStay
  <2>6. JobsDone'
    BY <1>1, <2>3, <2>5 DEF ReadersInv, JobsDone
  <2>7. EntryChecked(here, n)
    BY <1>1, <1>5, <1>6, <1>8 DEF EntryChecked, EntryVerifies, AsFinalized, ReadersInv, OnlyDecays
  <2>8. JobUnderWay'
    <3>1. ASSUME NEW s, plan' # << >> /\ Head(plan') = Job("entries", s)
          PROVE  s = here
      BY <1>5, <1>8, <3>1 DEF Job
    <3>2. \A m \in DOMAIN inv[here].entries \ todo' : EntryChecked(here, m)
      BY <1>6, <1>8, <2>7
    <3>3. todo' \subseteq DOMAIN inv'[here].entries
      BY <1>6, <1>8
    <3>4. \A m \in DOMAIN inv'[here].entries \ todo' : EntryChecked(here, m)'
      <4> SUFFICES ASSUME NEW m \in DOMAIN inv'[here].entries \ todo'
                   PROVE  EntryChecked(here, m)'
        OBVIOUS
      <4>1. EntryChecked(here, m)
        BY <1>8, <3>2
      <4>2. QED
        BY <2>5, <4>1
    <3>5. QED
      BY <3>1, <3>3, <3>4 DEF JobUnderWay
  <2>9. LoadedFromDisk' /\ Concluded' /\ UndisturbedIsAccepted'
    BY <1>1, <1>8, <2>1
       DEF ReadersInv, LoadedFromDisk, Load, Names, Concluded, Accepted, UndisturbedIsAccepted
  <2>10. QED
    BY <2>2, <2>4, <2>6, <2>8, <2>9 DEF ReadersInv
<1>9. QED
  BY <1>4, <1>7, <1>8

\* When no entry is left, all have been verified.
LEMMA EntriesKeep ==
    ASSUME ReadersInv, EntriesVerified
    PROVE  ReadersInv'
<1>1. At("entries") /\ todo = {} /\ Undisturbed /\ plan' = Tail(plan)
      /\ UNCHANGED <<todo, inv, loaded, verdict>>
  BY DEF EntriesVerified
<1>2. plan # << >> /\ Here \in Slot /\ Head(plan) = Job("entries", Here)
  BY <1>1, AtJob
<1>3. EntriesRead(Here)
  BY <1>1, <1>2 DEF ReadersInv, JobUnderWay, EntriesRead
<1>4. QED
  BY <1>1, <1>3, JobKeeps

\* A listing that holds shows that no file has been added.
LEMMA ListKeeps ==
    ASSUME ReadersInv, List
    PROVE  ReadersInv'
<1>1. At("listing") /\ Undisturbed
  BY DEF List
<1>2. /\ kind # "none" /\ verdict = "none" /\ plan # << >>
      /\ Here \in Slot /\ Head(plan) = Job("listing", Here)
  BY <1>1, AtJob
<1>3. CASE ListingHolds(Here)
  <2>1. plan' = Tail(plan) /\ UNCHANGED <<todo, inv, loaded, verdict>>
    BY <1>3 DEF List
  <2>2. DOMAIN inv[Here].entries \subseteq Names /\ "stray" \notin Names
    BY <1>2 DEF ReadersInv, WellFormed, IsInventory, AreFiles, Names
  <2>3. "stray" \notin DOMAIN disk[Here].files
    BY <1>3, <2>2 DEF ListingHolds
  <2>4. ListingRead(Here)
    BY <1>2, <1>3, <2>3 DEF ListingRead, ReadersInv, OnlyDecays
  <2>5. QED
    BY <1>1, <2>1, <2>4, JobKeeps
<1>4. CASE ~ ListingHolds(Here)
  <2>1. changes # 0
    <3>1. SUFFICES ASSUME changes = 0 PROVE FALSE
      OBVIOUS
    <3>2. Done("inventory", Here)
      BY <1>2, HeadJob DEF ReadersInv, Job
    <3>3. /\ inv[Here] = Listing(author[Here].id, disk[Here].files)
          /\ DOMAIN disk[Here].files = Names
      BY <1>2, <3>1, <3>2, UndisturbedFacts
    <3>4. "nested" \notin Names
      BY DEF Names
    <3>5. QED
      BY <1>4, <3>3, <3>4 DEF Listing, ListingHolds
  <2>2. QED
    BY <1>1, <1>2, <1>4, <2>1, RejectKeeps DEF List
<1>5. QED
  BY <1>3, <1>4

\* What a reader loads is on the disk.
LEMMA LoadKeeps ==
    ASSUME ReadersInv, LoadFile
    PROVE  ReadersInv'
<1>1. /\ kind # "none" /\ verdict = "none" /\ plan # << >>
      /\ Here \in Slot /\ Head(plan) = Job("load", Here)
  BY AtJob DEF LoadFile
<1>2. PICK here \in Slot : here = Here
  BY <1>1
<1> DEFINE n    == FirstOf(Load \ DOMAIN loaded[here])
           file == disk[here].files[n]
<1>3. /\ Undisturbed /\ DOMAIN loaded[here] # Load
      /\ \/ /\ n \in DOMAIN disk[here].files /\ file.says # Nobody
            /\ loaded' = [loaded EXCEPT ![here] = With(loaded[here], n, file)]
            /\ UNCHANGED <<plan, todo, inv, verdict>>
         \/ ~ (n \in DOMAIN disk[here].files /\ file.says # Nobody) /\ Reject
  BY <1>2 DEF LoadFile, Files
<1>4. n \in Load /\ n \in Names /\ n \notin DOMAIN loaded[here]
  <2>1. DOMAIN loaded[here] \subseteq Load
    BY DEF ReadersInv, LoadedFromDisk
  <2>2. n \in Load \ DOMAIN loaded[here]
    BY <1>3, <2>1 DEF FirstOf
  <2>3. QED
    BY <2>2 DEF Load
<1> HIDE DEF n
<1>5. CASE ~ (n \in DOMAIN disk[here].files /\ file.says # Nobody) /\ Reject
  <2>1. changes # 0
    <3>1. SUFFICES ASSUME changes = 0 PROVE FALSE
      OBVIOUS
    <3>2. author[here] \in Run /\ n \in DOMAIN disk[here].files /\ file = Original(author[here], n)
      BY <1>1, <1>4, <3>1, UndisturbedFacts
    <3>3. QED
      BY <1>5, <3>2, OriginalType DEF ReadersInv, TypeOK, AccountingTypeOK
  <2>2. QED
    BY <1>1, <1>3, <1>5, <2>1, RejectKeeps
<1>6. CASE /\ n \in DOMAIN disk[here].files
           /\ loaded' = [loaded EXCEPT ![here] = With(loaded[here], n, file)]
           /\ UNCHANGED <<plan, todo, inv, verdict>>
  <2>1. UNCHANGED <<kind, family, quiet, disk, changes, before>>
    BY <1>3 DEF Undisturbed, written, command, storage
  <2>2. /\ DOMAIN loaded = Slot /\ DOMAIN loaded' = Slot
        /\ loaded'[here] = With(loaded[here], n, file)
        /\ \A s \in Slot \ {here} : loaded'[s] = loaded[s]
    BY <1>6 DEF ReadersInv, WellFormed
  <2>3. \A s \in Slot : AreFiles(loaded[s], Names) /\ IsInventory(inv[s])
    BY DEF ReadersInv, WellFormed
  <2>4. file \in Content
    BY <1>6 DEF ReadersInv, WellFormed, IsBundle, AreFiles
  <2> HIDE DEF file
  <2>5. AreFiles(loaded'[here], Names)
    BY <1>4, <2>2, <2>3, <2>4, WithType
  <2>6. TypeOK' /\ WellFormed' /\ Accounted' /\ Untouched' /\ OnlyDecays'
    <3>1. \A s \in Slot : IsInventory(inv'[s]) /\ AreFiles(loaded'[s], Names)
      BY <1>6, <2>2, <2>3, <2>5
    <3>2. QED
      BY <1>1, <1>3, <1>6, <2>2, <3>1, BundlesStay DEF ReadersInv, TypeOK, WellFormed
  <2>7. Plan(kind)' = Plan(kind) /\ \A w, s : Done(w, s)' <=> Done(w, s)
    BY <1>6, <2>1 DEF Plan, Job, Done
  <2>8. Remains'
    BY <1>6, <2>1, <2>7 DEF ReadersInv, Remains
  <2>9. JobsDone'
    <3>1. SUFFICES ASSUME NEW s \in Slot
                   PROVE  /\ Done("inventory", s)' => InventoryRead(s)'
                          /\ Done("entries", s)'   => EntriesRead(s)'
                          /\ Done("listing", s)'   => ListingRead(s)'
                          /\ Done("load", s)'      => Loaded(s)'
                          /\ Done("anchors", s)'   => Anchored(s)'
      BY DEF JobsDone
    <3>2. inv'[s] = inv[s]
      BY <1>6
    <3>3. CASE s = here
      <4>1. ~ Loaded(s)
        BY <1>3, <3>3 DEF Loaded
      <4>2. ~ Done("load", s) /\ ~ Done("anchors", s)
        BY <1>1, <4>1 DEF ReadersInv, JobsDone, Anchored
      <4>3. QED
        BY <1>1, <1>3, <2>7, <3>2, <4>2, FactsStay DEF ReadersInv, JobsDone
    <3>4. CASE s # here
      <4>1. loaded'[s] = loaded[s]
        BY <2>2, <3>4
      <4>2. QED
        BY <1>1, <1>3, <2>7, <3>2, <4>1, FactsStay DEF ReadersInv, JobsDone
    <3>5. QED
      BY <3>3, <3>4
  <2>10. JobUnderWay'
    BY <1>1, <1>6 DEF JobUnderWay, Job
  <2>11. LoadedFromDisk'
    <3>1. Load' = Load
      BY <2>1 DEF Load, Names
    <3>2. SUFFICES ASSUME NEW s \in Slot
                   PROVE  /\ DOMAIN loaded'[s] \subseteq Load
                          /\ quiet => \A m \in DOMAIN loaded'[s] :
                                m \in DOMAIN disk[s].files /\ disk[s].files[m] = loaded'[s][m]
      BY <2>1, <3>1 DEF LoadedFromDisk
    <3>3. CASE s = here
      <4>1. DOMAIN loaded'[s] = DOMAIN loaded[s] \cup {n}
        BY <2>2, <3>3 DEF With
      <4>2. \A m \in DOMAIN loaded'[s] :
               loaded'[s][m] = IF m = n THEN disk[s].files[n] ELSE loaded[s][m]
        BY <2>2, <3>3 DEF With, file
      <4>3. QED
        BY <1>4, <1>6, <3>3, <4>1, <4>2 DEF ReadersInv, LoadedFromDisk
    <3>4. CASE s # here
      BY <2>2, <3>4 DEF ReadersInv, LoadedFromDisk
    <3>5. QED
      BY <3>3, <3>4
  <2>12. Concluded' /\ UndisturbedIsAccepted'
    BY <1>1, <1>6 DEF Concluded, Accepted, UndisturbedIsAccepted
  <2>13. QED
    BY <2>6, <2>8, <2>9, <2>10, <2>11, <2>12 DEF ReadersInv
<1>7. QED
  BY <1>3, <1>5, <1>6

\* When nothing is left to load, all is loaded.
LEMMA FilesKeep ==
    ASSUME ReadersInv, FilesLoaded
    PROVE  ReadersInv'
<1>1. /\ At("load") /\ DOMAIN loaded[Here] = Load /\ Undisturbed /\ plan' = Tail(plan)
      /\ UNCHANGED <<todo, inv, loaded, verdict>>
  BY DEF FilesLoaded
<1>2. QED
  BY <1>1, JobKeeps DEF Loaded

\* The anchors of an undisturbed bundle hold, and one recovers the run that wrote it.
LEMMA AnchorsKeep ==
    ASSUME ReadersInv, Anchors
    PROVE  ReadersInv'
<1>1. At("anchors") /\ Undisturbed
  BY DEF Anchors
<1>2. /\ kind # "none" /\ verdict = "none" /\ plan # << >>
      /\ Here \in Slot /\ Head(plan) = Job("anchors", Here)
  BY <1>1, AtJob
<1>3. Loaded(Here) /\ Done("inventory", Here)
  BY <1>2, HeadJob DEF ReadersInv, JobsDone, Job
<1>4. CASE AnchorsHold(Here) /\ (kind = "recover" => loaded[Here]["manifest"].says = wanted)
  <2>1. plan' = Tail(plan) /\ UNCHANGED <<todo, inv, loaded, verdict>>
    BY <1>4 DEF Anchors
  <2>2. QED
    BY <1>1, <1>3, <1>4, <2>1, JobKeeps DEF Anchored
<1>5. CASE ~ (AnchorsHold(Here) /\ (kind = "recover" => loaded[Here]["manifest"].says = wanted))
  <2>1. ASSUME changes = 0
        PROVE  kind = "recover" /\ wanted # author["a"]
    <3>1. PICK here \in Slot : here = Here
      BY <1>2
    <3>2. /\ author[here] \in Run /\ stage = "written"
          /\ DOMAIN disk[here].files = Names
          /\ \A n \in Names : disk[here].files[n] = Original(author[here], n)
          /\ inv[here] = Listing(author[here].id, disk[here].files)
          /\ \A n \in DOMAIN loaded[here] : loaded[here][n] = Original(author[here], n)
      BY <1>2, <1>3, <2>1, <3>1, UndisturbedFacts
    <3>3. DOMAIN loaded[here] = Load
      BY <1>3, <3>1 DEF Loaded
    <3>4. {"manifest", "execution"} \subseteq Load /\ (family = "run" => "target" \in Load)
      BY DEF Load, Names
    <3>5. /\ loaded[here]["manifest"].says = author[here]
          /\ loaded[here]["execution"].says = author[here]
          /\ loaded[here]["execution"] = Original(author[here], "execution")
          /\ family = "run" => loaded[here]["target"].says.scenario = author[here].scenario
      <4>1. /\ loaded[here]["manifest"] = Original(author[here], "manifest")
            /\ loaded[here]["execution"] = Original(author[here], "execution")
            /\ family = "run" => loaded[here]["target"] = Original(author[here], "target")
        BY <3>2, <3>3, <3>4
      <4>2. \A r : /\ Original(r, "manifest").says = r /\ Original(r, "execution").says = r
                    /\ Original(r, "target").says.scenario = r.scenario
        BY DEF Original, Nobody
      <4>3. QED
        BY <4>1, <4>2
    <3>6. disk[here].files = [n \in Names |-> Original(author[here], n)]
      BY <3>2 DEF ReadersInv, WellFormed, IsBundle, AreFiles
    <3>7. inv[here].id = author[here].id /\ inv[here].entries = disk[here].files
      BY <3>2 DEF Listing
    <3>8. AnchorsHold(here)
      BY <3>2, <3>5, <3>6, <3>7, ReportedIsVerified DEF AnchorsHold
    <3>9. kind = "recover" /\ author[here] # wanted
      BY <1>5, <3>1, <3>5, <3>8
    <3>10. here = "a"
      BY <1>2, <3>1, <3>9, FirstBundle DEF ReadersInv
    <3>11. QED
      BY <3>9, <3>10
  <2>2. QED
    BY <1>1, <1>2, <1>5, <2>1, RejectKeeps DEF Anchors
<1>6. QED
  BY <1>4, <1>5

\* A recovery reads the result again: it is the one it loaded, unless disturbed.
LEMMA AgainKeeps ==
    ASSUME ReadersInv, LoadAgain
    PROVE  ReadersInv'
<1>1. /\ kind # "none" /\ verdict = "none" /\ plan # << >>
      /\ Here \in Slot /\ Head(plan) = Job("again", Here)
  BY AtJob DEF LoadAgain
<1>2. PICK here \in Slot : here = Here
  BY <1>1
<1> DEFINE file == disk[here].files["execution"]
<1>3. /\ Undisturbed
      /\ \/ /\ "execution" \in DOMAIN disk[here].files /\ file.says # Nobody
            /\ loaded' = [loaded EXCEPT ![here]["execution"] = file]
            /\ plan' = Tail(plan) /\ UNCHANGED <<todo, inv, verdict>>
         \/ ~ ("execution" \in DOMAIN disk[here].files /\ file.says # Nobody) /\ Reject
  BY <1>2 DEF LoadAgain, Files
<1>4. Loaded(here) /\ Done("anchors", here) /\ kind = "recover"
  BY <1>1, <1>2, HeadJob DEF ReadersInv, JobsDone, Job
<1>5. "execution" \in Load /\ "execution" \in Names
  BY DEF Load, Names
<1>6. CASE ~ ("execution" \in DOMAIN disk[here].files /\ file.says # Nobody) /\ Reject
  <2>1. changes # 0
    <3>1. SUFFICES ASSUME changes = 0 PROVE FALSE
      OBVIOUS
    <3>2. /\ author[here] \in Run /\ "execution" \in DOMAIN disk[here].files
          /\ file = Original(author[here], "execution")
      BY <1>1, <1>5, <3>1, UndisturbedFacts
    <3>3. QED
      BY <1>6, <3>2, OriginalType DEF ReadersInv, TypeOK, AccountingTypeOK
  <2>2. QED
    BY <1>1, <1>3, <1>6, <2>1, RejectKeeps
<1>7. CASE /\ "execution" \in DOMAIN disk[here].files
           /\ loaded' = [loaded EXCEPT ![here]["execution"] = file]
           /\ plan' = Tail(plan) /\ UNCHANGED <<todo, inv, verdict>>
  <2>1. UNCHANGED <<kind, family, quiet, disk, changes, before>>
    BY <1>3 DEF Undisturbed, written, command, storage
  <2>2. /\ DOMAIN loaded = Slot /\ DOMAIN loaded' = Slot
        /\ loaded'[here] = [loaded[here] EXCEPT !["execution"] = file]
        /\ \A s \in Slot \ {here} : loaded'[s] = loaded[s]
    BY <1>7 DEF ReadersInv, WellFormed
  <2>3. \A s \in Slot : AreFiles(loaded[s], Names) /\ IsInventory(inv[s])
    BY DEF ReadersInv, WellFormed
  <2>4. file \in Content
    BY <1>7 DEF ReadersInv, WellFormed, IsBundle, AreFiles
  <2>5. quiet => loaded'[here] = loaded[here]
    <3>1. ASSUME quiet
          PROVE  loaded[here]["execution"] = file
      BY <1>4, <1>5, <3>1 DEF ReadersInv, LoadedFromDisk, Loaded
    <3>2. loaded[here] \in [DOMAIN loaded[here] -> Content]
      BY <2>3 DEF AreFiles
    <3>3. QED
      BY <2>2, <3>1, <3>2
  <2> HIDE DEF file
  <2>6. AreFiles(loaded'[here], Names) /\ DOMAIN loaded'[here] = DOMAIN loaded[here]
    BY <2>2, <2>3, <2>4 DEF AreFiles
  <2>7. /\ Remains' /\ plan' \in Seq(Jobs)
        /\ \A v, s : Done(v, s)' <=> Done(v, s) \/ Head(plan) = Job(v, s)
        /\ plan' # << >> /\ Head(plan').what = "entries" =>
              Head(plan) = Job("inventory", Head(plan').slot)
    BY <1>1, <1>7, <2>1, JobDone DEF ReadersInv
  <2>8. TypeOK' /\ WellFormed' /\ Accounted' /\ Untouched' /\ OnlyDecays'
    <3>1. \A s \in Slot : IsInventory(inv'[s]) /\ AreFiles(loaded'[s], Names)
      BY <1>7, <2>2, <2>3, <2>6
    <3>2. QED
      BY <1>1, <1>3, <1>7, <2>2, <2>7, <3>1, BundlesStay DEF ReadersInv, TypeOK, WellFormed
  <2>9. JobsDone'
    <3>1. SUFFICES ASSUME NEW s \in Slot
                   PROVE  /\ Done("inventory", s)' => InventoryRead(s)'
                          /\ Done("entries", s)'   => EntriesRead(s)'
                          /\ Done("listing", s)'   => ListingRead(s)'
                          /\ Done("load", s)'      => Loaded(s)'
                          /\ Done("anchors", s)'   => Anchored(s)'
      BY DEF JobsDone
    <3>2. /\ InventoryRead(s)' <=> InventoryRead(s)
          /\ EntriesRead(s)' <=> EntriesRead(s)
          /\ ListingRead(s)' <=> ListingRead(s)
          /\ loaded'[s] = loaded[s] => /\ Loaded(s)' <=> Loaded(s)
                                       /\ Anchored(s)' <=> Anchored(s)
      BY <1>3, <1>7, FactsStay
    <3>3. \A v : Done(v, s)' => Done(v, s) \/ v = "again"
      BY <1>1, <2>7 DEF Job
    <3>4. Loaded(s) => Loaded(s)'
      BY <2>1, <2>2, <2>6 DEF Loaded, Load, Names
    <3>5. Anchored(s) => Anchored(s)'
      <4>1. CASE quiet
        BY <2>2, <2>5, <3>2, <4>1
      <4>2. CASE ~ quiet
        <5>1. kind' = "recover" /\ ~ quiet' /\ wanted' = wanted
          BY <1>3, <1>4, <2>1, <4>2 DEF Undisturbed, command
        <5>2. Anchored(s) => loaded'[s]["manifest"] = loaded[s]["manifest"]
          BY <2>2, <2>3, <4>2 DEF AreFiles, Anchored, Loaded, Load, Names
        <5>3. QED
          BY <1>4, <3>4, <5>1, <5>2 DEF Anchored
      <4>3. QED
        BY <4>1, <4>2
    <3>6. QED
      BY <1>1, <3>2, <3>3, <3>4, <3>5 DEF ReadersInv, JobsDone
  <2>10. JobUnderWay'
    BY <1>1, <2>7 DEF JobUnderWay, Job
  <2>11. LoadedFromDisk'
    <3>1. Load' = Load
      BY <2>1 DEF Load, Names
    <3>2. \A s \in Slot : /\ DOMAIN loaded'[s] = DOMAIN loaded[s]
                          /\ quiet => loaded'[s] = loaded[s]
      BY <2>2, <2>5, <2>6
    <3>3. QED
      BY <2>1, <3>1, <3>2 DEF ReadersInv, LoadedFromDisk
  <2>12. Concluded' /\ UndisturbedIsAccepted'
    BY <1>1, <1>7 DEF Concluded, Accepted, UndisturbedIsAccepted
  <2>13. QED
    BY <2>7, <2>8, <2>9, <2>10, <2>11, <2>12 DEF ReadersInv
<1>8. QED
  BY <1>3, <1>6, <1>7

\* The records of an undisturbed campaign count as its result says.
LEMMA CountsKeep ==
    ASSUME ReadersInv, Counts
    PROVE  ReadersInv'
<1>1. At("counts") /\ Undisturbed
  BY DEF Counts
<1>2. /\ kind # "none" /\ verdict = "none" /\ plan # << >>
      /\ Here \in Slot /\ Head(plan) = Job("counts", Here)
  BY <1>1, AtJob
<1>3. Loaded(Here) /\ Done("inventory", Here)
  BY <1>2, HeadJob DEF ReadersInv, JobsDone, Job
<1>4. CASE loaded[Here]["execution"].says.id = inv[Here].id
  <2>1. plan' = Tail(plan) /\ UNCHANGED <<todo, inv, loaded, verdict>>
    BY <1>4 DEF Counts
  <2>2. QED
    BY <1>1, <2>1, JobKeeps
<1>5. CASE loaded[Here]["execution"].says.id # inv[Here].id
  <2>1. changes # 0
    <3>1. SUFFICES ASSUME changes = 0 PROVE FALSE
      OBVIOUS
    <3>2. "execution" \in Load
      BY DEF Load, Names
    <3>3. /\ inv[Here] = Listing(author[Here].id, disk[Here].files)
          /\ loaded[Here]["execution"] = Original(author[Here], "execution")
      BY <1>2, <1>3, <3>1, <3>2, UndisturbedFacts DEF Loaded
    <3>4. QED
      BY <1>5, <3>3 DEF Listing, Original
  <2>2. QED
    BY <1>1, <1>2, <1>5, <2>1, RejectKeeps DEF Counts
<1>6. QED
  BY <1>4, <1>5

\* When nothing of the plan is left, all of it is done.
LEMMA AllDone ==
    ASSUME ReadersInv, kind # "none", plan = << >>
    PROVE  \A s \in ReadSlots :
              /\ s \in Slot
              /\ InventoryRead(s) /\ EntriesRead(s) /\ ListingRead(s)
              /\ kind \in {"inspect", "recover", "compare"} => Anchored(s)
<1>1. kind \in Kinds /\ family \in {"run", "campaign"}
  BY DEF ReadersInv, TypeOK
<1>2. Len(Plan(kind)) - Len(plan) = Len(Plan(kind))
  BY <1>1, PlanType
<1>3. ReadSlots = {"a"} \cup (IF kind = "compare" THEN Slot ELSE {})
  BY DEF ReadSlots, Slot
<1>4. \A s \in ReadSlots :
         /\ s \in Slot
         /\ Done("inventory", s) /\ Done("entries", s) /\ Done("listing", s)
         /\ kind \in {"inspect", "recover", "compare"} => Done("anchors", s)
  BY <1>1, <1>2, <1>3, PlanCovers DEF Done, Slot
<1>5. QED
  BY <1>4 DEF ReadersInv, JobsDone

\* What a reader concludes of undisturbed bundles is never a rejection: two of them
\* that have one inventory have the same anchors.
LEMMA ConcludeKeeps ==
    ASSUME ReadersInv, Conclude
    PROVE  ReadersInv'
<1>1. /\ verdict = "none" /\ kind # "none" /\ plan = << >> /\ Undisturbed
      /\ verdict' = IF kind = "compare" THEN Comparison ELSE "accepted"
      /\ UNCHANGED <<plan, todo, inv, loaded>>
  BY DEF Conclude
<1>2. UNCHANGED <<kind, family, changes, wanted, author>>
  BY <1>1 DEF Undisturbed, written, storage, command
<1>3. verdict' \in {"rejected", "accepted", "equal", "different"}
  BY <1>1 DEF Comparison, RunsCompared
<1>4. Comparison' = Comparison
  BY <1>1, <1>2 DEF Comparison, RunsCompared, CampaignsEqual
<1>5. Concluded'
  BY <1>1, <1>2, <1>4 DEF Concluded
<1>6. ASSUME changes = 0, kind = "compare", family = "run", inv["a"] = inv["b"]
      PROVE  loaded["a"] = loaded["b"]
  <2>1. "a" \in Slot /\ "b" \in Slot /\ ReadSlots = Slot
    BY <1>6 DEF Slot, ReadSlots
  <2>2. \A s \in Slot :
           /\ disk[s].inventory = Listing(author[s].id, disk[s].files)
           /\ inv[s] = disk[s].inventory
           /\ DOMAIN disk[s].files = Names
           /\ \A n \in Names : disk[s].files[n] = Original(author[s], n)
           /\ DOMAIN loaded[s] = Load
           /\ \A n \in Load : loaded[s][n] = Original(author[s], n)
    <3> SUFFICES ASSUME NEW s \in Slot
                 PROVE  /\ disk[s].inventory = Listing(author[s].id, disk[s].files)
                        /\ inv[s] = disk[s].inventory
                        /\ DOMAIN disk[s].files = Names
                        /\ \A n \in Names : disk[s].files[n] = Original(author[s], n)
                        /\ DOMAIN loaded[s] = Load
                        /\ \A n \in Load : loaded[s][n] = Original(author[s], n)
      OBVIOUS
    <3>1. InventoryRead(s) /\ Anchored(s)
      BY <1>1, <1>6, <2>1, AllDone
    <3>2. quiet => inv[s] = disk[s].inventory
      BY <3>1 DEF InventoryRead
    <3>3. DOMAIN loaded[s] = Load
      BY <3>1 DEF Anchored, Loaded
    <3>4. QED
      BY <1>1, <1>6, <3>2, <3>3, UndisturbedFacts
  <2>3. disk["a"].files = disk["b"].files
    <3>1. ASSUME NEW s \in Slot PROVE inv[s].entries = disk[s].files
      <4>1. inv[s] = Listing(author[s].id, disk[s].files)
        BY <2>2
      <4>2. QED
        BY <4>1 DEF Listing
    <3>2. QED
      BY <1>6, <2>1, <3>1
  <2>4. Load \subseteq Names
    BY DEF Load
  <2>5. \A n \in Load : loaded["a"][n] = loaded["b"][n]
    BY <2>1, <2>2, <2>3, <2>4
  <2>6. \A s \in Slot : loaded[s] \in [Load -> Content]
    BY <2>2 DEF ReadersInv, WellFormed, AreFiles
  <2>7. QED
    BY <2>1, <2>5, <2>6
<1>7. UndisturbedIsAccepted'
  BY <1>1, <1>2, <1>6 DEF UndisturbedIsAccepted, Comparison, RunsCompared
<1>8. QED
  BY <1>1, <1>3, <1>5, <1>7, VerdictKeeps

----------------------------------------------------------------------------
\* The theorems.

\* A step that changes nothing keeps the invariant.
LEMMA RestKeeps ==
    ASSUME ReadersInv, UNCHANGED vars
    PROVE  ReadersInv'
<1> USE DEF vars, accounting, written, storage, command, reading
<1>1. CASE kind # "none"
  <2>1. TypeOK' /\ WellFormed' /\ Accounted' /\ Untouched' /\ OnlyDecays'
    BY <1>1, BundlesStay DEF ReadersInv, TypeOK, WellFormed, Undisturbed
  <2>2. Plan(kind)' = Plan(kind) /\ \A w, s : Done(w, s)' <=> Done(w, s)
    BY DEF Plan, Job, Done
  <2>3. Remains' /\ LoadedFromDisk'
    BY <2>2 DEF ReadersInv, Remains, LoadedFromDisk, Load, Names
  <2>4. ASSUME NEW s
        PROVE  /\ \A n : EntryChecked(s, n)' <=> EntryChecked(s, n)
               /\ InventoryRead(s)' <=> InventoryRead(s)
               /\ EntriesRead(s)' <=> EntriesRead(s)
               /\ ListingRead(s)' <=> ListingRead(s)
               /\ Loaded(s)' <=> Loaded(s)
               /\ Anchored(s)' <=> Anchored(s)
    BY FactsStay DEF Undisturbed
  <2>5. JobsDone' /\ JobUnderWay'
    BY <2>2, <2>4 DEF ReadersInv, JobsDone, JobUnderWay, Job
  <2>6. Concluded' /\ UndisturbedIsAccepted'
    BY DEF ReadersInv, Concluded, Accepted, Comparison, RunsCompared, CampaignsEqual,
       UndisturbedIsAccepted
  <2>7. QED
    BY <2>1, <2>3, <2>5, <2>6 DEF ReadersInv
<1>2. CASE kind = "none"
  <2>1. /\ \A r : Finalized(r)' = Finalized(r)
        /\ \A b : IsBundle(b)' <=> IsBundle(b)
        /\ \A i : IsInventory(i)' <=> IsInventory(i)
        /\ Names' = Names
    BY OriginalStays
  <2>2. TypeOK' /\ WellFormed'
    BY <2>1 DEF ReadersInv, TypeOK, AccountingTypeOK, Kinds, WellFormed, AreFiles
  <2>3. Accounted'
    BY EndKeeps DEF ReadersInv, Accounted
  <2>4. Untouched' /\ LoadedFromDisk'
    BY <2>1 DEF ReadersInv, Untouched, LoadedFromDisk, Load
  <2>5. plan = << >> /\ verdict = "none"
    BY <1>2 DEF ReadersInv, Untouched
  <2>6. QED
    BY <1>2, <2>2, <2>3, <2>4, <2>5 DEF ReadersInv, Remains, OnlyDecays, JobsDone, JobUnderWay,
       Concluded, Accepted, UndisturbedIsAccepted
<1>3. QED
  BY <1>1, <1>2

\* The readers' invariant is inductive.
LEMMA ReadersStep == ReadersInv /\ [Next]_vars => ReadersInv'
<1> SUFFICES ASSUME ReadersInv, [Next]_vars PROVE ReadersInv'
  OBVIOUS
<1>1. CASE Account \/ Finalize
  BY <1>1, WriterKeeps
<1>2. CASE Disturb
  BY <1>2, DisturbKeeps
<1>3. CASE \E k \in Kinds : Begin(k)
  BY <1>3, BeginKeeps
<1>4. CASE Read
  BY <1>4, InventoryKeeps, EntryKeeps, EntriesKeep, ListKeeps, LoadKeeps, FilesKeep,
     AnchorsKeep, AgainKeeps, CountsKeep, ConcludeKeeps DEF Read
<1>5. CASE UNCHANGED vars
  BY <1>5, RestKeeps
<1>6. QED
  BY <1>1, <1>2, <1>3, <1>4, <1>5 DEF Next, Rest

\* The readers' invariant holds in every state.
THEOREM ReadersInvariance == Spec => []ReadersInv
<1>1. Init => ReadersInv
  BY ReadersBegin
<1>2. ReadersInv /\ [Next]_vars => ReadersInv'
  BY ReadersStep
<1>3. QED
  BY <1>1, <1>2, PTL DEF Spec

\* Every variable keeps its type, through every disturbance and every read.
THEOREM ReadersTyped == Spec => []TypeOK
<1>1. ReadersInv => TypeOK
  BY DEF ReadersInv
<1>2. QED
  BY <1>1, ReadersInvariance, PTL

\* Whatever a writer finalizes, and however large it is, its readers accept, when
\* nothing has disturbed it: the size it reports is the size that they verify.
THEOREM ReadersAcceptUndisturbed == Spec => []UndisturbedIsAccepted
<1>1. ReadersInv => UndisturbedIsAccepted
  BY DEF ReadersInv
<1>2. QED
  BY <1>1, ReadersInvariance, PTL

\* What a verified bundle was when its reader began: the inventory it read lists all
\* that was there, and what is listed as it was finalized was so.
LEMMA VerifiedBefore ==
    ASSUME ReadersInv, NEW s \in Slot, kind # "none", EntriesRead(s), ListingRead(s),
           inv[s] = Finalized(author[s]).inventory
    PROVE  [n \in DOMAIN before[s].files \ {"nested"} |-> before[s].files[n]]
              = Finalized(author[s]).files
<1>1. author[s] \in Run /\ guess \in Nat /\ size \in Sizes
  BY DEF ReadersInv, TypeOK, AccountingTypeOK
<1>2. /\ inv[s].entries = Finalized(author[s]).files
      /\ AreFiles(Finalized(author[s]).files, Names)
      /\ DOMAIN Finalized(author[s]).files = Names
      /\ \A n \in Names : Finalized(author[s]).files[n] = Original(author[s], n)
  <2>1. PICK r \in Run : r = author[s]
    BY <1>1
  <2>2. /\ AreFiles(Finalized(r).files, Names) /\ DOMAIN Finalized(r).files = Names
        /\ \A n \in Names : Finalized(r).files[n] = Original(r, n)
        /\ Finalized(r).inventory = Listing(r.id, Finalized(r).files)
    BY <1>1, FinalizedType
  <2>3. inv[s].entries = Finalized(r).files
    BY <2>1, <2>2 DEF Listing
  <2>4. QED
    BY <2>1, <2>2, <2>3
<1>3. \A n \in Names : AsFinalized(before, s, n)
  BY <1>2 DEF EntriesRead, EntryChecked
<1>4. DOMAIN before[s].files \subseteq Names \cup {"nested"}
  BY DEF ReadersInv, WellFormed, IsBundle, AreFiles, ListingRead, Stray
<1>5. "nested" \notin Names
  BY DEF Names
<1>6. DOMAIN before[s].files \ {"nested"} = Names
  BY <1>3, <1>4, <1>5 DEF AsFinalized
<1>7. QED
  BY <1>2, <1>3, <1>6 DEF AsFinalized, AreFiles

\* A reader that accepts a bundle under the inventory it was finalized with has seen
\* what was finalized: no damage, loss or addition before it began goes unnoticed,
\* whatever else happens while it reads.
THEOREM ReadersAcceptIntact == Spec => []AcceptedWasIntact
<1>1. ReadersInv => AcceptedWasIntact
  <2> SUFFICES ASSUME ReadersInv, Accepted, NEW s \in ReadSlots,
                      inv[s] = Finalized(author[s]).inventory
               PROVE  [n \in DOMAIN before[s].files \ {"nested"} |-> before[s].files[n]]
                         = Finalized(author[s]).files
    BY DEF AcceptedWasIntact
  <2>1. kind # "none" /\ plan = << >>
    BY DEF ReadersInv, Untouched, Concluded, Accepted
  <2>2. s \in Slot /\ EntriesRead(s) /\ ListingRead(s)
    BY <2>1, AllDone
  <2>3. QED
    BY <2>1, <2>2, VerifiedBefore
<1>2. QED
  BY <1>1, ReadersInvariance, PTL

\* What a reader that nothing disturbed has accepted: the disk is what it read.
LEMMA VerifiedNow ==
    ASSUME ReadersInv, Accepted, quiet, NEW s \in ReadSlots
    PROVE  /\ s \in Slot /\ kind # "none" /\ inv[s] = disk[s].inventory
           /\ DOMAIN disk[s].files \ {"nested"} = DOMAIN inv[s].entries
           /\ \A n \in DOMAIN inv[s].entries : disk[s].files[n] = inv[s].entries[n]
           /\ inv[s].entries = [n \in DOMAIN disk[s].files \ {"nested"} |-> disk[s].files[n]]
           /\ inv[s].hash = inv[s].entries
           /\ kind \in {"inspect", "recover", "compare"} => Anchored(s) /\ AnchorsHold(s)
<1>1. kind # "none" /\ plan = << >>
  BY DEF ReadersInv, Untouched, Concluded, Accepted
<1>2. /\ s \in Slot /\ InventoryRead(s) /\ EntriesRead(s) /\ ListingRead(s)
      /\ kind \in {"inspect", "recover", "compare"} => Anchored(s)
  BY <1>1, AllDone
<1>3. ListingHolds(s) /\ inv[s] = disk[s].inventory
  BY <1>2 DEF ListingRead, InventoryRead
<1>4. \A n \in DOMAIN inv[s].entries : disk[s].files[n] = inv[s].entries[n]
  BY <1>2 DEF EntriesRead, EntryChecked, EntryVerifies
<1>5. inv[s].entries \in [DOMAIN inv[s].entries -> Content]
  BY <1>2 DEF ReadersInv, WellFormed, IsInventory, AreFiles
<1>6. kind \in {"inspect", "recover", "compare"} => AnchorsHold(s)
  BY <1>2 DEF Anchored
<1>7. QED
  BY <1>1, <1>2, <1>3, <1>4, <1>5, <1>6 DEF ListingHolds

\* What is loaded is what is on the disk, if nothing has disturbed it.
LEMMA LoadedNow ==
    ASSUME ReadersInv, quiet, NEW s \in Slot, Loaded(s), NEW n \in Load
    PROVE  n \in DOMAIN disk[s].files /\ loaded[s][n] = disk[s].files[n]
BY DEF ReadersInv, LoadedFromDisk, Loaded

\* An inspection or a comparison reports one run, whatever disturbs the bundle while it
\* is read: inventory, manifest, execution and target name it, and the size it reports
\* is the verified one.  If nothing disturbs it, that is the bundle on the disk, and a
\* recovery's result is the wanted run's.
THEOREM ReadersReportOneRun == Spec => []ResultIsOfOneRun
<1>1. ReadersInv => InspectedIsOneRun
  <2> SUFFICES ASSUME ReadersInv, Accepted, quiet, kind \in {"inspect", "recover", "compare"},
                      NEW s \in ReadSlots
               PROVE  LET manifest  == disk[s].files["manifest"]
                          execution == disk[s].files["execution"]
                          listed    == DOMAIN disk[s].files \ {"nested"}
                      IN  /\ manifest.says.id = execution.says.id
                          /\ disk[s].inventory.id = execution.says.id
                          /\ family = "run" =>
                              /\ manifest.says = execution.says
                              /\ execution.use =
                                   VerifiedBytes([n \in listed |-> disk[s].files[n]])
    BY DEF InspectedIsOneRun
  <2>1. /\ s \in Slot /\ inv[s] = disk[s].inventory /\ Anchored(s) /\ AnchorsHold(s)
        /\ inv[s].entries = [n \in DOMAIN disk[s].files \ {"nested"} |-> disk[s].files[n]]
    BY VerifiedNow
  <2>2. "manifest" \in Load /\ "execution" \in Load /\ Loaded(s)
    BY <2>1 DEF Load, Names, Anchored
  <2>3. /\ loaded[s]["manifest"] = disk[s].files["manifest"]
        /\ loaded[s]["execution"] = disk[s].files["execution"]
    BY <2>1, <2>2, LoadedNow
  <2>4. QED
    BY <2>1, <2>3 DEF AnchorsHold
<1>2. ReadersInv => RecoveredIsOwn
  <2> SUFFICES ASSUME ReadersInv, kind = "recover", verdict = "accepted"
               PROVE  /\ loaded["a"]["manifest"].says = wanted
                      /\ quiet => loaded["a"]["execution"].says = wanted
                      /\ changes = 0 =>
                           loaded["a"]["execution"] = Original(author["a"], "execution")
    BY DEF RecoveredIsOwn
  <2>1. "a" \in ReadSlots /\ "a" \in Slot /\ plan = << >>
    BY DEF ReadSlots, Slot, ReadersInv, Concluded, Accepted
  <2>2. "execution" \in Load /\ Anchored("a") /\ family = "run"
    <3>1. Anchored("a")
      BY <2>1, AllDone
    <3>2. family = "run"
      BY DEF ReadersInv, TypeOK, Kinds
    <3>3. QED
      BY <3>1, <3>2 DEF Load, Names
  <2>3. ASSUME quiet
        PROVE  loaded["a"]["execution"].says = wanted
    BY <2>2, <2>3 DEF Anchored, AnchorsHold
  <2>4. ASSUME changes = 0
        PROVE  loaded["a"]["execution"] = Original(author["a"], "execution")
    BY <2>1, <2>2, <2>4, UndisturbedFacts DEF Anchored, Loaded
  <2>5. loaded["a"]["manifest"].says = wanted
    BY <2>2 DEF Anchored
  <2>6. QED
    BY <2>3, <2>4, <2>5
<1>3. ReadersInv => ReportedIsOneRun
  <2> SUFFICES ASSUME ReadersInv, Accepted, kind \in {"inspect", "compare"}, NEW s \in ReadSlots
               PROVE  LET run == loaded[s]["execution"].says
                      IN  /\ inv[s].id = run.id /\ loaded[s]["manifest"].says.id = run.id
                          /\ family = "run" =>
                              /\ loaded[s]["manifest"].says = run
                              /\ loaded[s]["target"].says.scenario = run.scenario
                              /\ loaded[s]["execution"].use = VerifiedBytes(inv[s].entries)
    BY DEF ReportedIsOneRun
  <2>1. plan = << >> /\ s \in Slot
    BY DEF ReadersInv, Concluded, ReadSlots, Slot
  <2>2. Anchored(s)
    BY <2>1, AllDone
  <2>3. QED
    BY <2>2 DEF Anchored, AnchorsHold
<1>4. ReadersInv => ResultIsOfOneRun
  BY <1>1, <1>2, <1>3 DEF ResultIsOfOneRun
<1>5. QED
  BY <1>4, ReadersInvariance, PTL

\* A comparison says that two bundles are equal exactly when they hold the same
\* listed files, whatever those are.
THEOREM ReadersCompareTruly == Spec => []EqualMeansSame
<1> DEFINE listed(s) == [n \in DOMAIN disk[s].files \ {"nested"} |-> disk[s].files[n]]
<1>1. ReadersInv => EqualMeansSame
  <2> SUFFICES ASSUME ReadersInv, kind = "compare", quiet, Accepted
               PROVE  verdict = "equal" <=> listed("a") = listed("b")
    BY DEF EqualMeansSame
  <2>1. ReadSlots = Slot /\ "a" \in Slot /\ "b" \in Slot
    BY DEF ReadSlots, Slot
  <2>2. verdict = Comparison /\ family \in {"run", "campaign"}
    BY DEF ReadersInv, Concluded, TypeOK
  <2>3. \A s \in Slot :
           /\ inv[s].entries = listed(s) /\ inv[s].hash = listed(s)
           /\ IsInventory(inv[s]) /\ Anchored(s) /\ AnchorsHold(s)
    BY <2>1, VerifiedNow DEF ReadersInv, WellFormed
  <2> HIDE DEF listed
  <2>4. {"manifest", "execution"} \subseteq Load
    BY DEF Load, Names
  <2>5. ASSUME listed("a") = listed("b")
        PROVE  \A n \in Load : loaded["a"][n] = loaded["b"][n]
    <3> SUFFICES ASSUME NEW n \in Load
                 PROVE  loaded["a"][n] = loaded["b"][n]
      OBVIOUS
    <3>1. \A s \in Slot : n \in DOMAIN disk[s].files /\ loaded[s][n] = disk[s].files[n]
      BY <2>3, LoadedNow DEF Anchored
    <3>2. n # "nested"
      BY DEF Load, Names
    <3>3. \A s \in Slot : loaded[s][n] = listed(s)[n]
      BY <3>1, <3>2 DEF listed
    <3>4. QED
      BY <2>1, <2>5, <3>3
  <2>6. ASSUME listed("a") = listed("b")
        PROVE  inv["a"] = inv["b"] /\ loaded["a"] = loaded["b"]
    <3>1. \A s \in Slot : inv[s].id = loaded[s]["manifest"].says.id
      BY <2>3 DEF AnchorsHold
    <3>2. inv["a"].id = inv["b"].id
      BY <2>1, <2>4, <2>5, <2>6, <3>1
    <3>3. inv["a"] = inv["b"]
      BY <2>1, <2>3, <2>6, <3>2 DEF IsInventory
    <3>4. \A s \in Slot : loaded[s] \in [Load -> Content]
      BY <2>3 DEF Anchored, Loaded, ReadersInv, WellFormed, AreFiles
    <3>5. QED
      BY <2>1, <2>5, <2>6, <3>3, <3>4
  <2>7. CASE family = "run"
    BY <2>1, <2>2, <2>3, <2>6, <2>7 DEF Comparison, RunsCompared, Accepted
  <2>8. CASE family = "campaign"
    BY <2>1, <2>2, <2>3, <2>6, <2>8 DEF Comparison, CampaignsEqual
  <2>9. QED
    BY <2>2, <2>7, <2>8
<1>2. QED
  BY <1>1, ReadersInvariance, PTL
=============================================================================
