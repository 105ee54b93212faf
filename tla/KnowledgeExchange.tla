------------------------- MODULE KnowledgeExchange -------------------------
(***************************************************************************)
(* The conversation of one command with the knowledge-base target: the     *)
(* three conditions of a world (`_run_world`) and the target validation of *)
(* a preflight (`run_e2_target_validation`: clean recreations, then dry    *)
(* runs with the geometry of a world).  A step of the command is one       *)
(* request with its answer; the service indexes documents on its own, and  *)
(* may carry out a request long after the command has given up on it.      *)
(*                                                                         *)
(* Source: src/src/risi/campaign.py, src/src/risi/adapters/dify.py and     *)
(* src/src/risi/transport.py; the service is external.                     *)
(***************************************************************************)
EXTENDS Integers, FiniteSets

CONSTANTS
    Sources,           \* source memories of a world: 2
    PoolSize,          \* memories in a pool: 25
    Budgets,           \* pool memories at which a condition is observed: 5, 10 .. 25
    Recreations,       \* clean recreations of the stability check: 3
    StabilityQueries,  \* queries of each: 3
    DryRuns,           \* scenarios of the throughput check: 10
    PollLimit,         \* polls of one indexing wait: 300
    TopHits            \* hits of a retrieval: 5

ASSUME GeometryAssumption ==
    /\ Sources \in Nat \ {0} /\ PoolSize \in Nat \ {0}
    /\ Budgets \subseteq 1 .. PoolSize /\ PoolSize \in Budgets
    /\ Recreations \in Nat /\ StabilityQueries \in Nat \ {0}
    /\ DryRuns \in Nat \ {0}
ASSUME LimitAssumption == PollLimit \in Nat \ {0} /\ TopHits \in Nat \ {0}

VARIABLES
    workload,     \* "world" (a world of an execute) or "validation" (an E2 preflight)
    oracle,       \* the evaluator's memories: target and non-target
    transport,    \* "https", the one that the program ships, or "injected" in its place
    pc,           \* where the command is
    cond,         \* the knowledge base it is at, numbered from 1
    doc,          \* documents of it that are ingested and verified
    query,        \* queries made at this checkpoint
    polls,        \* polls made in this indexing wait
    documentIds,  \* memory -> document, as `_ingest` returns it
    recalled,     \* the evaluation of the last retrieval, and whether there is one
    retrievals,   \* retrievals counted so far (the stability check counts none)
    exc,          \* the exception in flight
    outcome,      \* how the command ended
    kbs,          \* service: knowledge bases of this owner
    index,        \* service: indexing status of each document
    answer,       \* service: documents in its last usable retrieval answer
    abandoned     \* service: creations it may still carry out

input   == <<workload, oracle, transport>>
place   == <<cond, doc, query, polls>>
results == <<documentIds, recalled, retrievals>>
service == <<kbs, index, answer, abandoned>>
vars    == <<input, pc, place, results, exc, outcome, service>>

----------------------------------------------------------------------------
\* What is to be done at each knowledge base.

TwoQueries == 2

\* The conditions of a world, and of a dry run.
Geometry ==
    [c \in 1 .. 3 |->
        IF c = 1 THEN [docs |-> Sources, checkpoints |-> {Sources}, queries |-> TwoQueries]
        ELSE [docs        |-> Sources + PoolSize,
              checkpoints |-> {Sources + b : b \in Budgets},
              queries     |-> TwoQueries]]

Recreation == [docs |-> 1, checkpoints |-> {1}, queries |-> StabilityQueries]

\* Mutant: the last condition is left out.
NumKBs_OneLess == IF workload = "world" THEN 2 ELSE Recreations + 3 * DryRuns

NumKBs == IF workload = "world" THEN 3 ELSE Recreations + 3 * DryRuns

Stable(c) == workload = "validation" /\ c <= Recreations

Work(c) ==
    IF Stable(c) THEN Recreation
    ELSE IF workload = "world" THEN Geometry[c]
    ELSE Geometry[((c - Recreations - 1) % 3) + 1]

\* The retrievals that a whole workload counts: 22 per scenario in the design.
PerScenario == TwoQueries * (1 + 2 * Cardinality(Budgets))
Expected    == PerScenario * (IF workload = "world" THEN 1 ELSE DryRuns)

\* A memory: a source of the world, or the n-th document of one condition.
MemoryAt(c, n) == IF n <= Sources THEN <<0, n>> ELSE <<c, n>>
SourceMemory   == {<<0, n>> : n \in 1 .. Sources}
Memory         == SourceMemory \cup ((1 .. Recreations + 3 * DryRuns + 3) \X
                                     (Sources + 1 .. Sources + PoolSize))
\* A memory that no baseline holds: of a pool, or of another world.
Foreign        == <<3, Sources + 1>>

\* A knowledge base of an earlier command.
Leftover == 0
KB       == 0 .. Recreations + 3 * DryRuns + 3
Document == KB \X Memory

Status     == {"waiting", "completed", "error"}
Labels     == {"inventoryBefore", "healthBefore", "create", "submit", "wait", "segments",
               "retrieve", "inspect", "delete", "inventory", "healthAfter",
               "inventoryAfter", "ended"}
Exceptions == {"none", "timeout", "transport", "uncaught", "lookup"}
Outcomes   == {"none", "ok", "notPassed"} \cup (Exceptions \ {"none"})

\* The empty map, and a map with one more entry.
Empty == [x \in {} |-> x]
Put(f, k, v) == [x \in DOMAIN f \cup {k} |-> IF x = k THEN v ELSE f[x]]

NoEvaluation == [made |-> FALSE, kb |-> Leftover, memory |-> <<0, 1>>, hit |-> FALSE]

\* What the service holds in the current knowledge base.
Holding == {d \in DOMAIN index : d[1] = cond}
Indexed == {d \in Holding : index[d] = "completed"}

Init ==
    /\ workload \in {"world", "validation"}
    /\ oracle \in [1 .. TwoQueries -> SourceMemory \cup {Foreign}]
    /\ workload = "validation" => oracle = [q \in 1 .. TwoQueries |-> <<0, 1>>]
    /\ transport \in {"https", "injected"}
    /\ pc = IF workload = "world" THEN "create" ELSE "inventoryBefore"
    /\ cond = 1 /\ doc = 0 /\ query = 0 /\ polls = 0
    /\ documentIds = Empty
    /\ recalled = NoEvaluation
    /\ retrievals = 0
    /\ exc = "none" /\ outcome = "none"
    /\ kbs \in SUBSET {Leftover}
    /\ index = Empty
    /\ answer = {}
    /\ abandoned \in SUBSET {Leftover}

----------------------------------------------------------------------------
\* Control.

Goto(label) == pc' = label /\ UNCHANGED <<exc, outcome>>

End(o) == pc' = "ended" /\ outcome' = o /\ UNCHANGED exc

\* An exception inside the try block: its finally clause comes next.
Raise(e) == pc' = "delete" /\ exc' = e /\ UNCHANGED outcome

\* One outside of it ends the command.
Fail(e) == End(e)

\* The shipped transport freezes what it has parsed, arrays to tuples and objects to
\* read-only mappings, and the adapter demands a list or a dict: a reply that it has
\* to look into is malformed behind that transport, whatever it says.  A text or a
\* truth value at the top of a reply is readable, and so is an empty reply.
Readable == transport = "injected"

\* A request that fails: refused, lost, late, malformed, too large (a
\* TransportError), or answered with what a later check rejects as a ValueError.
Failure == {"transport", "uncaught"}

----------------------------------------------------------------------------
\* The owner's inventory and the target's health, of a validation only.

AfterInventory ==
    CASE pc = "inventoryBefore" -> "healthBefore"
      [] pc = "inventory"       -> IF cond < NumKBs THEN "create" ELSE "healthAfter"
      [] OTHER                  -> "ended"

ListEmpty ==
    /\ pc \in {"inventoryBefore", "inventory"}
    /\ Readable
    /\ kbs = {}
    /\ Goto(AfterInventory)
    /\ cond' = IF pc = "inventory" /\ cond < NumKBs THEN cond + 1 ELSE cond
    /\ UNCHANGED <<input, doc, query, polls, results, service>>

\* The last request of a validation.  The verdict is computed from what is known
\* by then: the counts (the documents are counted along with the retrievals), and
\* whether the target was fit: healthy, and fast enough.
ListLast ==
    /\ pc = "inventoryAfter"
    /\ Readable
    /\ kbs = {}
    /\ \E fit \in BOOLEAN :
           End(IF fit /\ retrievals = Expected THEN "ok" ELSE "notPassed")
    /\ UNCHANGED <<input, place, results, service>>

ListOccupied ==
    /\ pc \in {"inventoryBefore", "inventory", "inventoryAfter"}
    /\ Readable
    /\ kbs # {}
    /\ Fail("transport")
    /\ UNCHANGED <<input, place, results, service>>

Health ==
    /\ pc \in {"healthBefore", "healthAfter"}
    /\ Goto(IF pc = "healthBefore" THEN "create" ELSE "inventoryAfter")
    /\ UNCHANGED <<input, place, results, service>>

\* Unhealthy before: refused at once.
Unhealthy ==
    /\ pc = "healthBefore"
    /\ Fail("transport")
    /\ UNCHANGED <<input, place, results, service>>

ReadFails ==
    /\ pc \in {"inventoryBefore", "inventory", "inventoryAfter", "healthBefore",
               "healthAfter"}
    /\ \E e \in Failure : Fail(e)
    /\ UNCHANGED <<input, place, results, service>>

----------------------------------------------------------------------------
\* One knowledge base: create it, fill it, query it, delete it.

CreateKB ==
    /\ pc = "create"
    /\ kbs' = kbs \cup {cond}
    /\ doc' = 0
    /\ documentIds' = Empty
    /\ recalled' = NoEvaluation
    /\ Goto("submit")
    /\ UNCHANGED <<input, cond, query, polls, retrievals, index, answer, abandoned>>

\* Outside the try block: whatever becomes of the request, nothing deletes it.
CreateFails ==
    /\ pc = "create"
    /\ \/ UNCHANGED <<kbs, abandoned>>
       \/ kbs' = kbs \cup {cond} /\ UNCHANGED abandoned
       \/ abandoned' = abandoned \cup {cond} /\ UNCHANGED kbs
    /\ \E e \in Failure : Fail(e)
    /\ UNCHANGED <<input, place, results, index, answer>>

\* The document being ingested.
Next1  == MemoryAt(cond, doc + 1)
Target == <<cond, Next1>>

Submit ==
    /\ pc = "submit"
    /\ Readable
    /\ index' = Put(index, Target, "waiting")
    /\ polls' = 0
    /\ Goto("wait")
    /\ UNCHANGED <<input, cond, doc, query, results, kbs, answer, abandoned>>

SubmitFails ==
    /\ pc = "submit"
    /\ index' \in {index, Put(index, Target, "waiting")}
    /\ \E e \in Failure : Raise(e)
    /\ UNCHANGED <<input, place, results, kbs, answer, abandoned>>

\* Mutant: the wait ends when the polls are used up, whatever they saw.
PollPending_GivesUpQuietly ==
    /\ pc = "wait"
    /\ Readable
    /\ index[Target] = "waiting"
    /\ polls' = polls + 1
    /\ Goto(IF polls + 1 < PollLimit THEN "wait" ELSE "segments")
    /\ UNCHANGED <<input, cond, doc, query, results, service>>

\* Mutant: the count of the polls starts over where it should end the wait.
PollPending_StartsOver ==
    /\ pc = "wait"
    /\ Readable
    /\ index[Target] = "waiting"
    /\ polls' = (polls + 1) % PollLimit
    /\ Goto("wait")
    /\ UNCHANGED <<input, cond, doc, query, results, service>>

PollPending ==
    /\ pc = "wait"
    /\ Readable
    /\ index[Target] = "waiting"
    /\ polls' = polls + 1
    /\ IF polls + 1 < PollLimit THEN Goto("wait") ELSE Raise("timeout")
    /\ UNCHANGED <<input, cond, doc, query, results, service>>

\* Mutant: the last poll's answer is not looked at.
PollCompleted_NotAtLast ==
    /\ pc = "wait"
    /\ Readable
    /\ index[Target] = "completed"
    /\ polls' = 0
    /\ IF polls + 1 < PollLimit THEN Goto("segments") ELSE Raise("timeout")
    /\ UNCHANGED <<input, cond, doc, query, results, service>>

PollCompleted ==
    /\ pc = "wait"
    /\ Readable
    /\ index[Target] = "completed"
    /\ polls' = 0
    /\ Goto("segments")
    /\ UNCHANGED <<input, cond, doc, query, results, service>>

PollError ==
    /\ pc = "wait"
    /\ Readable
    /\ index[Target] = "error"
    /\ Raise("transport")
    /\ UNCHANGED <<input, place, results, service>>

\* No answer to a poll, an unusable one, or a status nobody knows.
PollFails ==
    /\ pc = "wait"
    /\ \E e \in Failure : Raise(e)
    /\ UNCHANGED <<input, place, results, service>>

\* After a document is verified, or a checkpoint's queries are made.
Continue(n) == IF n < Work(cond).docs THEN "submit" ELSE "inspect"

\* Mutant: queries are made a document early.
Verify_ChecksEarly ==
    /\ pc = "segments"
    /\ Readable
    /\ documentIds' = Put(documentIds, Next1, Target)
    /\ doc' = doc + 1
    /\ query' = 0
    /\ Goto(IF doc + 2 \in Work(cond).checkpoints THEN "retrieve" ELSE Continue(doc + 1))
    /\ UNCHANGED <<input, cond, polls, recalled, retrievals, service>>

\* One enabled chunk with the memory's content: the document is ingested.
Verify ==
    /\ pc = "segments"
    /\ Readable
    /\ documentIds' = Put(documentIds, Next1, Target)
    /\ doc' = doc + 1
    /\ query' = 0
    /\ Goto(IF doc + 1 \in Work(cond).checkpoints THEN "retrieve" ELSE Continue(doc + 1))
    /\ UNCHANGED <<input, cond, polls, recalled, retrievals, service>>

VerifyFails ==
    /\ pc = "segments"
    /\ \E e \in Failure : Raise(e)
    /\ UNCHANGED <<input, place, results, service>>

----------------------------------------------------------------------------
\* Retrievals.

\* The service answers with some of what is indexed, up to the ceiling.
Answered == {h \in SUBSET Indexed : Cardinality(h) <= TopHits}

AfterQuery == IF query + 1 < Work(cond).queries THEN "retrieve" ELSE Continue(doc)

\* Mutant: both queries are evaluated against the target memory.
Observe_TargetTwice ==
    /\ pc = "retrieve" /\ workload = "world"
    /\ Readable
    /\ \E h \in Answered :
        LET memory == oracle[query + 1]
        IN  /\ answer' = h
            /\ {memory, oracle[1]} \subseteq DOMAIN documentIds
            /\ recalled' = [made |-> TRUE, kb |-> cond, memory |-> memory,
                            hit  |-> documentIds[oracle[1]] \in h]
            /\ retrievals' = retrievals + 1
            /\ query' = query + 1
            /\ Goto(AfterQuery)
    /\ UNCHANGED <<input, cond, doc, polls, documentIds, kbs, index, abandoned>>

\* Mutant: a memory without a document counts as not recalled.
Observe_Tolerant ==
    /\ pc = "retrieve" /\ workload = "world"
    /\ Readable
    /\ \E h \in Answered :
        LET memory == oracle[query + 1]
        IN  /\ answer' = h
            /\ recalled' = [made |-> TRUE, kb |-> cond, memory |-> memory,
                            hit  |-> memory \in DOMAIN documentIds
                                     /\ documentIds[memory] \in h]
            /\ retrievals' = retrievals + 1
            /\ query' = query + 1
            /\ Goto(AfterQuery)
    /\ UNCHANGED <<input, cond, doc, polls, documentIds, kbs, index, abandoned>>

\* `_observe`: the rank of the evaluator's memory in the answer.
Observe ==
    /\ pc = "retrieve" /\ workload = "world"
    /\ Readable
    /\ \E h \in Answered :
        LET memory == oracle[query + 1]
        IN  /\ answer' = h
            /\ memory \in DOMAIN documentIds
            /\ recalled' = [made |-> TRUE, kb |-> cond, memory |-> memory,
                            hit  |-> documentIds[memory] \in h]
            /\ retrievals' = retrievals + 1
            /\ query' = query + 1
            /\ Goto(AfterQuery)
    /\ UNCHANGED <<input, cond, doc, polls, documentIds, kbs, index, abandoned>>

\* `document_ids[expected_memory]` of a memory that is not in this condition.
ObserveUnknown ==
    /\ pc = "retrieve" /\ workload = "world"
    /\ Readable
    /\ oracle[query + 1] \notin DOMAIN documentIds
    /\ Raise("lookup")
    /\ UNCHANGED <<input, place, results, service>>

\* A validation wants an answer, whichever.
Probe ==
    /\ pc = "retrieve" /\ workload = "validation"
    /\ Readable
    /\ answer' \in Answered \ {{}}
    /\ retrievals' = IF Stable(cond) THEN retrievals ELSE retrievals + 1
    /\ query' = query + 1
    /\ Goto(AfterQuery)
    /\ UNCHANGED <<input, cond, doc, polls, documentIds, recalled, kbs, index, abandoned>>

\* No hits, too many, a ranking that changed, or no usable answer at all.
RetrieveFails ==
    /\ pc = "retrieve"
    /\ \E e \in Failure : Raise(e)
    /\ UNCHANGED <<input, place, results, service>>

Inspect ==
    /\ pc = "inspect"
    /\ Goto("delete")
    /\ UNCHANGED <<input, place, results, service>>

InspectFails ==
    /\ pc = "inspect"
    /\ \E e \in Failure : Raise(e)
    /\ UNCHANGED <<input, place, results, service>>

----------------------------------------------------------------------------
\* The finally clause, and what follows it.

Forget == index' = [d \in DOMAIN index \ Holding |-> index[d]]

Proceed ==
    IF workload = "validation" THEN Goto("inventory") /\ UNCHANGED cond
    ELSE IF cond < NumKBs THEN Goto("create") /\ cond' = cond + 1
    ELSE End("ok") /\ UNCHANGED cond

\* Mutant: the reset deletes every knowledge base of the owner.
DeleteKB_Sweeps ==
    /\ pc = "delete"
    /\ kbs' = {}
    /\ Forget
    /\ IF exc = "none" THEN Proceed ELSE End(exc) /\ UNCHANGED cond
    /\ UNCHANGED <<input, doc, query, polls, results, answer, abandoned>>

DeleteKB ==
    /\ pc = "delete"
    /\ kbs' = kbs \ {cond}
    /\ Forget
    /\ IF exc = "none" THEN Proceed ELSE End(exc) /\ UNCHANGED cond
    /\ UNCHANGED <<input, doc, query, polls, results, answer, abandoned>>

\* Mutant: the outcome of the reset is not looked at.
DeleteFails_Ignored ==
    /\ pc = "delete" /\ exc = "none"
    /\ Proceed
    /\ UNCHANGED <<input, doc, query, polls, results, service>>

\* Mutant: a failed reset leaves the exception in flight.
DeleteFails_KeepsCause ==
    /\ pc = "delete"
    /\ \/ UNCHANGED <<kbs, index>>
       \/ kbs' = kbs \ {cond} /\ Forget
    /\ Fail(IF exc = "none" THEN "transport" ELSE exc)
    /\ UNCHANGED <<input, place, results, answer, abandoned>>

\* A failed reset replaces the exception in flight.
DeleteFails ==
    /\ pc = "delete"
    /\ \/ UNCHANGED <<kbs, index>>
       \/ kbs' = kbs \ {cond} /\ Forget
    /\ Fail("transport")
    /\ UNCHANGED <<input, place, results, answer, abandoned>>

----------------------------------------------------------------------------
\* The service on its own.

Progress ==
    /\ \E d \in DOMAIN index, s \in {"completed", "error"} :
           /\ index[d] = "waiting"
           /\ index' = [index EXCEPT ![d] = s]
    /\ UNCHANGED <<input, pc, place, results, exc, outcome, kbs, answer, abandoned>>

\* A creation that its command gave up on takes effect after all.
LateCreate ==
    /\ \E kb \in abandoned :
           /\ kbs' = kbs \cup {kb}
           /\ abandoned' = abandoned \ {kb}
    /\ UNCHANGED <<input, pc, place, results, exc, outcome, index, answer>>

Rest == pc = "ended" /\ UNCHANGED vars

----------------------------------------------------------------------------
\* The command's next request and what it makes of the answer.
Command ==
    \/ ListEmpty \/ ListLast \/ ListOccupied \/ Health \/ Unhealthy \/ ReadFails
    \/ CreateKB \/ CreateFails \/ Submit \/ SubmitFails
    \/ PollPending \/ PollCompleted \/ PollError \/ PollFails \/ Verify \/ VerifyFails
    \/ Observe \/ ObserveUnknown \/ Probe \/ RetrieveFails \/ Inspect \/ InspectFails
    \/ DeleteKB \/ DeleteFails

Next == Command \/ Progress \/ LateCreate \/ Rest

Spec == Init /\ [][Next]_vars

\* A command goes on: every request has a deadline and there are no retries.
\* Nothing is assumed of the service, which may index a document never.
FairSpec == Spec /\ WF_vars(Command)

----------------------------------------------------------------------------
\* Properties.

\* Every variable keeps its type.
TypeOK ==
    /\ workload \in {"world", "validation"}
    /\ oracle \in [1 .. TwoQueries -> SourceMemory \cup {Foreign}]
    /\ transport \in {"https", "injected"}
    /\ pc \in Labels
    /\ cond \in 1 .. NumKBs
    /\ doc \in Nat
    /\ query \in Nat
    /\ polls \in 0 .. PollLimit
    /\ documentIds \in [DOMAIN documentIds -> Document]
    /\ DOMAIN documentIds \subseteq Memory
    /\ recalled \in [made : BOOLEAN, kb : KB, memory : Memory, hit : BOOLEAN]
    /\ retrievals \in Nat
    /\ exc \in Exceptions
    /\ outcome \in Outcomes
    /\ kbs \subseteq KB
    /\ index \in [DOMAIN index -> Status]
    /\ DOMAIN index \subseteq Document
    /\ answer \subseteq Document
    /\ abandoned \subseteq KB

\* Whenever a query is about to be made, the knowledge base holds exactly the
\* documents of this checkpoint, all of them indexed: no answer depends on how
\* far the service had come, or on another condition's documents.
ObservedCorpus ==
    pc = "retrieve" =>
        /\ doc \in Work(cond).checkpoints
        /\ Holding = {<<cond, MemoryAt(cond, n)>> : n \in 1 .. doc}
        /\ Indexed = Holding

\* The evaluation of a retrieval says recalled exactly when the answer holds the
\* document that this knowledge base has for the evaluator's memory, and a world
\* completes only if there was one to find: no loader excludes an oracle that names
\* another world's memory, and nothing may count it as not recalled.
RecallIsHonest ==
    /\ recalled.made => (recalled.hit <=> <<recalled.kb, recalled.memory>> \in answer)
    /\ workload = "world" /\ outcome = "ok" =>
           \A q \in 1 .. TwoQueries : oracle[q] \in SourceMemory

\* The indexing wait gives a definite outcome: a document that the service had
\* completed by the last poll is never given up as timed out.
TimeoutIsReal ==
    [][exc # "timeout" /\ exc' = "timeout" => index[Target] = "waiting"]_vars

\* Whatever a command has left at the target, or may still come to be there, is of
\* the knowledge base it was at when it ended; and it leaves none if it ended without
\* an exception, or with one that came up in the middle of its work: a reset that
\* failed on the way out would have taken that exception's place.
NothingLeftBehind ==
    /\ kbs \cup abandoned \subseteq {Leftover, cond}
    /\ outcome \in {"ok", "notPassed", "timeout", "lookup"} =>
           kbs \cup abandoned \subseteq {Leftover}

\* A knowledge base that an earlier command's lost request creates while a validation
\* is under way is not passed over: no reset of this one takes it away, and the
\* validation comes to no verdict in the end.
LeftoverIsNoticed ==
    workload = "validation" /\ pc # "ended" /\ Leftover \in kbs ~>
        pc = "ended" /\ outcome \notin {"none", "ok", "notPassed"}

\* A complete workload made exactly the retrievals it is accounted for, so the
\* final counts never reject a run after all its work is done.
CountsMatch ==
    pc = "inventoryAfter" \/ (workload = "world" /\ outcome = "ok") =>
        retrievals = Expected

\* Every conversation ends, even with a service that never indexes a document.
ConversationEnds == <>(pc = "ended")

----------------------------------------------------------------------------
\* The inductive strengthening of the safety properties.

Outside == {"inventoryBefore", "healthBefore", "create", "inventory", "healthAfter",
            "inventoryAfter"}
Inside  == {"submit", "wait", "segments", "retrieve", "inspect", "delete"}

\* The first n documents of the current knowledge base.
Docs(n) == {<<cond, MemoryAt(cond, k)>> : k \in 1 .. n}

\* An exception is on its way out of the command, which has ended when it has an outcome.
ControlInv ==
    /\ outcome # "none" <=> pc = "ended"
    /\ exc # "none" => pc \in {"delete", "ended"}
    /\ pc \in Outside \ {"create"} => workload = "validation"
    /\ workload = "world" => outcome # "notPassed"

\* Where there is more to do there is something left to be done.
PlaceInv ==
    /\ pc \in {"submit", "wait", "segments"} => doc < Work(cond).docs
    /\ pc = "wait" => polls < PollLimit
    /\ pc = "retrieve" => doc \in Work(cond).checkpoints /\ query < Work(cond).queries

\* The service holds what the command has submitted, and what was verified is indexed.
CorpusInv ==
    /\ pc \in Outside => DOMAIN index = {}
    /\ pc \in {"submit", "retrieve", "inspect"} => DOMAIN index = Docs(doc)
    /\ pc \in {"wait", "segments"} => DOMAIN index = Docs(doc + 1)
    /\ pc \in Inside \ {"delete"} => \A d \in Docs(doc) : index[d] = "completed"
    /\ pc = "segments" => index[Target] = "completed"
    /\ pc = "delete" => \A d \in DOMAIN index : d[1] = cond

\* The map that `_ingest` returns is of the verified documents.
MapInv ==
    pc \in Inside \ {"delete"} =>
        /\ DOMAIN documentIds = {MemoryAt(cond, k) : k \in 1 .. doc}
        /\ \A m \in DOMAIN documentIds : documentIds[m] = <<cond, m>>

\* A world that has come past the queries of its baseline has an oracle of its own.
OracleInv ==
    workload = "world" =>
        /\ pc = "retrieve" => \A q \in 1 .. query : oracle[q] \in SourceMemory
        /\ cond > 1 \/ pc = "inspect" \/ (pc = "delete" /\ exc = "none") \/ outcome = "ok" =>
               \A q \in 1 .. TwoQueries : oracle[q] \in SourceMemory

EvaluationInv ==
    /\ workload = "validation" => ~ recalled.made
    /\ recalled.made => (recalled.hit <=> <<recalled.kb, recalled.memory>> \in answer)

\* Only the knowledge base it is at is its own, and outside of its work on it only a
\* failed creation or a failed reset leaves that one.
TargetInv ==
    /\ kbs \cup abandoned \subseteq {Leftover, cond}
    /\ outcome \notin Failure =>
        /\ abandoned \subseteq {Leftover}
        /\ kbs \subseteq {Leftover} \cup (IF pc \in Inside THEN {cond} ELSE {})

\* The knowledge bases of the stability check, which come first.
Uncounted == IF workload = "world" THEN 0 ELSE Recreations

\* The retrievals that the knowledge bases before the c-th one account for.
Earlier(c) ==
    LET n == c - 1 - Uncounted
    IN  IF n <= 0 THEN 0
        ELSE PerScenario * (n \div 3)
             + CASE n % 3 = 0 -> 0
                 [] n % 3 = 1 -> TwoQueries
                 [] OTHER     -> TwoQueries * (1 + Cardinality(Budgets))

\* Those that the checkpoints up to the n-th document of this one account for.
Counted(n) ==
    IF Stable(cond) THEN 0
    ELSE TwoQueries * Cardinality({k \in Work(cond).checkpoints : k <= n})

\* The count is that of the checkpoints passed and of the queries made at this one.
AccountInv ==
    /\ pc \in {"inventoryBefore", "healthBefore", "create"} => retrievals = Earlier(cond)
    /\ pc \in {"submit", "wait", "segments"} => retrievals = Earlier(cond) + Counted(doc)
    /\ pc = "retrieve" =>
           retrievals = Earlier(cond) + Counted(doc - 1)
                        + (IF Stable(cond) THEN 0 ELSE query)
    /\ pc \in {"inspect", "inventory"} \/ (pc = "delete" /\ exc = "none") =>
           retrievals = Earlier(cond + 1)
    /\ pc \in {"healthAfter", "inventoryAfter"} \/ outcome \in {"ok", "notPassed"} =>
           retrievals = Expected

IInv ==
    /\ TypeOK
    /\ ControlInv
    /\ PlaceInv
    /\ CorpusInv
    /\ MapInv
    /\ OracleInv
    /\ EvaluationInv
    /\ TargetInv
    /\ AccountInv

----------------------------------------------------------------------------
\* A world is what CampaignWorkspace takes it for: three times a creation, a step
\* of work and a reset, with the same failures.  An abandoned creation counts as
\* made, as it does there.

Executor == "executor"

\* Where the campaign is, and what it has in flight and told, when the command is here.
PcAt ==
    IF pc \in {"create", "delete"} THEN pc
    ELSE IF pc # "ended" THEN "work"
    ELSE CASE outcome = "ok"                        -> "poll"
           [] outcome \in {"transport", "timeout"} -> "deviate"
           [] OTHER                                -> "ended"

ExcAt ==
    CASE "lookup" \in {exc, outcome} /\ outcome \in {"none", "lookup"} -> "lookup"
      [] "uncaught" \in {exc, outcome} /\ outcome \in {"none", "uncaught"} -> "uncaught"
      [] exc = "none" /\ outcome \in {"none", "ok"} -> "none"
      [] OTHER -> "transport"

ExitAt ==
    CASE outcome = "uncaught" -> "invalid"
      [] outcome = "lookup"   -> "crashed"
      [] OTHER                -> "none"

\* A completed world is behind the campaign; conditions are numbered from 0 there.
WorldAt == IF outcome = "ok" THEN 1 ELSE 0
CondAt  == IF outcome = "ok" THEN 0 ELSE cond - 1
Alive   == {<<Executor, 0, kb - 1>> : kb \in (kbs \cup abandoned) \ {Leftover}}

Workspace == INSTANCE CampaignWorkspace
    WITH Process <- {Executor}, None <- "none", NumWorlds <- 1, NumConditions <- 3,
         validationOnly <- FALSE,
         pc <- [p \in {Executor} |-> PcAt],
         cmd <- [p \in {Executor} |-> "execute"],
         attempt <- [p \in {Executor} |-> 0],
         met <- [p \in {Executor} |-> {}],
         world <- [p \in {Executor} |-> WorldAt],
         cond <- [p \in {Executor} |-> CondAt],
         exc <- [p \in {Executor} |-> ExcAt],
         exit <- [p \in {Executor} |-> ExitAt],
         contacted <- [p \in {Executor} |-> TRUE],
         late <- [p \in {Executor} |-> 0],
         checkpoint <- [phase |-> "running", by |-> Executor, next |-> 0],
         cancelFile <- FALSE,
         deviation <- "none",
         preflight <- [a \in 1 .. 3 |-> "none"],
         bundle <- "none",
         kbs <- Alive,
         expired <- FALSE

\* Each step of a world is a step of the campaign, or none.
ImplementsWork == [][workload = "world" => Workspace!Advance(Executor) \/ UNCHANGED Workspace!vars]_vars
=============================================================================
