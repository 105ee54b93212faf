---------------------- MODULE KnowledgeExchange_proofs ----------------------
(***************************************************************************)
(* Proofs about KnowledgeExchange, for worlds and pools of any size, any   *)
(* observation budgets, any number of recreations, dry runs and polls, and *)
(* a service that does what it likes when it likes.  The lemmas follow the *)
(* conjuncts of the inductive invariant IInv; in each, the steps that      *)
(* cannot disturb the conjunct share a leaf and the others have their own. *)
(***************************************************************************)
EXTENDS KnowledgeExchange, FiniteSetTheorems, TLAPS

\* The three conditions of a world.
LEMMA GeometryType ==
    ASSUME NEW i \in 1 .. 3
    PROVE  /\ Geometry[i].docs \in 1 .. Sources + PoolSize
           /\ Geometry[i].docs \in Geometry[i].checkpoints
           /\ Geometry[i].checkpoints \subseteq 1 .. Geometry[i].docs
           /\ Geometry[i].queries = TwoQueries
<1> USE GeometryAssumption
<1>1. CASE i = 1
  BY <1>1 DEF Geometry
<1>2. CASE i # 1
  <2>1. /\ Geometry[i].docs = Sources + PoolSize
        /\ Geometry[i].checkpoints = {Sources + b : b \in Budgets}
        /\ Geometry[i].queries = TwoQueries
    BY <1>2 DEF Geometry
  <2>2. \A b \in Budgets : b \in 1 .. PoolSize
    OBVIOUS
  <2>3. QED
    BY <2>1, <2>2
<1>3. QED
  BY <1>1, <1>2

\* Every knowledge base is of one of these, or a clean recreation.
LEMMA WorkType ==
    ASSUME TypeOK
    PROVE  /\ Work(cond).docs \in 1 .. Sources + PoolSize
           /\ Work(cond).docs \in Work(cond).checkpoints
           /\ Work(cond).checkpoints \subseteq 1 .. Work(cond).docs
           /\ Work(cond).queries \in Nat \ {0}
<1>1. CASE Stable(cond)
  BY <1>1, GeometryAssumption DEF Work, Recreation
<1>2. CASE ~ Stable(cond) /\ workload = "world"
  <2>1. cond \in 1 .. 3
    BY <1>2 DEF TypeOK, NumKBs
  <2>2. QED
    BY <1>2, <2>1, GeometryType DEF Work, TwoQueries
<1>3. CASE ~ Stable(cond) /\ workload # "world"
  <2>1. cond \in Int /\ Recreations \in Int
    BY GeometryAssumption DEF TypeOK
  <2>2. ((cond - Recreations - 1) % 3) + 1 \in 1 .. 3
    BY <2>1
  <2>3. QED
    BY <1>3, <2>2, GeometryType DEF Work, TwoQueries
<1>4. QED
  BY <1>1, <1>2, <1>3

\* Knowledge bases, memories and documents are what they are taken for.
LEMMA PlaceType ==
    ASSUME TypeOK
    PROVE  /\ cond \in KB
           /\ \A n \in 1 .. Sources + PoolSize :
                  MemoryAt(cond, n) \in Memory /\ <<cond, MemoryAt(cond, n)>> \in Document
<1> USE GeometryAssumption
<1>1. cond \in 1 .. Recreations + 3 * DryRuns + 3
  BY DEF TypeOK, NumKBs
<1>2. ASSUME NEW n \in 1 .. Sources + PoolSize
      PROVE  MemoryAt(cond, n) \in Memory
  BY <1>1 DEF MemoryAt, Memory, SourceMemory
<1>3. cond \in KB
  BY <1>1 DEF KB
<1>4. QED
  BY <1>2, <1>3 DEF Document

\* No two places of a knowledge base hold one memory.
LEMMA PlacesDiffer ==
    ASSUME NEW c, NEW i \in Nat, NEW j \in Nat, MemoryAt(c, i) = MemoryAt(c, j)
    PROVE  i = j
BY GeometryAssumption DEF MemoryAt

\* The document being ingested is one of this knowledge base.
LEMMA TargetType ==
    ASSUME TypeOK, PlaceInv, pc \in {"submit", "wait", "segments"}
    PROVE  /\ doc + 1 \in 1 .. Work(cond).docs
           /\ Next1 \in Memory /\ Target \in Document /\ Target = <<cond, Next1>>
<1>1. doc + 1 \in 1 .. Work(cond).docs
  BY WorkType DEF TypeOK, PlaceInv
<1>2. doc + 1 \in 1 .. Sources + PoolSize
  BY <1>1, WorkType, GeometryAssumption
<1>3. QED
  BY <1>1, <1>2, PlaceType DEF Next1, Target

\* Every step keeps the types.
LEMMA TypeStep ==
    ASSUME TypeOK, ControlInv, PlaceInv, [Next]_vars
    PROVE  TypeOK'
<1> USE LimitAssumption DEF TypeOK, input, place, results, service, Goto, End, Raise, Fail,
        Failure, Exceptions, Outcomes, Labels
<1>1. CASE ListEmpty
  <2>1. pc = "inventory" /\ cond < NumKBs => cond + 1 \in 1 .. NumKBs
    BY GeometryAssumption DEF NumKBs
  <2>2. UNCHANGED workload
    BY <1>1 DEF ListEmpty
  <2>3. cond' \in 1 .. NumKBs'
    BY <1>1, <2>1, <2>2 DEF ListEmpty, NumKBs
  <2>4. QED
    BY <1>1, <2>3 DEF ListEmpty, AfterInventory
<1>2. CASE ListLast
  BY <1>2 DEF ListLast, NumKBs
<1>3. CASE ListOccupied \/ Health \/ Unhealthy \/ ReadFails
  BY <1>3 DEF ListOccupied, Health, Unhealthy, ReadFails, NumKBs
<1>4. CASE CreateKB
  <2>1. documentIds' = Empty /\ DOMAIN Empty = {} /\ Empty \in [DOMAIN Empty -> Document]
    BY <1>4 DEF CreateKB, Empty
  <2>2. <<0, 1>> \in Memory /\ Leftover \in KB
    <3>1. 1 \in 1 .. Sources
      BY GeometryAssumption
    <3>2. <<0, 1>> \in SourceMemory
      BY <3>1 DEF SourceMemory
    <3>3. QED
      BY <3>2, GeometryAssumption DEF Memory, KB, Leftover
  <2>3. recalled' \in [made : BOOLEAN, kb : KB, memory : Memory, hit : BOOLEAN]
    BY <1>4, <2>2 DEF CreateKB, NoEvaluation
  <2>4. /\ documentIds' \in [DOMAIN documentIds' -> Document]
        /\ DOMAIN documentIds' \subseteq Memory
    BY <2>1
  <2>5. kbs' \subseteq KB
    BY <1>4, PlaceType DEF CreateKB
  <2>6. QED
    BY <1>4, <2>3, <2>4, <2>5 DEF CreateKB, NumKBs
<1>5. CASE CreateFails
  <2>1. kbs' \subseteq KB /\ abandoned' \subseteq KB
    BY <1>5, PlaceType DEF CreateFails
  <2>2. QED
    BY <1>5, <2>1 DEF CreateFails, NumKBs
<1>6. CASE Submit \/ SubmitFails
  <2>1. /\ Put(index, Target, "waiting") \in [DOMAIN Put(index, Target, "waiting") -> Status]
        /\ DOMAIN Put(index, Target, "waiting") \subseteq Document
    <3>1. Target \in Document
      BY <1>6, TargetType DEF Submit, SubmitFails
    <3>2. QED
      BY <3>1 DEF Put, Status
  <2>2. index' \in {index, Put(index, Target, "waiting")}
    BY <1>6 DEF Submit, SubmitFails
  <2>3. index' \in [DOMAIN index' -> Status] /\ DOMAIN index' \subseteq Document
    BY <2>1, <2>2
  <2>4. CASE Submit
    BY <2>3, <2>4 DEF Submit, NumKBs
  <2>5. CASE SubmitFails
    BY <2>3, <2>5 DEF SubmitFails, NumKBs
  <2>6. QED
    BY <1>6, <2>4, <2>5
<1>7. CASE PollPending \/ PollCompleted \/ PollError \/ PollFails
  <2>1. CASE PollPending
    <3>1. polls + 1 \in 0 .. PollLimit
      BY <2>1 DEF PollPending, PlaceInv
    <3>2. QED
      BY <2>1, <3>1 DEF PollPending, NumKBs
  <2>2. CASE PollCompleted
    BY <2>2 DEF PollCompleted, NumKBs
  <2>3. CASE PollError \/ PollFails
    BY <2>3 DEF PollError, PollFails, NumKBs
  <2>4. QED
    BY <1>7, <2>1, <2>2, <2>3
<1>8. CASE Verify
  <2>1. Next1 \in Memory /\ Target \in Document
    BY <1>8, TargetType DEF Verify
  <2>2. /\ documentIds' \in [DOMAIN documentIds' -> Document]
        /\ DOMAIN documentIds' \subseteq Memory
    BY <1>8, <2>1 DEF Verify, Put
  <2>3. pc' \in Labels
    BY <1>8 DEF Verify, Continue
  <2>4. QED
    BY <1>8, <2>2, <2>3 DEF Verify, NumKBs
<1>9. CASE Observe
  <2>1. PICK h \in Answered :
          /\ answer' = h
          /\ oracle[query + 1] \in DOMAIN documentIds
          /\ recalled' = [made |-> TRUE, kb |-> cond, memory |-> oracle[query + 1],
                          hit  |-> documentIds[oracle[query + 1]] \in h]
    BY <1>9 DEF Observe
  <2>2. answer' \subseteq Document
    BY <2>1 DEF Answered, Indexed, Holding
  <2>3. recalled' \in [made : BOOLEAN, kb : KB, memory : Memory, hit : BOOLEAN]
    BY <2>1, PlaceType
  <2>4. pc' \in Labels
    BY <1>9 DEF Observe, AfterQuery, Continue
  <2>5. QED
    BY <1>9, <2>2, <2>3, <2>4 DEF Observe, NumKBs
<1>10. CASE Probe
  <2>1. answer' \subseteq Document
    BY <1>10 DEF Probe, Answered, Indexed, Holding
  <2>2. pc' \in Labels
    BY <1>10 DEF Probe, AfterQuery, Continue
  <2>3. QED
    BY <1>10, <2>1, <2>2 DEF Probe, NumKBs
<1>11. CASE VerifyFails \/ ObserveUnknown \/ RetrieveFails
  BY <1>11 DEF VerifyFails, ObserveUnknown, RetrieveFails, NumKBs
<1>12. CASE Inspect \/ InspectFails
  BY <1>12 DEF Inspect, InspectFails, NumKBs
<1>13. CASE DeleteKB \/ DeleteFails
  <2>1. index' \in [DOMAIN index' -> Status] /\ DOMAIN index' \subseteq Document
    BY <1>13 DEF DeleteKB, DeleteFails, Forget
  <2>2. kbs' \subseteq KB
    BY <1>13 DEF DeleteKB, DeleteFails
  <2>3. CASE DeleteKB
    <3>1. cond < NumKBs => cond + 1 \in 1 .. NumKBs
      BY GeometryAssumption DEF NumKBs
    <3>2. UNCHANGED workload
      BY <2>3 DEF DeleteKB
    <3>3. cond' \in 1 .. NumKBs'
      BY <2>3, <3>1, <3>2 DEF DeleteKB, Proceed, NumKBs
    <3>4. pc' \in Labels /\ exc' = exc /\ outcome' \in Outcomes
      BY <2>3 DEF DeleteKB, Proceed
    <3>5. QED
      BY <2>1, <2>2, <2>3, <3>3, <3>4 DEF DeleteKB
  <2>4. CASE DeleteFails
    BY <2>1, <2>2, <2>4 DEF DeleteFails, NumKBs
  <2>5. QED
    BY <1>13, <2>3, <2>4
<1>14. CASE Progress
  <2>1. index' \in [DOMAIN index' -> Status] /\ DOMAIN index' \subseteq Document
    BY <1>14 DEF Progress, Status
  <2>2. QED
    BY <1>14, <2>1 DEF Progress, NumKBs
<1>15. CASE LateCreate
  BY <1>15 DEF LateCreate, NumKBs
<1>16. CASE Rest \/ UNCHANGED vars
  BY <1>16 DEF Rest, vars, NumKBs
<1>17. QED
  BY <1>1, <1>2, <1>3, <1>4, <1>5, <1>6, <1>7, <1>8, <1>9, <1>10, <1>11, <1>12, <1>13,
     <1>14, <1>15, <1>16
     DEF Next, Command

\* Every step keeps outcome, exception and place in step.
LEMMA ControlStep ==
    ASSUME TypeOK, ControlInv, [Next]_vars
    PROVE  ControlInv'
<1> USE DEF TypeOK, ControlInv, input, place, results, service, Goto, End, Raise, Fail,
        Failure, Exceptions, Outcomes, Outside
<1>1. CASE ListEmpty \/ ListLast
  BY <1>1 DEF ListEmpty, AfterInventory, ListLast
<1>2. CASE ListOccupied \/ Health \/ Unhealthy \/ ReadFails
  BY <1>2 DEF ListOccupied, Health, Unhealthy, ReadFails
<1>3. CASE CreateKB \/ CreateFails
  BY <1>3 DEF CreateKB, CreateFails
<1>4. CASE Submit \/ SubmitFails
  BY <1>4 DEF Submit, SubmitFails
<1>5. CASE PollPending \/ PollCompleted \/ PollError \/ PollFails
  BY <1>5 DEF PollPending, PollCompleted, PollError, PollFails
<1>6. CASE Verify \/ VerifyFails
  BY <1>6 DEF Verify, VerifyFails, Continue
<1>7. CASE Observe \/ ObserveUnknown
  BY <1>7 DEF Observe, ObserveUnknown, AfterQuery, Continue
<1>8. CASE Probe \/ RetrieveFails \/ Inspect \/ InspectFails
  BY <1>8 DEF Probe, RetrieveFails, Inspect, InspectFails, AfterQuery, Continue
<1>9. CASE DeleteKB
  BY <1>9 DEF DeleteKB, Proceed
<1>10. CASE DeleteFails
  BY <1>10 DEF DeleteFails
<1>11. CASE Progress \/ LateCreate
  BY <1>11 DEF Progress, LateCreate
<1>12. CASE Rest \/ UNCHANGED vars
  BY <1>12 DEF Rest, vars
<1>13. QED
  BY <1>1, <1>2, <1>3, <1>4, <1>5, <1>6, <1>7, <1>8, <1>9, <1>10, <1>11, <1>12
     DEF Next, Command

\* What is to be done at a knowledge base does not change while the command is there.
LEMMA WorkSame ==
    ASSUME UNCHANGED <<workload, cond>>
    PROVE  Work(cond)' = Work(cond)
BY DEF Work, Stable

\* Every step goes only where there is something left to do.
LEMMA PlaceStep ==
    ASSUME TypeOK, PlaceInv, [Next]_vars
    PROVE  PlaceInv'
<1> USE DEF PlaceInv, input, place, results, service, Goto, End, Raise, Fail
<1>1. CASE ListEmpty \/ ListLast \/ ListOccupied \/ Health \/ Unhealthy \/ ReadFails
  BY <1>1 DEF ListEmpty, AfterInventory, ListLast, ListOccupied, Health, Unhealthy, ReadFails
<1>2. CASE CreateKB
  <2>1. Work(cond)' = Work(cond)
    BY <1>2, WorkSame DEF CreateKB
  <2>2. QED
    BY <1>2, <2>1, WorkType DEF CreateKB
<1>3. CASE Submit
  <2>1. Work(cond)' = Work(cond)
    BY <1>3, WorkSame DEF Submit
  <2>2. QED
    BY <1>3, <2>1, LimitAssumption DEF Submit
<1>4. CASE PollPending \/ PollCompleted
  <2>1. Work(cond)' = Work(cond)
    BY <1>4, WorkSame DEF PollPending, PollCompleted
  <2>2. QED
    BY <1>4, <2>1 DEF PollPending, PollCompleted
<1>5. CASE Verify
  <2>1. Work(cond)' = Work(cond)
    BY <1>5, WorkSame DEF Verify
  <2>2. QED
    BY <1>5, <2>1, WorkType DEF Verify, Continue
<1>6. CASE Observe \/ Probe
  <2>1. Work(cond)' = Work(cond) /\ doc' = doc /\ query' = query + 1 /\ pc = "retrieve"
    BY <1>6, WorkSame DEF Observe, Probe
  <2>2. pc' = IF query + 1 < Work(cond).queries THEN "retrieve"
              ELSE IF doc < Work(cond).docs THEN "submit" ELSE "inspect"
    BY <1>6 DEF Observe, Probe, AfterQuery, Continue
  <2>3. QED
    BY <2>1, <2>2
<1>7. CASE CreateFails \/ SubmitFails \/ PollError \/ PollFails \/ VerifyFails
  BY <1>7 DEF CreateFails, SubmitFails, PollError, PollFails, VerifyFails
<1>8. CASE ObserveUnknown \/ RetrieveFails \/ Inspect \/ InspectFails
  BY <1>8 DEF ObserveUnknown, RetrieveFails, Inspect, InspectFails
<1>9. CASE DeleteKB \/ DeleteFails
  BY <1>9 DEF DeleteKB, DeleteFails, Proceed
<1>10. CASE Progress \/ LateCreate \/ Rest \/ UNCHANGED vars
  <2>1. UNCHANGED <<pc, workload, cond, doc, query, polls>>
    BY <1>10 DEF Progress, LateCreate, Rest, vars
  <2>2. Work(cond)' = Work(cond)
    BY <2>1, WorkSame
  <2>3. QED
    BY <2>1, <2>2
<1>11. QED
  BY <1>1, <1>2, <1>3, <1>4, <1>5, <1>6, <1>7, <1>8, <1>9, <1>10 DEF Next, Command

\* The documents of a knowledge base, one by one.
LEMMA DocsGrow ==
    ASSUME TypeOK
    PROVE  /\ Docs(0) = {}
           /\ Docs(doc + 1) = Docs(doc) \cup {Target}
           /\ Target \notin Docs(doc)
           /\ \A n \in Nat : \A d \in Docs(n) : d[1] = cond
<1>1. Docs(0) = {} /\ \A n \in Nat : \A d \in Docs(n) : d[1] = cond
  BY DEF Docs
<1>2. 1 .. doc + 1 = (1 .. doc) \cup {doc + 1} /\ doc \in Nat
  BY DEF TypeOK
<1>3. Docs(doc + 1) = Docs(doc) \cup {Target}
  BY <1>2 DEF Docs, Target, Next1
<1>4. ASSUME NEW k \in 1 .. doc
      PROVE  Target # <<cond, MemoryAt(cond, k)>>
  <2>1. k \in Nat /\ doc + 1 \in Nat /\ k # doc + 1
    BY <1>2, <1>4
  <2>2. MemoryAt(cond, k) # MemoryAt(cond, doc + 1)
    BY <2>1, PlacesDiffer
  <2>3. QED
    BY <2>2 DEF Target, Next1
<1>5. QED
  BY <1>1, <1>3, <1>4 DEF Docs

\* As long as the command stays at a knowledge base its documents have their places.
LEMMA DocsSame ==
    ASSUME UNCHANGED cond
    PROVE  \A n : Docs(n)' = Docs(n)
BY DEF Docs

\* Every step keeps what the service holds in agreement with what was submitted.
LEMMA CorpusStep ==
    ASSUME TypeOK, CorpusInv, [Next]_vars
    PROVE  CorpusInv'
<1> USE DEF CorpusInv, Outside, Inside, input, place, results, service, Goto, End, Raise, Fail
<1>a. doc \in Nat
  BY DEF TypeOK
<1>1. CASE ListEmpty \/ ListLast \/ ListOccupied \/ Health \/ Unhealthy \/ ReadFails
  BY <1>1 DEF ListEmpty, AfterInventory, ListLast, ListOccupied, Health, Unhealthy, ReadFails
<1>2. CASE CreateKB
  <2>1. Docs(0)' = {} /\ doc' = 0 /\ pc' = "submit"
    BY <1>2, DocsGrow, DocsSame DEF CreateKB
  <2>2. Docs(doc)' = {}
    BY <2>1, <1>2 DEF Docs
  <2>3. QED
    BY <1>2, <2>1, <2>2 DEF CreateKB
<1>3. CASE Submit
  <2>1. /\ DOMAIN index = Docs(doc) /\ \A d \in Docs(doc) : index[d] = "completed"
        /\ index' = Put(index, Target, "waiting") /\ pc' = "wait"
        /\ UNCHANGED <<cond, doc>>
    BY <1>3 DEF Submit
  <2>2. Docs(doc)' = Docs(doc) /\ Docs(doc + 1)' = Docs(doc + 1)
    BY <2>1, DocsSame
  <2>0. /\ DOMAIN index' = DOMAIN index \cup {Target}
        /\ \A d \in DOMAIN index \ {Target} : index'[d] = index[d]
    BY <2>1 DEF Put
  <2>3. DOMAIN index' = Docs(doc + 1)
    BY <2>1, <2>0, DocsGrow
  <2>4. \A d \in Docs(doc) : index'[d] = "completed"
    BY <2>1, <2>0, DocsGrow
  <2>5. QED
    BY <2>1, <2>2, <2>3, <2>4
<1>4. CASE PollPending \/ PollCompleted
  <2>1. UNCHANGED <<cond, doc, index, Target>> /\ pc = "wait"
    BY <1>4 DEF PollPending, PollCompleted, Target, Next1
  <2>2. Docs(doc)' = Docs(doc) /\ Docs(doc + 1)' = Docs(doc + 1)
    BY <2>1, DocsSame
  <2>3. CASE pc' = "wait"
    BY <2>1, <2>2, <2>3
  <2>4. CASE pc' = "segments"
    <3>1. index[Target] = "completed"
      BY <1>4, <2>4 DEF PollPending, PollCompleted
    <3>2. QED
      BY <2>1, <2>2, <2>4, <3>1
  <2>5. CASE pc' = "delete"
    <3>1. \A d \in DOMAIN index : d[1] = cond
      BY <2>1, <1>a, DocsGrow
    <3>2. QED
      BY <2>1, <2>5, <3>1
  <2>6. QED
    BY <1>4, <2>3, <2>4, <2>5 DEF PollPending, PollCompleted
<1>5. CASE Verify
  <2>1. /\ UNCHANGED <<cond, index>> /\ doc' = doc + 1
        /\ pc' \in {"retrieve", "submit", "inspect"}
        /\ DOMAIN index = Docs(doc + 1) /\ index[Target] = "completed"
        /\ \A d \in Docs(doc) : index[d] = "completed"
    BY <1>5 DEF Verify, Continue
  <2>2. Docs(doc)' = Docs(doc + 1)
    BY <2>1 DEF Docs
  <2>3. \A d \in Docs(doc + 1) : index[d] = "completed"
    BY <2>1, DocsGrow
  <2>4. QED
    BY <2>1, <2>2, <2>3
<1>6. CASE Observe \/ Probe \/ Inspect
  <2>1. /\ UNCHANGED <<cond, doc, index>> /\ pc \in {"retrieve", "inspect"}
        /\ pc' \in {"retrieve", "submit", "inspect", "delete"}
    BY <1>6 DEF Observe, Probe, Inspect, AfterQuery, Continue
  <2>2. Docs(doc)' = Docs(doc)
    BY <2>1, DocsSame
  <2>3. \A d \in DOMAIN index : d[1] = cond
    BY <2>1, <1>a, DocsGrow
  <2>4. QED
    BY <2>1, <2>2, <2>3
<1>7. CASE \/ SubmitFails \/ PollError \/ PollFails \/ VerifyFails \/ ObserveUnknown
           \/ RetrieveFails \/ InspectFails
  <2>1. /\ UNCHANGED cond /\ pc' = "delete"
        /\ pc \in {"submit", "wait", "segments", "retrieve", "inspect"}
        /\ index' = index \/ index' = Put(index, Target, "waiting")
    BY <1>7 DEF SubmitFails, PollError, PollFails, VerifyFails, ObserveUnknown, RetrieveFails,
       InspectFails
  <2>2. \A d \in DOMAIN index : d[1] = cond
    BY <2>1, <1>a, DocsGrow
  <2>3. Target[1] = cond
    BY DEF Target
  <2>0. DOMAIN index' \subseteq DOMAIN index \cup {Target}
    BY <2>1 DEF Put
  <2>4. \A d \in DOMAIN index' : d[1] = cond
    BY <2>2, <2>3, <2>0
  <2>5. QED
    BY <2>1, <2>4
<1>8. CASE DeleteKB
  <2>1. DOMAIN index' = DOMAIN index \ Holding
    BY <1>8 DEF DeleteKB, Forget
  <2>2. DOMAIN index' = {}
    BY <1>8, <2>1 DEF DeleteKB, Holding
  <2>3. pc' \in {"inventory", "create", "ended"}
    BY <1>8 DEF DeleteKB, Proceed
  <2>4. QED
    BY <2>2, <2>3
<1>9. CASE CreateFails \/ DeleteFails
  BY <1>9 DEF CreateFails, DeleteFails
<1>10. CASE Progress
  <2>1. PICK x \in DOMAIN index, s \in {"completed", "error"} :
            index[x] = "waiting" /\ index' = [index EXCEPT ![x] = s]
    BY <1>10 DEF Progress
  <2>2. /\ UNCHANGED <<pc, cond, doc, Target>>
        /\ DOMAIN index' = DOMAIN index
        /\ \A d \in DOMAIN index : index[d] = "completed" => index'[d] = "completed"
    BY <1>10, <2>1 DEF Progress, Target, Next1
  <2>3. Docs(doc)' = Docs(doc) /\ Docs(doc + 1)' = Docs(doc + 1)
    BY <2>2, DocsSame
  <2>4. pc \in Inside \ {"delete"} => Docs(doc) \subseteq DOMAIN index
    BY DocsGrow
  <2>5. pc = "segments" => Target \in DOMAIN index
    BY DocsGrow
  <2>6. QED
    BY <2>2, <2>3, <2>4, <2>5
<1>11. CASE LateCreate \/ Rest \/ UNCHANGED vars
  <2>1. UNCHANGED <<pc, cond, doc, index, Target>>
    BY <1>11 DEF LateCreate, Rest, vars, Target, Next1
  <2>2. Docs(doc)' = Docs(doc) /\ Docs(doc + 1)' = Docs(doc + 1)
    BY <2>1, DocsSame
  <2>3. QED
    BY <2>1, <2>2
<1>12. QED
  BY <1>1, <1>2, <1>3, <1>4, <1>5, <1>6, <1>7, <1>8, <1>9, <1>10, <1>11 DEF Next, Command

\* Every step keeps the map of documents in agreement with the verified documents.
LEMMA MapStep ==
    ASSUME TypeOK, MapInv, [Next]_vars
    PROVE  MapInv'
<1> USE DEF MapInv, Inside, input, place, results, service, Goto, End, Raise, Fail
<1>1. CASE ListEmpty \/ ListLast \/ ListOccupied \/ Health \/ Unhealthy \/ ReadFails
  BY <1>1 DEF ListEmpty, AfterInventory, ListLast, ListOccupied, Health, Unhealthy, ReadFails
<1>2. CASE CreateKB
  BY <1>2 DEF CreateKB, Empty
<1>3. CASE Verify
  <2>1. /\ DOMAIN documentIds = {MemoryAt(cond, k) : k \in 1 .. doc}
        /\ \A m \in DOMAIN documentIds : documentIds[m] = <<cond, m>>
        /\ documentIds' = Put(documentIds, Next1, Target)
        /\ doc' = doc + 1 /\ UNCHANGED cond
    BY <1>3 DEF Verify
  <2>2. 1 .. doc + 1 = (1 .. doc) \cup {doc + 1}
    BY DEF TypeOK
  <2>3. DOMAIN documentIds' = {MemoryAt(cond, k) : k \in 1 .. doc + 1}
    BY <2>1, <2>2 DEF Put, Next1
  <2>4. \A m \in DOMAIN documentIds' : documentIds'[m] = <<cond, m>>
    BY <2>1 DEF Put, Target
  <2>5. QED
    BY <2>1, <2>3, <2>4
<1>4. CASE \/ Submit \/ PollPending \/ PollCompleted \/ Observe \/ Probe \/ Inspect
           \/ Progress \/ LateCreate \/ Rest \/ UNCHANGED vars
  <2>1. UNCHANGED <<cond, doc, documentIds>> /\ (pc' \in Inside \ {"delete"} => pc \in Inside \ {"delete"})
    BY <1>4 DEF Submit, PollPending, PollCompleted, Observe, Probe, Inspect, Progress,
       LateCreate, Rest, vars
  <2>2. {MemoryAt(cond, k) : k \in 1 .. doc}' = {MemoryAt(cond, k) : k \in 1 .. doc}
    BY <2>1
  <2>3. QED
    BY <2>1, <2>2
<1>5. CASE \/ CreateFails \/ SubmitFails \/ PollError \/ PollFails \/ VerifyFails
  BY <1>5 DEF CreateFails, SubmitFails, PollError, PollFails, VerifyFails
<1>6. CASE \/ ObserveUnknown \/ RetrieveFails \/ InspectFails \/ DeleteKB \/ DeleteFails
  BY <1>6 DEF ObserveUnknown, RetrieveFails, InspectFails, DeleteKB, DeleteFails, Proceed
<1>7. QED
  BY <1>1, <1>2, <1>3, <1>4, <1>5, <1>6 DEF Next, Command

\* The baseline of a world, the first condition, holds its sources and is queried when
\* it holds them all.
LEMMA Baseline ==
    ASSUME TypeOK, PlaceInv, MapInv, workload = "world", cond = 1
    PROVE  /\ Work(cond).docs = Sources /\ Work(cond).checkpoints = {Sources}
           /\ Work(cond).queries = TwoQueries
           /\ pc = "retrieve" => doc = Sources /\ DOMAIN documentIds = SourceMemory
<1>1. Work(cond) = [docs |-> Sources, checkpoints |-> {Sources}, queries |-> TwoQueries]
  BY DEF Work, Stable, Geometry
<1>2. ASSUME pc = "retrieve"
      PROVE  doc = Sources /\ DOMAIN documentIds = SourceMemory
  <2>1. doc = Sources /\ DOMAIN documentIds = {MemoryAt(cond, k) : k \in 1 .. doc}
    BY <1>1, <1>2 DEF PlaceInv, MapInv, Inside
  <2>2. \A k \in 1 .. Sources : MemoryAt(cond, k) = <<0, k>>
    BY GeometryAssumption DEF MemoryAt
  <2>3. QED
    BY <2>1, <2>2 DEF SourceMemory
<1>3. QED
  BY <1>1, <1>2

\* Every step keeps the oracle of a world in agreement with how far the world has come.
LEMMA OracleStep ==
    ASSUME TypeOK, ControlInv, PlaceInv, MapInv, OracleInv, [Next]_vars
    PROVE  OracleInv'
<1> USE DEF OracleInv, input, place, results, service, Goto, End, Raise, Fail, Failure
<1>1. CASE ListEmpty \/ ListLast \/ ListOccupied \/ Health \/ Unhealthy \/ ReadFails
  <2>1. workload = "validation" /\ UNCHANGED workload
    BY <1>1 DEF ListEmpty, ListLast, ListOccupied, Health, Unhealthy, ReadFails, ControlInv,
       Outside
  <2>2. QED
    BY <2>1
<1>2. CASE CreateKB \/ Submit \/ PollPending \/ PollCompleted
  BY <1>2 DEF CreateKB, Submit, PollPending, PollCompleted
<1>3. CASE Verify
  <2>1. doc + 1 \notin Work(cond).checkpoints => doc + 1 < Work(cond).docs
    BY <1>3, WorkType DEF Verify, PlaceInv, TypeOK
  <2>2. pc' \in {"retrieve", "submit"} /\ query' = 0
    BY <1>3, <2>1 DEF Verify, Continue
  <2>3. \A q \in 1 .. query' : oracle'[q] \in SourceMemory
    BY <2>2
  <2>4. QED
    BY <1>3, <2>2, <2>3 DEF Verify
<1>4. CASE Observe
  <2>1. /\ workload = "world" /\ pc = "retrieve"
        /\ oracle[query + 1] \in DOMAIN documentIds
        /\ query' = query + 1 /\ UNCHANGED <<workload, oracle, cond, exc, outcome>>
        /\ pc' = AfterQuery
    BY <1>4 DEF Observe
  <2>2. CASE cond > 1
    <3>1. query + 1 <= TwoQueries \/ pc' # "retrieve"
      <4>1. Work(cond).queries = TwoQueries
        BY <2>1, <2>2, GeometryType DEF Work, Stable, TypeOK, NumKBs
      <4>2. QED
        BY <2>1, <4>1 DEF AfterQuery, Continue, TypeOK, TwoQueries
    <3>2. \A q \in 1 .. TwoQueries : oracle[q] \in SourceMemory
      BY <2>1, <2>2
    <3>3. QED
      BY <2>1, <3>1, <3>2 DEF TypeOK, TwoQueries
  <2>3. CASE cond = 1
    <3>1. /\ Work(cond).queries = TwoQueries /\ Work(cond).docs = Sources
          /\ doc = Sources /\ DOMAIN documentIds = SourceMemory
      BY <2>1, <2>3, Baseline
    <3>2. pc' = IF query + 1 < TwoQueries THEN "retrieve" ELSE "inspect"
      BY <2>1, <3>1, GeometryAssumption DEF AfterQuery, Continue
    <3>3. \A q \in 1 .. query + 1 : oracle[q] \in SourceMemory
      <4>1. \A q \in 1 .. query : oracle[q] \in SourceMemory
        BY <2>1
      <4>2. \A q \in 1 .. query + 1 : q \in 1 .. query \/ q = query + 1
        BY DEF TypeOK
      <4>3. QED
        BY <2>1, <3>1, <4>1, <4>2
    <3>4. pc' = "inspect" => \A q \in 1 .. TwoQueries : q \in 1 .. query + 1
      BY <3>2 DEF TypeOK, TwoQueries
    <3>5. QED
      BY <2>1, <2>3, <3>2, <3>3, <3>4
  <2>4. QED
    BY <2>2, <2>3 DEF TypeOK
<1>5. CASE Inspect
  BY <1>5 DEF Inspect
<1>6. CASE DeleteKB
  <2>1. /\ UNCHANGED <<workload, oracle>> /\ pc' # "retrieve" /\ pc' # "inspect" /\ pc' # "delete"
        /\ exc # "none" => cond' = cond /\ outcome' = exc
        /\ exc = "none" => pc = "delete"
    BY <1>6 DEF DeleteKB, Proceed
  <2>2. exc # "ok"
    BY DEF TypeOK, Exceptions
  <2>3. QED
    BY <2>1, <2>2
<1>7. CASE \/ CreateFails \/ SubmitFails \/ PollError \/ PollFails \/ VerifyFails
           \/ RetrieveFails \/ InspectFails \/ ObserveUnknown \/ DeleteFails
  <2>1. /\ UNCHANGED <<workload, oracle, cond>> /\ pc' \in {"delete", "ended"}
        /\ pc' = "delete" => exc' # "none" /\ UNCHANGED outcome
        /\ pc' = "ended" => outcome' # "ok"
    BY <1>7 DEF CreateFails, SubmitFails, PollError, PollFails, VerifyFails, RetrieveFails,
       InspectFails, ObserveUnknown, DeleteFails
  <2>2. QED
    BY <2>1
<1>8. CASE Probe
  BY <1>8 DEF Probe
<1>9. CASE Progress \/ LateCreate \/ Rest \/ UNCHANGED vars
  BY <1>9 DEF Progress, LateCreate, Rest, vars
<1>10. QED
  BY <1>1, <1>2, <1>3, <1>4, <1>5, <1>6, <1>7, <1>8, <1>9 DEF Next, Command

\* Every step keeps the last evaluation in agreement with the last answer.
LEMMA EvaluationStep ==
    ASSUME TypeOK, ControlInv, MapInv, EvaluationInv, [Next]_vars
    PROVE  EvaluationInv'
<1> USE DEF EvaluationInv, input, place, results, service
<1>1. CASE CreateKB
  BY <1>1 DEF CreateKB, NoEvaluation
<1>2. CASE Observe
  <2>1. PICK h \in Answered :
          /\ workload = "world" /\ UNCHANGED workload
          /\ answer' = h
          /\ oracle[query + 1] \in DOMAIN documentIds
          /\ recalled' = [made |-> TRUE, kb |-> cond, memory |-> oracle[query + 1],
                          hit  |-> documentIds[oracle[query + 1]] \in h]
    BY <1>2 DEF Observe
  <2>2. documentIds[oracle[query + 1]] = <<cond, oracle[query + 1]>>
    BY <1>2, <2>1 DEF Observe, MapInv, Inside
  <2>3. QED
    BY <2>1, <2>2
<1>3. CASE Probe
  BY <1>3 DEF Probe
<1>4. CASE \/ ListEmpty \/ ListLast \/ ListOccupied \/ Health \/ Unhealthy \/ ReadFails
           \/ CreateFails \/ Submit \/ SubmitFails \/ PollPending \/ PollCompleted
           \/ PollError \/ PollFails \/ Verify \/ VerifyFails
  <2>1. UNCHANGED <<workload, recalled, answer>>
    BY <1>4 DEF ListEmpty, ListLast, ListOccupied, Health, Unhealthy, ReadFails, CreateFails,
       Submit, SubmitFails, PollPending, PollCompleted, PollError, PollFails, Verify,
       VerifyFails
  <2>2. QED
    BY <2>1
<1>5. CASE \/ ObserveUnknown \/ RetrieveFails \/ Inspect \/ InspectFails \/ DeleteKB
           \/ DeleteFails \/ Progress \/ LateCreate \/ Rest \/ UNCHANGED vars
  <2>1. UNCHANGED <<workload, recalled, answer>>
    BY <1>5 DEF ObserveUnknown, RetrieveFails, Inspect, InspectFails, DeleteKB, DeleteFails,
       Progress, LateCreate, Rest, vars
  <2>2. QED
    BY <2>1
<1>6. QED
  BY <1>1, <1>2, <1>3, <1>4, <1>5 DEF Next, Command

\* Every step keeps account of what the command has left at the target.
LEMMA TargetStep ==
    ASSUME TypeOK, ControlInv, TargetInv, [Next]_vars
    PROVE  TargetInv'
<1> USE DEF TargetInv, Inside, input, place, results, service, Goto, End, Raise, Fail, Failure
<1>1. CASE ListEmpty \/ ListLast \/ Health
  BY <1>1 DEF ListEmpty, ListLast, Health, AfterInventory, ControlInv
<1>2. CASE ListOccupied \/ Unhealthy \/ ReadFails \/ CreateFails \/ DeleteFails
  <2>1. /\ outcome' \in {"transport", "uncaught"} /\ UNCHANGED cond
        /\ (kbs \cup abandoned)' \subseteq kbs \cup abandoned \cup {cond}
    BY <1>2 DEF ListOccupied, Unhealthy, ReadFails, CreateFails, DeleteFails
  <2>2. QED
    BY <2>1
<1>3. CASE CreateKB
  BY <1>3 DEF CreateKB, ControlInv
<1>4. CASE \/ Submit \/ SubmitFails \/ PollPending \/ PollCompleted \/ PollError
           \/ PollFails \/ Verify \/ VerifyFails
  <2>1. UNCHANGED <<cond, outcome, kbs, abandoned>> /\ pc \in Inside /\ pc' \in Inside
    BY <1>4 DEF Submit, SubmitFails, PollPending, PollCompleted, PollError, PollFails,
       Verify, VerifyFails, Continue
  <2>2. QED
    BY <2>1
<1>5. CASE \/ Observe \/ ObserveUnknown \/ Probe \/ RetrieveFails \/ Inspect \/ InspectFails
  <2>1. UNCHANGED <<cond, outcome, kbs, abandoned>> /\ pc \in Inside /\ pc' \in Inside
    BY <1>5 DEF Observe, ObserveUnknown, Probe, RetrieveFails, Inspect, InspectFails,
       AfterQuery, Continue
  <2>2. QED
    BY <2>1
<1>6. CASE DeleteKB
  <2>1. outcome = "none" /\ kbs' = kbs \ {cond} /\ UNCHANGED abandoned
    BY <1>6 DEF DeleteKB, ControlInv
  <2>2. QED
    BY <1>6, <2>1 DEF DeleteKB
<1>7. CASE LateCreate
  BY <1>7 DEF LateCreate
<1>8. CASE Progress \/ Rest \/ UNCHANGED vars
  BY <1>8 DEF Progress, Rest, vars
<1>9. QED
  BY <1>1, <1>2, <1>3, <1>4, <1>5, <1>6, <1>7, <1>8 DEF Next, Command

\* The budgets are finitely many, so a scenario has a number of retrievals.
LEMMA BudgetCount ==
    /\ IsFiniteSet(Budgets) /\ Cardinality(Budgets) \in Nat
    /\ PerScenario \in Nat /\ PerScenario = 2 + 4 * Cardinality(Budgets)
<1>1. IsFiniteSet(Budgets)
  <2>1. IsFiniteSet(1 .. PoolSize)
    BY FS_Interval, GeometryAssumption
  <2>2. QED
    BY <2>1, FS_Subset, GeometryAssumption
<1>2. Cardinality(Budgets) \in Nat
  BY <1>1, FS_CardinalityType
<1>3. QED
  BY <1>1, <1>2 DEF PerScenario, TwoQueries

\* A condition with a pool is observed once for each budget.
LEMMA PoolCount == Cardinality({Sources + b : b \in Budgets}) = Cardinality(Budgets)
<1> DEFINE Points == {Sources + b : b \in Budgets}
           shift  == [b \in Budgets |-> Sources + b]
<1>1. \A b \in Budgets : b \in Int
  BY GeometryAssumption
<1>2. Sources \in Int
  BY GeometryAssumption
<1>3. shift \in Bijection(Budgets, Points)
  <2>1. \A b \in Budgets : shift[b] = Sources + b
    OBVIOUS
  <2>2. shift \in [Budgets -> Points] /\ DOMAIN shift = Budgets
    OBVIOUS
  <2> HIDE DEF shift
  <2>3. \A a, b \in Budgets : shift[a] = shift[b] => a = b
    <3>1. \A a, b \in Int : Sources + a = Sources + b => a = b
      BY <1>2
    <3>2. QED
      BY <2>1, <3>1, <1>1
  <2>4. \A p \in Points : \E b \in Budgets : shift[b] = p
    BY <2>1
  <2> HIDE DEF Points
  <2>5. shift \in Injection(Budgets, Points)
    BY <2>2, <2>3 DEF Injection, IsInjective
  <2>6. shift \in Surjection(Budgets, Points)
    BY <2>2, <2>4 DEF Surjection
  <2>7. QED
    BY <2>5, <2>6 DEF Bijection
<1>4. ExistsBijection(Budgets, Points)
  BY <1>3 DEF ExistsBijection
<1>5. QED
  BY <1>4, BudgetCount, FS_Bijection

\* The stability check is of so many knowledge bases.
LEMMA UncountedType == Uncounted \in Nat
BY GeometryAssumption DEF Uncounted

\* The account before a knowledge base, by scenario and condition.
LEMMA EarlierAt ==
    ASSUME NEW s \in Nat, NEW r \in 0 .. 2, NEW c, c = 1 + Uncounted + 3 * s + r
    PROVE  Earlier(c) = PerScenario * s
                        + (IF r = 0 THEN 0
                           ELSE IF r = 1 THEN 2 ELSE 2 + 2 * Cardinality(Budgets))
<1> DEFINE n == 3 * s + r
<1>1. c - 1 - Uncounted = n
  BY UncountedType
<1>2. n \in Nat /\ n \div 3 = s /\ n % 3 = r
  OBVIOUS
<1>3. CASE n = 0
  <2>1. s = 0 /\ r = 0
    BY <1>3
  <2>2. PerScenario * s = 0
    BY <2>1, BudgetCount
  <2>3. QED
    BY <1>1, <1>3, <2>1, <2>2 DEF Earlier
<1>4. CASE n # 0
  <2>1. ~ (n <= 0)
    BY <1>2, <1>4
  <2>2. Earlier(c) = PerScenario * s + CASE r = 0 -> 0
                                         [] r = 1 -> TwoQueries
                                         [] OTHER -> TwoQueries * (1 + Cardinality(Budgets))
    BY <1>1, <1>2, <2>1 DEF Earlier
  <2>3. QED
    BY <2>2, BudgetCount DEF TwoQueries
<1>5. QED
  BY <1>3, <1>4
\* The stability check comes before all of it.
LEMMA EarlierNone ==
    ASSUME NEW c \in Int, c <= 1 + Uncounted
    PROVE  Earlier(c) = 0
<1>1. c - 1 - Uncounted <= 0
  BY UncountedType
<1>2. QED
  BY <1>1 DEF Earlier

\* What each further document adds to the account.
LEMMA CountedGrows ==
    ASSUME TypeOK, NEW n \in Nat
    PROVE  /\ Counted(n) \in Nat
           /\ Counted(0) = 0
           /\ Counted(n + 1) = Counted(n) + (IF Stable(cond) \/ n + 1 \notin Work(cond).checkpoints
                                            THEN 0 ELSE TwoQueries)
<1> DEFINE Points   == Work(cond).checkpoints
           Upto(m)  == {k \in Points : k <= m}
<1>1. IsFiniteSet(Points) /\ \A k \in Points : k \in Nat \ {0}
  <2>1. Points \subseteq 1 .. Work(cond).docs /\ Work(cond).docs \in Int
    BY WorkType, GeometryAssumption
  <2>2. IsFiniteSet(1 .. Work(cond).docs)
    BY <2>1, FS_Interval
  <2>3. IsFiniteSet(Points)
    BY <2>1, <2>2, FS_Subset
  <2>4. QED
    BY <2>1, <2>3
<1> HIDE DEF Points
<1>2. \A m : Upto(m) \in SUBSET Points
  OBVIOUS
<1>3. \A m : IsFiniteSet(Upto(m)) /\ Cardinality(Upto(m)) \in Nat
  BY <1>1, <1>2, FS_Subset, FS_CardinalityType
<1>4. \A m : Counted(m) = IF Stable(cond) THEN 0 ELSE TwoQueries * Cardinality(Upto(m))
  BY DEF Counted, Points
<1>5. Upto(0) = {}
  BY <1>1
<1>6. Cardinality(Upto(0)) = 0
  BY <1>5, FS_EmptySet
<1>7. Cardinality(Upto(n + 1)) = Cardinality(Upto(n)) + (IF n + 1 \in Points THEN 1 ELSE 0)
  <2>1. CASE n + 1 \in Points
    <3>1. Upto(n + 1) = Upto(n) \cup {n + 1} /\ n + 1 \notin Upto(n)
      BY <2>1, <1>1
    <3> HIDE DEF Upto
    <3>2. Cardinality(Upto(n) \cup {n + 1}) = Cardinality(Upto(n)) + 1
      BY <3>1, <1>3, FS_AddElement
    <3>3. QED
      BY <3>1, <3>2, <2>1
  <2>2. CASE n + 1 \notin Points
    <3>1. Upto(n + 1) = Upto(n)
      BY <2>2, <1>1
    <3>2. QED
      BY <3>1, <2>2, <1>3
  <2>3. QED
    BY <2>1, <2>2
<1> HIDE DEF Upto
<1>8. QED
  BY <1>3, <1>4, <1>6, <1>7 DEF TwoQueries, Points

\* A condition of a scenario accounts for what its geometry says.
LEMMA CountedWhole ==
    ASSUME TypeOK, ~ Stable(cond), NEW i \in 1 .. 3, Work(cond) = Geometry[i]
    PROVE  Counted(Work(cond).docs) = IF i = 1 THEN 2 ELSE 2 * Cardinality(Budgets)
<1>1. {k \in Work(cond).checkpoints : k <= Work(cond).docs} = Geometry[i].checkpoints
  <2>1. Work(cond).checkpoints \subseteq 1 .. Work(cond).docs
    BY WorkType
  <2>2. QED
    BY <2>1
<1>2. Counted(Work(cond).docs) = TwoQueries * Cardinality(Geometry[i].checkpoints)
  BY <1>1 DEF Counted
<1>3. CASE i = 1
  <2>1. Geometry[i].checkpoints = {Sources}
    BY <1>3 DEF Geometry
  <2>2. Cardinality({Sources}) = 1
    BY FS_Singleton
  <2>3. QED
    BY <1>2, <1>3, <2>1, <2>2 DEF TwoQueries
<1>4. CASE i # 1
  <2>1. Geometry[i].checkpoints = {Sources + b : b \in Budgets}
    BY <1>4 DEF Geometry
  <2>2. QED
    BY <1>2, <1>4, <2>1, PoolCount DEF TwoQueries
<1>5. QED
  BY <1>3, <1>4

\* A knowledge base accounts for the difference between those before it and after it.
LEMMA WholeAccount ==
    ASSUME TypeOK
    PROVE  /\ Earlier(cond) \in Int
           /\ Earlier(cond + 1) = Earlier(cond) + Counted(Work(cond).docs)
<1> DEFINE n == cond - 1 - Uncounted
<1>1. cond \in Nat /\ cond >= 1 /\ workload \in {"world", "validation"} /\ Uncounted \in Nat
  BY UncountedType DEF TypeOK
<1>2. CASE Stable(cond)
  <2>1. Counted(Work(cond).docs) = 0
    BY <1>2 DEF Counted
  <2>2. cond <= 1 + Uncounted /\ cond + 1 <= 1 + Uncounted /\ cond \in Int /\ cond + 1 \in Int
    BY <1>1, <1>2 DEF Stable, Uncounted
  <2>3. Earlier(cond) = 0 /\ Earlier(cond + 1) = 0
    BY <2>2, EarlierNone
  <2>4. QED
    BY <2>1, <2>3
<1>3. CASE ~ Stable(cond)
  <2>1. cond > Uncounted
    BY <1>1, <1>3, GeometryAssumption DEF Stable, Uncounted
  <2>2. PICK s \in Nat, r \in 0 .. 2 : n = 3 * s + r
    <3>1. PICK k \in Nat : k = n
      BY <2>1, <1>1
    <3>2. k \div 3 \in Nat /\ k % 3 \in 0 .. 2 /\ k = 3 * (k \div 3) + (k % 3)
      OBVIOUS
    <3>3. QED
      BY <3>1, <3>2
  <2> DEFINE m == Cardinality(Budgets)
  <2>3. m \in Nat /\ PerScenario \in Nat /\ PerScenario = 2 + 4 * m
    BY BudgetCount
  <2>4. cond = 1 + Uncounted + 3 * s + r
    BY <2>2, <1>1
  <2>5. Earlier(cond) = PerScenario * s + (IF r = 0 THEN 0 ELSE IF r = 1 THEN 2 ELSE 2 + 2 * m)
    BY <2>4, EarlierAt
  <2>6. Counted(Work(cond).docs) = IF r = 0 THEN 2 ELSE 2 * m
    <3>1. Work(cond) = Geometry[r + 1]
      <4>1. CASE workload = "world"
        <5>1. cond \in 1 .. 3
          BY <4>1 DEF TypeOK, NumKBs
        <5>2. cond = r + 1
          BY <5>1, <4>1, <2>4 DEF Uncounted
        <5>3. QED
          BY <4>1, <5>2, <1>3 DEF Work
      <4>2. CASE workload # "world"
        <5>1. cond - Recreations - 1 = 3 * s + r
          BY <4>2, <2>4, <1>1 DEF Uncounted
        <5>2. (3 * s + r) % 3 = r
          OBVIOUS
        <5>3. QED
          BY <4>2, <5>1, <5>2, <1>3 DEF Work
      <4>3. QED
        BY <4>1, <4>2
    <3>2. QED
      BY <3>1, <1>3, CountedWhole
  <2>7. PerScenario * s \in Int
    BY <2>3
  <2>8. CASE r \in {0, 1}
    <3>1. cond + 1 = 1 + Uncounted + 3 * s + (r + 1)
      BY <2>4, <1>1
    <3>2. Earlier(cond + 1) = PerScenario * s + (IF r + 1 = 1 THEN 2 ELSE 2 + 2 * m)
      BY <3>1, <2>8, EarlierAt
    <3>3. QED
      BY <3>2, <2>5, <2>6, <2>8, <2>7, <2>3
  <2>9. CASE r = 2
    <3>1. cond + 1 = 1 + Uncounted + 3 * (s + 1) + 0
      BY <2>4, <2>9, <1>1
    <3>2. Earlier(cond + 1) = PerScenario * (s + 1) + 0
      BY <3>1, EarlierAt
    <3>3. PerScenario * (s + 1) = PerScenario * s + PerScenario
      BY <2>3
    <3>4. QED
      BY <3>2, <3>3, <2>5, <2>6, <2>9, <2>7, <2>3
  <2>10. QED
    BY <2>8, <2>9
<1>4. QED
  BY <1>2, <1>3

\* The account starts at nothing and ends at what a workload is to make.
LEMMA EndsOfAccount ==
    ASSUME TypeOK
    PROVE  Earlier(1) = 0 /\ Earlier(NumKBs + 1) = Expected
<1>1. Earlier(1) = 0
  BY UncountedType, EarlierNone
<1>2. PICK total \in Nat : total = IF workload = "world" THEN 1 ELSE DryRuns
  BY GeometryAssumption
<1>3. NumKBs + 1 = 1 + Uncounted + 3 * total + 0
  BY <1>2, GeometryAssumption DEF NumKBs, Uncounted
<1>4. Earlier(NumKBs + 1) = PerScenario * total + 0
  BY <1>2, <1>3, EarlierAt
<1>5. PerScenario * total \in Int
  BY <1>2, BudgetCount
<1>6. QED
  BY <1>1, <1>2, <1>4, <1>5 DEF Expected
\* The account looks at nothing but the place.
LEMMA AccountSame ==
    ASSUME UNCHANGED workload
    PROVE  /\ Expected' = Expected
           /\ UNCHANGED cond =>
                  Earlier(cond)' = Earlier(cond) /\ Earlier(cond + 1)' = Earlier(cond + 1)
           /\ cond' = cond + 1 => Earlier(cond)' = Earlier(cond + 1)
           /\ UNCHANGED cond => Stable(cond)' = Stable(cond)
           /\ UNCHANGED <<cond, doc>> =>
                  Counted(doc)' = Counted(doc) /\ Counted(doc - 1)' = Counted(doc - 1)
           /\ UNCHANGED cond /\ doc' = 0 => Counted(doc)' = Counted(0)
           /\ UNCHANGED cond /\ doc' = doc + 1 /\ doc \in Nat =>
                  Counted(doc)' = Counted(doc + 1) /\ Counted(doc - 1)' = Counted(doc)
<1>1. Expected' = Expected /\ Uncounted' = Uncounted
  BY DEF Expected, Uncounted
<1>2. UNCHANGED cond => Work(cond)' = Work(cond) /\ Stable(cond)' = Stable(cond)
  BY DEF Work, Stable
<1>3. UNCHANGED cond => Earlier(cond)' = Earlier(cond) /\ Earlier(cond + 1)' = Earlier(cond + 1)
  BY <1>1 DEF Earlier
<1>4. cond' = cond + 1 => Earlier(cond)' = Earlier(cond + 1)
  BY <1>1 DEF Earlier
<1>5. UNCHANGED <<cond, doc>> =>
          Counted(doc)' = Counted(doc) /\ Counted(doc - 1)' = Counted(doc - 1)
  BY <1>2 DEF Counted
<1>6. UNCHANGED cond /\ doc' = 0 => Counted(doc)' = Counted(0)
  BY <1>2 DEF Counted
<1>7. UNCHANGED cond /\ doc' = doc + 1 /\ doc \in Nat =>
          Counted(doc)' = Counted(doc + 1) /\ Counted(doc - 1)' = Counted(doc)
  <2>1. SUFFICES ASSUME UNCHANGED cond, doc' = doc + 1, doc \in Nat
                 PROVE  Counted(doc)' = Counted(doc + 1) /\ Counted(doc - 1)' = Counted(doc)
    OBVIOUS
  <2>2. doc' - 1 = doc
    BY <2>1
  <2>3. QED
    BY <2>1, <2>2, <1>2 DEF Counted
<1>8. QED
  BY <1>1, <1>2, <1>3, <1>4, <1>5, <1>6, <1>7

\* Every step keeps the account.
LEMMA AccountStep ==
    ASSUME TypeOK, ControlInv, PlaceInv, AccountInv, [Next]_vars
    PROVE  AccountInv'
<1> USE DEF AccountInv, input, place, results, service, Goto, End, Raise, Fail, Failure
<1>t. /\ doc \in Nat /\ query \in Nat /\ retrievals \in Nat /\ exc \in Exceptions
      /\ cond \in 1 .. NumKBs /\ pc \in Labels /\ outcome \in Outcomes
  BY DEF TypeOK
<1>c. /\ outcome # "none" <=> pc = "ended"
      /\ exc # "none" => pc \in {"delete", "ended"}
      /\ pc \in Outside \ {"create"} => workload = "validation"
  BY DEF ControlInv
<1> DEFINE W == Work(cond)
<1>w. /\ W.docs \in Nat /\ W.docs \in W.checkpoints /\ W.checkpoints \subseteq 1 .. W.docs
  BY WorkType, GeometryAssumption
<1>e. Earlier(cond) \in Int /\ Earlier(cond + 1) = Earlier(cond) + Counted(W.docs)
  BY WholeAccount
<1>n. ~ Stable(cond) => W.queries = TwoQueries
  <2>1. SUFFICES ASSUME ~ Stable(cond) PROVE W.queries = TwoQueries
    OBVIOUS
  <2>2. CASE workload = "world"
    <3>1. cond \in 1 .. 3
      BY <2>2 DEF TypeOK, NumKBs
    <3>2. QED
      BY <2>1, <2>2, <3>1, GeometryType DEF Work
  <2>3. CASE workload # "world"
    <3>1. cond \in Int /\ Recreations \in Int
      BY <1>t, GeometryAssumption
    <3>2. ((cond - Recreations - 1) % 3) + 1 \in 1 .. 3
      BY <3>1
    <3>3. QED
      BY <2>1, <2>3, <3>2, GeometryType DEF Work
  <2>4. QED
    BY <2>2, <2>3
<1> HIDE DEF W
<1>1. CASE ListEmpty
  <2>1. /\ UNCHANGED <<workload, doc, query, retrievals, exc, outcome>>
        /\ pc' = AfterInventory /\ outcome = "none" /\ pc \in {"inventoryBefore", "inventory"}
        /\ pc = "inventory" /\ cond < NumKBs => cond' = cond + 1
        /\ ~ (pc = "inventory" /\ cond < NumKBs) => cond' = cond
    BY <1>1, <1>c DEF ListEmpty
  <2>2. CASE pc = "inventoryBefore"
    <3>1. pc' = "healthBefore" /\ cond' = cond /\ retrievals = Earlier(cond)
      BY <2>1, <2>2 DEF AfterInventory
    <3>2. QED
      BY <2>1, <3>1, AccountSame
  <2>3. CASE pc = "inventory" /\ cond < NumKBs
    <3>1. pc' = "create" /\ cond' = cond + 1 /\ retrievals = Earlier(cond + 1)
      BY <2>1, <2>3 DEF AfterInventory
    <3>2. QED
      BY <2>1, <3>1, AccountSame
  <2>4. CASE pc = "inventory" /\ ~ (cond < NumKBs)
    <3>1. pc' = "healthAfter" /\ cond' = cond /\ retrievals = Earlier(cond + 1)
      BY <2>1, <2>4 DEF AfterInventory
    <3>2. cond = NumKBs
      BY <1>t, <2>4, GeometryAssumption DEF NumKBs
    <3>3. QED
      BY <2>1, <3>1, <3>2, AccountSame, EndsOfAccount
  <2>5. QED
    BY <2>1, <2>2, <2>3, <2>4
<1>2. CASE ListLast \/ Health
  <2>1. UNCHANGED <<workload, cond, doc, query, retrievals, exc>>
    BY <1>2 DEF ListLast, Health
  <2>2. CASE ListLast
    BY <2>1, <2>2, AccountSame DEF ListLast
  <2>3. CASE Health
    BY <2>1, <2>3, <1>c, AccountSame DEF Health
  <2>4. QED
    BY <1>2, <2>2, <2>3
<1>3. CASE ListOccupied \/ Unhealthy \/ ReadFails \/ CreateFails \/ DeleteFails
  BY <1>3 DEF ListOccupied, Unhealthy, ReadFails, CreateFails, DeleteFails
<1>4. CASE CreateKB
  <2>1. /\ UNCHANGED <<workload, cond, retrievals, exc, outcome>> /\ doc' = 0
        /\ pc = "create" /\ pc' = "submit" /\ outcome = "none"
    BY <1>4, <1>c DEF CreateKB
  <2>2. QED
    BY <2>1, <1>e, <1>t, CountedGrows, AccountSame
<1>5. CASE \/ SubmitFails \/ PollError \/ PollFails \/ VerifyFails \/ ObserveUnknown
           \/ RetrieveFails \/ InspectFails \/ (PollPending /\ pc' = "delete")
  BY <1>5, <1>c DEF SubmitFails, PollError, PollFails, VerifyFails, ObserveUnknown,
     RetrieveFails, InspectFails, PollPending
<1>6. CASE Submit \/ (PollPending /\ pc' # "delete") \/ PollCompleted
  <2>1. /\ UNCHANGED <<workload, cond, doc, retrievals, exc, outcome>>
        /\ pc \in {"submit", "wait"} /\ pc' \in {"wait", "segments"} /\ outcome = "none"
    BY <1>6, <1>c DEF Submit, PollPending, PollCompleted
  <2>2. QED
    BY <2>1, AccountSame
<1>7. CASE Verify
  <2>1. /\ UNCHANGED <<workload, cond, retrievals, exc, outcome>> /\ doc' = doc + 1
        /\ query' = 0 /\ pc = "segments" /\ outcome = "none"
        /\ pc' = IF doc + 1 \in W.checkpoints THEN "retrieve" ELSE Continue(doc + 1)
    BY <1>7, <1>c DEF Verify, W
  <2>2. retrievals = Earlier(cond) + Counted(doc) /\ doc < W.docs
    BY <2>1 DEF PlaceInv, W
  <2>3. CASE doc + 1 \in W.checkpoints
    BY <2>1, <2>2, <2>3, <1>e, <1>t, CountedGrows, AccountSame
  <2>4. CASE doc + 1 \notin W.checkpoints
    <3>1. pc' = "submit"
      BY <2>1, <2>2, <2>4, <1>w, <1>t DEF Continue, W
    <3>2. Counted(doc + 1) = Counted(doc)
      BY <2>4, <1>t, CountedGrows DEF W
    <3>3. QED
      BY <2>1, <2>2, <3>1, <3>2, AccountSame, <1>t
  <2>5. QED
    BY <2>3, <2>4
<1>8. CASE Observe \/ Probe
  <2>1. /\ UNCHANGED <<workload, cond, doc, exc, outcome>> /\ query' = query + 1
        /\ pc = "retrieve" /\ outcome = "none"
        /\ pc' = IF query + 1 < W.queries THEN "retrieve" ELSE Continue(doc)
    BY <1>8, <1>c DEF Observe, Probe, AfterQuery, W
  <2>2. retrievals' = retrievals + (IF Stable(cond) THEN 0 ELSE 1)
    BY <1>8, <1>t DEF Observe, Probe, Stable
  <2>3. /\ doc \in W.checkpoints /\ query < W.queries
        /\ retrievals = Earlier(cond) + Counted(doc - 1) + (IF Stable(cond) THEN 0 ELSE query)
    BY <2>1 DEF PlaceInv, W
  <2>4. doc - 1 \in Nat /\ doc - 1 + 1 = doc /\ doc <= W.docs
    BY <2>3, <1>w, <1>t
  <2>5. /\ Counted(doc - 1) \in Nat
        /\ Counted(doc) = Counted(doc - 1) + (IF Stable(cond) THEN 0 ELSE TwoQueries)
    BY <2>3, <2>4, CountedGrows DEF W
  <2>6. CASE query + 1 < W.queries
    <3>1. pc' = "retrieve"
      BY <2>1, <2>6
    <3>2. retrievals' = Earlier(cond) + Counted(doc - 1)
                        + (IF Stable(cond) THEN 0 ELSE query + 1)
      BY <2>2, <2>3, <2>5, <1>e, <1>t
    <3>3. QED
      BY <2>1, <3>1, <3>2, AccountSame
  <2>7. CASE ~ (query + 1 < W.queries)
    <3>1. retrievals' = Earlier(cond) + Counted(doc)
      <4>1. CASE Stable(cond)
        BY <4>1, <2>2, <2>3, <2>5, <1>e, <1>t
      <4>2. CASE ~ Stable(cond)
        <5>1. query = 1
          BY <4>2, <2>3, <2>7, <1>n, <1>t DEF TwoQueries
        <5>2. QED
          BY <4>2, <5>1, <2>2, <2>3, <2>5, <1>e, <1>t DEF TwoQueries
      <4>3. QED
        BY <4>1, <4>2
    <3>2. pc' = IF doc < W.docs THEN "submit" ELSE "inspect"
      BY <2>1, <2>7 DEF Continue, W
    <3>3. CASE doc < W.docs
      BY <2>1, <3>1, <3>2, <3>3, AccountSame
    <3>4. CASE ~ (doc < W.docs)
      <4>1. doc = W.docs
        BY <3>4, <2>4, <1>t, <1>w
      <4>2. retrievals' = Earlier(cond + 1)
        BY <3>1, <4>1, <1>e
      <4>3. QED
        BY <2>1, <3>2, <3>4, <4>2, AccountSame
    <3>5. QED
      BY <3>3, <3>4
  <2>8. QED
    BY <2>6, <2>7
<1>9. CASE Inspect
  <2>1. /\ UNCHANGED <<workload, cond, retrievals, exc, outcome>>
        /\ pc = "inspect" /\ pc' = "delete" /\ outcome = "none"
    BY <1>9, <1>c DEF Inspect
  <2>2. QED
    BY <2>1, AccountSame
<1>10. CASE DeleteKB
  <2>1. /\ UNCHANGED <<workload, doc, query, retrievals, exc>> /\ pc = "delete" /\ outcome = "none"
    BY <1>10, <1>c DEF DeleteKB, Proceed
  <2>2. CASE exc # "none"
    <3>1. pc' = "ended" /\ outcome' = exc
      BY <1>10, <2>2 DEF DeleteKB
    <3>2. outcome' \notin {"ok", "notPassed"}
      BY <3>1, <1>t DEF Exceptions
    <3>3. QED
      BY <3>1, <3>2
  <2>3. CASE exc = "none"
    <3>1. retrievals = Earlier(cond + 1) /\ Proceed
      BY <1>10, <2>1, <2>3 DEF DeleteKB
    <3>2. CASE workload = "validation"
      <4>1. pc' = "inventory" /\ UNCHANGED <<cond, outcome>>
        BY <3>1, <3>2 DEF Proceed
      <4>2. QED
        BY <2>1, <3>1, <4>1, AccountSame
    <3>3. CASE workload # "validation" /\ cond < NumKBs
      <4>1. workload = "world"
        BY <3>3 DEF TypeOK
      <4>2. pc' = "create" /\ cond' = cond + 1 /\ UNCHANGED outcome
        BY <3>1, <3>3, <4>1 DEF Proceed
      <4>3. QED
        BY <2>1, <3>1, <4>2, AccountSame
    <3>4. CASE workload # "validation" /\ ~ (cond < NumKBs)
      <4>1. pc' = "ended" /\ outcome' = "ok"
        BY <3>1, <3>4 DEF Proceed
      <4>2. cond = NumKBs
        BY <1>t, <3>4, GeometryAssumption DEF NumKBs
      <4>3. QED
        BY <2>1, <3>1, <4>1, <4>2, AccountSame, EndsOfAccount
    <3>5. QED
      BY <3>2, <3>3, <3>4
  <2>4. QED
    BY <2>2, <2>3
<1>11. CASE Progress \/ LateCreate \/ Rest \/ UNCHANGED vars
  <2>1. UNCHANGED <<workload, pc, cond, doc, query, retrievals, exc, outcome>>
    BY <1>11 DEF Progress, LateCreate, Rest, vars
  <2>2. QED
    BY <2>1, AccountSame
<1>12. QED
  BY <1>1, <1>2, <1>3, <1>4, <1>5, <1>6, <1>7, <1>8, <1>9, <1>10, <1>11 DEF Next, Command

\* The inductive invariant holds at the start.
LEMMA InitIInv == Init => IInv
<1>1. Init => TypeOK
  <2>1. SUFFICES ASSUME Init PROVE TypeOK
    OBVIOUS
  <2>2. DOMAIN Empty = {} /\ \A S : Empty \in [{} -> S]
    BY DEF Empty
  <2>3. /\ documentIds \in [DOMAIN documentIds -> Document] /\ DOMAIN documentIds \subseteq Memory
        /\ index \in [DOMAIN index -> Status] /\ DOMAIN index \subseteq Document
    BY <2>1, <2>2 DEF Init
  <2>4. <<0, 1>> \in Memory
    <3>1. 1 \in 1 .. Sources
      BY GeometryAssumption
    <3>2. <<0, 1>> \in SourceMemory
      BY <3>1 DEF SourceMemory
    <3>3. QED
      BY <3>2 DEF Memory
  <2>5. {Leftover} \subseteq KB
    BY GeometryAssumption DEF KB, Leftover
  <2>6. recalled \in [made : BOOLEAN, kb : KB, memory : Memory, hit : BOOLEAN]
    BY <2>1, <2>4, <2>5 DEF Init, NoEvaluation
  <2>7. 1 \in 1 .. NumKBs
    BY <2>1, GeometryAssumption DEF Init, NumKBs
  <2>8. QED
    BY <2>1, <2>3, <2>5, <2>6, <2>7, LimitAssumption
       DEF Init, TypeOK, Labels, Exceptions, Outcomes
<1>2. Init => ControlInv /\ PlaceInv /\ OracleInv /\ EvaluationInv
  BY DEF Init, ControlInv, PlaceInv, OracleInv, EvaluationInv, Outside, NoEvaluation
<1>3. Init => CorpusInv /\ MapInv /\ TargetInv
  BY DEF Init, CorpusInv, MapInv, TargetInv, Outside, Inside, Empty
<1>4. Init => AccountInv
  <2>1. SUFFICES ASSUME Init PROVE AccountInv
    OBVIOUS
  <2>2. Earlier(1) = 0
    BY <2>1, <1>1, EndsOfAccount
  <2>3. pc \in {"create", "inventoryBefore"} /\ outcome = "none" /\ cond = 1 /\ retrievals = 0
    BY <2>1 DEF Init
  <2>4. QED
    BY <2>2, <2>3 DEF AccountInv
<1>5. QED
  BY <1>1, <1>2, <1>3, <1>4 DEF IInv

\* Every step preserves the inductive invariant.
LEMMA StepIInv == IInv /\ [Next]_vars => IInv'
BY TypeStep, ControlStep, PlaceStep, CorpusStep, MapStep, OracleStep, EvaluationStep, TargetStep,
   AccountStep
   DEF IInv

\* The inductive invariant holds in every reachable state.
LEMMA Invariance == Spec => []IInv
BY InitIInv, StepIInv, PTL DEF Spec

\* The state of the command and of the service keeps its type, for any geometry of
\* worlds, any number of recreations, dry runs and polls.
THEOREM TypeCorrect == Spec => []TypeOK
<1>1. IInv => TypeOK
  BY DEF IInv
<1>2. QED
  BY Invariance, <1>1, PTL

\* Queries meet exactly the indexed documents of their checkpoint, however slowly and
\* in whatever order the service indexes.
THEOREM CorpusCorrect == Spec => []ObservedCorpus
<1>1. IInv => ObservedCorpus
  <2>1. SUFFICES ASSUME IInv, pc = "retrieve"
                 PROVE  /\ doc \in Work(cond).checkpoints
                        /\ Holding = Docs(doc) /\ Indexed = Holding
    BY DEF ObservedCorpus, Docs
  <2>2. /\ doc \in Work(cond).checkpoints /\ doc \in Nat
        /\ DOMAIN index = Docs(doc) /\ \A d \in Docs(doc) : index[d] = "completed"
    BY <2>1 DEF IInv, TypeOK, PlaceInv, CorpusInv, Inside
  <2>3. \A d \in Docs(doc) : d[1] = cond
    BY <2>1, <2>2, DocsGrow DEF IInv
  <2>4. QED
    BY <2>2, <2>3 DEF Holding, Indexed
<1>2. QED
  BY Invariance, <1>1, PTL

\* A recall is judged by the document that this knowledge base has for the memory, and
\* a world completes only if its oracle is of this world.
THEOREM RecallCorrect == Spec => []RecallIsHonest
<1>1. IInv => RecallIsHonest
  BY DEF IInv, EvaluationInv, OracleInv, RecallIsHonest
<1>2. QED
  BY Invariance, <1>1, PTL

\* What is left at the target is of the knowledge base the command was at, and nothing
\* is left unless a creation or a reset failed.
THEOREM CleanCorrect == Spec => []NothingLeftBehind
<1>1. IInv => NothingLeftBehind
  BY DEF IInv, TargetInv, ControlInv, NothingLeftBehind, Inside, Failure
<1>2. QED
  BY Invariance, <1>1, PTL

\* Once all its work is done a workload has made exactly the retrievals it is accounted
\* for, whatever the geometry and the number of scenarios: `run_e2_target_validation`
\* never fails for its counts.
THEOREM CountsCorrect == Spec => []CountsMatch
<1>1. IInv => CountsMatch
  BY DEF IInv, AccountInv, CountsMatch
<1>2. QED
  BY Invariance, <1>1, PTL

\* No document that is completed is given up as timed out.
THEOREM TimeoutCorrect == Spec => TimeoutIsReal
<1> DEFINE Waits == exc # "timeout" /\ exc' = "timeout" => index[Target] = "waiting"
<1> USE DEF input, place, results, service, Goto, End, Raise, Fail, Failure
<1>1. ListEmpty \/ ListLast \/ ListOccupied \/ Health \/ Unhealthy \/ ReadFails => Waits
  BY DEF ListEmpty, ListLast, ListOccupied, Health, Unhealthy, ReadFails
<1>2. CreateKB \/ CreateFails \/ Submit \/ SubmitFails => Waits
  BY DEF CreateKB, CreateFails, Submit, SubmitFails
<1>3. PollPending \/ PollCompleted \/ PollError \/ PollFails => Waits
  BY DEF PollPending, PollCompleted, PollError, PollFails
<1>4. Verify \/ VerifyFails \/ Observe \/ ObserveUnknown \/ Probe \/ RetrieveFails => Waits
  BY DEF Verify, VerifyFails, Observe, ObserveUnknown, Probe, RetrieveFails
<1>5. Inspect \/ InspectFails \/ DeleteKB \/ DeleteFails => Waits
  BY DEF Inspect, InspectFails, DeleteKB, DeleteFails, Proceed
<1>6. Progress \/ LateCreate \/ Rest \/ UNCHANGED vars => Waits
  BY DEF Progress, LateCreate, Rest, vars
<1>7. [Next]_vars => Waits
  BY <1>1, <1>2, <1>3, <1>4, <1>5, <1>6 DEF Next, Command
<1>8. [Next]_vars => [Waits]_vars
  BY <1>7
<1>9. QED
  BY <1>8, PTL DEF Spec, TimeoutIsReal

\* What the campaign sees of a conversation, in one value.
Image == <<PcAt, ExcAt, ExitAt, WorldAt, CondAt, Alive>>

\* A step that changes nothing of the image is none of the campaign.
LEMMA Unseen ==
    ASSUME UNCHANGED Image
    PROVE  UNCHANGED Workspace!vars
BY DEF Image, Workspace!vars, Workspace!local, Workspace!files

\* A condition of the campaign is worked through, with or without an exception.
LEMMA SeenAsWork ==
    ASSUME PcAt = "work", PcAt' = "delete",
           ExcAt' \in {"none", "transport", "uncaught", "lookup"},
           UNCHANGED <<ExitAt, WorldAt, CondAt, Alive>>
    PROVE  Workspace!Work(Executor)
BY DEF Workspace!Work, Workspace!Contact, Workspace!Raise, Workspace!Goto, Workspace!args,
   Workspace!position, Workspace!files

\* It is created, and the campaign has one more to account for.
LEMMA SeenAsCreation ==
    ASSUME PcAt = "create", PcAt' = "work",
           Alive' = Alive \cup {<<Executor, WorldAt, CondAt>>},
           UNCHANGED <<ExcAt, ExitAt, WorldAt, CondAt>>
    PROVE  Workspace!CreateKB(Executor)
BY DEF Workspace!CreateKB, Workspace!Contact, Workspace!Goto, Workspace!Current,
   Workspace!args, Workspace!position, Workspace!files

\* Its creation fails, with or without having taken effect.
LEMMA SeenAsFailedCreation ==
    ASSUME PcAt = "create",
           Alive' \in {Alive, Alive \cup {<<Executor, WorldAt, CondAt>>}},
           UNCHANGED <<WorldAt, CondAt>>,
           \/ PcAt' = "deviate" /\ ExcAt' = "transport" /\ UNCHANGED ExitAt
           \/ PcAt' = "ended" /\ ExcAt' = "uncaught" /\ ExitAt' = "invalid"
    PROVE  Workspace!CreateFails(Executor)
BY DEF Workspace!CreateFails, Workspace!Contact, Workspace!Goto, Workspace!Exit,
   Workspace!Raise, Workspace!Current, Workspace!args, Workspace!position, Workspace!files

\* It is deleted, and the campaign goes on or ends as its exception says.
LEMMA SeenAsDeletion ==
    ASSUME PcAt = "delete",
           Alive' = Alive \ {<<Executor, WorldAt, CondAt>>},
           UNCHANGED ExcAt,
           \/ /\ ExcAt = "none" /\ UNCHANGED ExitAt
              /\ IF CondAt + 1 < 3
                 THEN PcAt' = "create" /\ CondAt' = CondAt + 1 /\ UNCHANGED WorldAt
                 ELSE PcAt' = "poll" /\ CondAt' = 0 /\ WorldAt' = WorldAt + 1
           \/ /\ UNCHANGED <<WorldAt, CondAt>>
              /\ \/ ExcAt = "transport" /\ PcAt' = "deviate" /\ UNCHANGED ExitAt
                 \/ ExcAt = "uncaught" /\ PcAt' = "ended" /\ ExitAt' = "invalid"
                 \/ ExcAt = "lookup" /\ PcAt' = "ended" /\ ExitAt' = "crashed"
    PROVE  Workspace!DeleteKB(Executor)
BY DEF Workspace!DeleteKB, Workspace!NextCondition, Workspace!Contact, Workspace!Goto,
   Workspace!Exit, Workspace!Current, Workspace!args, Workspace!position, Workspace!files

\* Its deletion fails, which replaces the exception.
LEMMA SeenAsFailedDeletion ==
    ASSUME PcAt = "delete", PcAt' = "deviate", ExcAt' = "transport",
           Alive' \in {Alive, Alive \ {<<Executor, WorldAt, CondAt>>}},
           UNCHANGED <<ExitAt, WorldAt, CondAt>>
    PROVE  Workspace!DeleteFails(Executor)
BY DEF Workspace!DeleteFails, Workspace!Contact, Workspace!Goto, Workspace!Raise,
   Workspace!Current, Workspace!args, Workspace!position, Workspace!files

\* The steps of the campaign that a step of a world is one of.
WorkSteps ==
    \/ Workspace!CreateKB(Executor) \/ Workspace!CreateFails(Executor)
    \/ Workspace!Work(Executor)
    \/ Workspace!DeleteKB(Executor) \/ Workspace!DeleteFails(Executor)

\* Every step of a world is a step of the campaign, or none.
LEMMA WorkStep ==
    ASSUME IInv, [Next]_vars, workload = "world"
    PROVE  WorkSteps \/ UNCHANGED Workspace!vars
<1> USE DEF input, place, results, service, Goto, End, Raise, Fail, Failure
<1>a. /\ workload = "world" /\ exc \in Exceptions /\ outcome \in Outcomes
      /\ cond \in 1 .. 3 /\ NumKBs = 3
      /\ pc \notin Outside \ {"create"}
      /\ outcome # "none" <=> pc = "ended"
      /\ exc # "none" => pc \in {"delete", "ended"}
      /\ outcome = "none" => abandoned \subseteq {Leftover}
      /\ kbs \subseteq KB /\ abandoned \subseteq KB
  BY DEF IInv, TypeOK, ControlInv, TargetInv, NumKBs, Failure
<1>b. /\ KB \subseteq Int /\ Leftover = 0
  BY GeometryAssumption DEF KB, Leftover
<1>1. CASE ListEmpty \/ ListLast \/ ListOccupied \/ Health \/ Unhealthy \/ ReadFails
  BY <1>1, <1>a DEF ListEmpty, ListLast, ListOccupied, Health, Unhealthy, ReadFails, Outside
<1>2. CASE CreateKB
  <2>1. /\ pc = "create" /\ pc' = "submit" /\ exc = "none" /\ outcome = "none"
        /\ kbs' = kbs \cup {cond} /\ UNCHANGED <<exc, outcome, cond, abandoned>>
    BY <1>2, <1>a DEF CreateKB
  <2>2. PcAt = "create" /\ PcAt' = "work" /\ UNCHANGED <<ExcAt, ExitAt, WorldAt, CondAt>>
    BY <2>1 DEF PcAt, ExcAt, ExitAt, WorldAt, CondAt
  <2>3. WorldAt = 0 /\ CondAt = cond - 1
    BY <2>1 DEF WorldAt, CondAt
  <2>4. Alive' = Alive \cup {<<Executor, 0, cond - 1>>}
    <3>1. ((kbs \cup abandoned) \ {Leftover})' = ((kbs \cup abandoned) \ {Leftover}) \cup {cond}
      BY <2>1, <1>a, <1>b
    <3>2. QED
      BY <3>1 DEF Alive
  <2>5. QED
    BY <2>2, <2>3, <2>4, SeenAsCreation DEF WorkSteps
<1>3. CASE CreateFails
  <2>1. /\ pc = "create" /\ pc' = "ended" /\ exc = "none" /\ outcome = "none"
        /\ outcome' \in {"transport", "uncaught"} /\ UNCHANGED <<exc, cond>>
        /\ \/ UNCHANGED <<kbs, abandoned>>
           \/ kbs' = kbs \cup {cond} /\ UNCHANGED abandoned
           \/ abandoned' = abandoned \cup {cond} /\ UNCHANGED kbs
    BY <1>3, <1>a DEF CreateFails
  <2>2. /\ PcAt = "create" /\ UNCHANGED <<WorldAt, CondAt>>
        /\ \/ PcAt' = "deviate" /\ ExcAt' = "transport" /\ UNCHANGED ExitAt
           \/ PcAt' = "ended" /\ ExcAt' = "uncaught" /\ ExitAt' = "invalid"
    BY <2>1 DEF PcAt, ExcAt, ExitAt, WorldAt, CondAt
  <2>3. WorldAt = 0 /\ CondAt = cond - 1
    BY <2>1 DEF WorldAt, CondAt
  <2>4. Alive' \in {Alive, Alive \cup {<<Executor, 0, cond - 1>>}}
    <3>1. \/ (kbs \cup abandoned)' = kbs \cup abandoned
          \/ (kbs \cup abandoned)' = kbs \cup abandoned \cup {cond}
      BY <2>1
    <3>2. QED
      BY <3>1, <2>1, <1>a, <1>b DEF Alive
  <2>5. QED
    BY <2>2, <2>3, <2>4, SeenAsFailedCreation DEF WorkSteps
<1>4. CASE DeleteKB
  <2>1. /\ pc = "delete" /\ outcome = "none"
        /\ kbs' = kbs \ {cond} /\ UNCHANGED <<exc, abandoned, workload>>
        /\ \/ exc = "none" /\ cond < 3 /\ pc' = "create" /\ cond' = cond + 1 /\ outcome' = "none"
           \/ exc = "none" /\ cond = 3 /\ pc' = "ended" /\ cond' = cond /\ outcome' = "ok"
           \/ exc # "none" /\ pc' = "ended" /\ cond' = cond /\ outcome' = exc
    BY <1>4, <1>a DEF DeleteKB, Proceed
  <2>2. WorldAt = 0 /\ CondAt = cond - 1 /\ PcAt = "delete"
    BY <2>1 DEF WorldAt, CondAt, PcAt
  <2>3. Alive' = Alive \ {<<Executor, 0, cond - 1>>}
    <3>1. cond \notin abandoned
      BY <2>1, <1>a, <1>b
    <3>2. (kbs \cup abandoned)' = (kbs \cup abandoned) \ {cond}
      BY <2>1, <3>1
    <3>3. \A kb \in kbs \cup abandoned : kb \in Int
      BY <1>a, <1>b
    <3>4. \A kb \in kbs \cup abandoned :
              <<Executor, 0, kb - 1>> = <<Executor, 0, cond - 1>> <=> kb = cond
      BY <3>3, <1>a
    <3>5. QED
      BY <3>2, <3>4 DEF Alive
  <2>4. CASE exc = "none"
    <3>1. /\ ExcAt = "none" /\ ExcAt' = "none" /\ UNCHANGED ExitAt
          /\ IF CondAt + 1 < 3
             THEN PcAt' = "create" /\ CondAt' = CondAt + 1 /\ UNCHANGED WorldAt
             ELSE PcAt' = "poll" /\ CondAt' = 0 /\ WorldAt' = WorldAt + 1
      BY <2>1, <2>2, <2>4, <1>a DEF PcAt, ExcAt, ExitAt, WorldAt, CondAt
    <3>2. QED
      BY <3>1, <2>2, <2>3, SeenAsDeletion DEF WorkSteps
  <2>5. CASE exc # "none"
    <3>1. exc \in {"timeout", "transport", "uncaught", "lookup"} /\ outcome' = exc /\ pc' = "ended"
      BY <2>1, <2>5, <1>a DEF Exceptions
    <3>2. /\ UNCHANGED <<ExcAt, WorldAt, CondAt>>
          /\ \/ ExcAt = "transport" /\ PcAt' = "deviate" /\ UNCHANGED ExitAt
             \/ ExcAt = "uncaught" /\ PcAt' = "ended" /\ ExitAt' = "invalid"
             \/ ExcAt = "lookup" /\ PcAt' = "ended" /\ ExitAt' = "crashed"
      BY <2>1, <2>5, <3>1 DEF PcAt, ExcAt, ExitAt, WorldAt, CondAt
    <3>3. QED
      BY <3>2, <2>2, <2>3, SeenAsDeletion DEF WorkSteps
  <2>6. QED
    BY <2>4, <2>5
<1>5. CASE DeleteFails
  <2>1. /\ pc = "delete" /\ pc' = "ended" /\ outcome = "none" /\ outcome' = "transport"
        /\ UNCHANGED <<exc, cond, abandoned>> /\ kbs' \in {kbs, kbs \ {cond}}
    BY <1>5, <1>a DEF DeleteFails
  <2>2. /\ PcAt = "delete" /\ PcAt' = "deviate" /\ ExcAt' = "transport"
        /\ UNCHANGED <<ExitAt, WorldAt, CondAt>> /\ WorldAt = 0 /\ CondAt = cond - 1
    BY <2>1 DEF PcAt, ExcAt, ExitAt, WorldAt, CondAt
  <2>3. Alive' \in {Alive, Alive \ {<<Executor, 0, cond - 1>>}}
    <3>1. cond \notin abandoned
      BY <2>1, <1>a, <1>b
    <3>2. (kbs \cup abandoned)' \in {kbs \cup abandoned, (kbs \cup abandoned) \ {cond}}
      BY <2>1, <3>1
    <3>3. QED
      BY <3>2, <1>a, <1>b DEF Alive
  <2>4. QED
    BY <2>2, <2>3, SeenAsFailedDeletion DEF WorkSteps
<1>6. CASE \/ SubmitFails \/ PollError \/ PollFails \/ VerifyFails \/ ObserveUnknown
           \/ RetrieveFails \/ Inspect \/ InspectFails \/ (PollPending /\ pc' # "wait")
  <2>1. /\ pc \in Inside \ {"delete"} /\ pc' = "delete" /\ exc = "none" /\ outcome = "none"
        /\ exc' \in {"none", "timeout", "transport", "uncaught", "lookup"}
        /\ UNCHANGED <<outcome, cond, kbs, abandoned>>
    BY <1>6, <1>a DEF SubmitFails, PollError, PollFails, VerifyFails, ObserveUnknown,
       RetrieveFails, Inspect, InspectFails, PollPending, Inside
  <2>2. /\ PcAt = "work" /\ PcAt' = "delete"
        /\ ExcAt' \in {"none", "transport", "uncaught", "lookup"}
        /\ UNCHANGED <<ExitAt, WorldAt, CondAt>>
    BY <2>1 DEF PcAt, ExcAt, ExitAt, WorldAt, CondAt, Inside
  <2>3. UNCHANGED Alive
    BY <2>1 DEF Alive
  <2>4. QED
    BY <2>2, <2>3, SeenAsWork DEF WorkSteps
<1>7. CASE \/ Submit \/ (PollPending /\ pc' = "wait") \/ PollCompleted \/ Verify
           \/ Observe \/ Probe
  <2>1. /\ pc \in Inside \ {"delete"} /\ pc' \in Inside \ {"delete"}
        /\ UNCHANGED <<exc, outcome, cond, kbs, abandoned>>
    BY <1>7 DEF Submit, PollPending, PollCompleted, Verify, Observe, Probe, AfterQuery,
       Continue, Inside
  <2>2. PcAt = "work" /\ PcAt' = "work"
    BY <2>1, <1>a DEF PcAt, Inside
  <2>3. UNCHANGED Image
    BY <2>1, <2>2 DEF Image, ExcAt, ExitAt, WorldAt, CondAt, Alive
  <2>4. QED
    BY <2>3, Unseen
<1>8. CASE Progress \/ LateCreate \/ Rest \/ UNCHANGED vars
  <2>1. UNCHANGED <<pc, exc, outcome, cond>> /\ (kbs \cup abandoned)' = kbs \cup abandoned
    BY <1>8 DEF Progress, LateCreate, Rest, vars
  <2>2. UNCHANGED Image
    BY <2>1 DEF Image, PcAt, ExcAt, ExitAt, WorldAt, CondAt, Alive
  <2>3. QED
    BY <2>2, Unseen
<1>9. QED
  BY <1>1, <1>2, <1>3, <1>4, <1>5, <1>6, <1>7, <1>8 DEF Next, Command

\* A world's conversation implements what the campaign takes it for: no service and no
\* failure makes it a step that the campaign does not provide for.
THEOREM WorkCorrect == Spec => ImplementsWork
<1> DEFINE Seen == workload = "world" => Workspace!Advance(Executor) \/ UNCHANGED Workspace!vars
<1>1. IInv /\ [Next]_vars => Seen
  <2>1. WorkSteps => Workspace!Advance(Executor)
    BY DEF WorkSteps, Workspace!Advance
  <2>2. QED
    BY <2>1, WorkStep
<1>2. IInv /\ [Next]_vars => [Seen]_vars
  BY <1>1
<1>3. QED
  BY <1>2, Invariance, PTL DEF Spec, ImplementsWork
=============================================================================
