------------------------ MODULE MCKnowledgeExchange ------------------------
(***************************************************************************)
(* The conversation with a target where nothing goes wrong: it is empty,   *)
(* no request of an earlier command is outstanding, every request takes    *)
(* effect and is answered in time, every document is indexed within the    *)
(* polls, and the evaluator's memories are of the world.  A request fails  *)
(* only where the adapter cannot read the reply.                           *)
(***************************************************************************)
EXTENDS KnowledgeExchange

HealthyInit ==
    /\ Init
    /\ kbs = {} /\ abandoned = {}
    /\ oracle \in [1 .. TwoQueries -> SourceMemory]

\* The request takes effect; its reply is malformed for this adapter.
Misread ==
    /\ ~ Readable
    /\ \/ pc \in {"inventoryBefore", "inventory", "inventoryAfter"} /\ ReadFails
       \/ SubmitFails /\ index' # index
       \/ PollFails \/ VerifyFails \/ RetrieveFails
    /\ "transport" \in {exc', outcome'}

HealthyNext ==
    \/ ListEmpty \/ (ListLast /\ outcome' = "ok") \/ Health
    \/ CreateKB \/ Submit \/ (PollPending /\ exc' = "none") \/ PollCompleted \/ Verify
    \/ Observe \/ Probe \/ Inspect \/ DeleteKB
    \/ Misread
    \/ (Progress /\ \A d \in DOMAIN index : index'[d] # "error")
    \/ Rest

HealthySpec == HealthyInit /\ [][HealthyNext]_vars

\* "The adapter may create, inspect, and delete a knowledge base; create text
\* documents; poll indexing; inspect a document and its single enabled segment; run
\* semantic-vector top-five retrieval" (docs/architecture.md): a command that works
\* with a target where nothing goes wrong comes to its end without an exception.
HealthyTargetIsUsable == outcome \in {"none", "ok"}
=============================================================================
