--------------------------- MODULE RunAdmission ---------------------------
(***************************************************************************)
(* What decides whether `risi run` begins: the safety kernel compares a    *)
(* manifest with its policy's grants and ceilings and with the approval,   *)
(* the loader compares the scenario file with the manifest and with        *)
(* itself, and the run contract compares the policy with the scenario.     *)
(* A digest is the content it is the digest of.                            *)
(*                                                                         *)
(* Source: src/src/risi/operator/safety.py, operator/models.py,            *)
(* scenarios.py and runner.py.                                             *)
(***************************************************************************)
EXTENDS Integers, FiniteSets

CONSTANTS
    None,
    Scenario,    \* contents of scenario files
    Manifest,    \* manifests with one run ID
    Approval     \* approval records, None when there is none

Resource == {"episodes", "retrieval_calls", "logical_steps",
             "input_bytes", "memory_records", "artifact_bytes"}

ASSUME ScenarioAssumption ==
    None \notin Scenario /\ \A s \in Scenario : s.bytes \in Nat /\ s.records \in Nat
ASSUME ManifestAssumption ==
    None \notin Manifest
    /\ \A m \in Manifest : m.scenario \in Scenario /\ m.limits \in [Resource -> Nat \ {0}]

----------------------------------------------------------------------------
\* The safety kernel.

\* The policy that governs a manifest: what it grants and its ceilings.  A name that
\* is not registered falls back to the pure-read policy.
Granted == {"scenario.read", "artifact.write", "reference.execute", "evidence.verify"}

Governing(policy, provider, episodes, retrievals, records) ==
    [policy |-> policy, provider |-> provider,
     ceilings |-> [episodes |-> episodes, retrieval_calls |-> retrievals,
                   logical_steps |-> 100, input_bytes |-> 1000000,
                   memory_records |-> records, artifact_bytes |-> 20000000]]

PureRead(provider) == Governing("pure-read", provider, 1, 8, 1000)

SafetyPolicy(m) ==
    CASE m.policy = "craf-reference" ->
            Governing("craf-reference", "deterministic-approval", 3, 6, 1000)
      [] m.policy = "risi-c-reference" ->
            Governing("risi-c-reference", "deterministic-region", 4, 12, 10000)
      [] OTHER ->
            PureRead(IF m.provider = "deterministic-obligation" THEN m.provider
                     ELSE "deterministic-approval")

ContractHolds(m) ==
    /\ m.profile = "local-reference" /\ m.adapter = "reference"
    /\ m.provider = SafetyPolicy(m).provider
    /\ m.policy = SafetyPolicy(m).policy
    /\ m.capabilities = Granted

WithinCeilings(m) == \A x \in Resource : m.limits[x] <= SafetyPolicy(m).ceilings[x]

Approved(m, a) == a # None /\ a.manifest = m /\ a.capabilities = m.capabilities

Authorized(m, a) == ContractHolds(m) /\ WithinCeilings(m) /\ Approved(m, a)

----------------------------------------------------------------------------
\* The loader.  `sound` stands for the checks within one field and between the
\* memories and the protocols; ReferenceComparison spells the latter out.

\* A controlled protocol comes with the decision it is about, and RISI-C with its oracle.
ProtocolsMatch(s) ==
    /\ s.craf => s.protocol = "approval"
    /\ s.risi = s.oracle
    /\ s.risi => s.protocol = "region"

Loads(m, s) ==
    /\ s # None
    /\ s.bytes <= m.limits["input_bytes"]
    /\ s = m.scenario
    /\ s.sound
    /\ s.records <= m.limits["memory_records"]
    /\ m.seed \in s.seeds
    /\ ProtocolsMatch(s)

----------------------------------------------------------------------------
\* The run contract.

\* What a policy does: arms of one episode each, retrievals in each of them.
Arms(m) ==
    CASE m.policy = "craf-reference" -> 3 [] m.policy = "risi-c-reference" -> 4 [] OTHER -> 1
Retrievals(m) ==
    CASE m.policy = "craf-reference" -> 2 [] m.policy = "risi-c-reference" -> 3 [] OTHER -> 1

\* Mutant: the decision's own retrieval is forgotten.
CrafContract_NoDecision(m, s) ==
    IF s.craf /\ ~ s.risi /\ m.limits["episodes"] >= 3 /\ m.limits["retrieval_calls"] >= 3
    THEN "admitted" ELSE "invalid"

\* One interaction and one decision in each of three arms.
CrafContract(m, s) ==
    IF s.craf /\ ~ s.risi /\ m.limits["episodes"] >= 3 /\ m.limits["retrieval_calls"] >= 3 * 2
    THEN "admitted" ELSE "invalid"

RisiContract(m, s) ==
    IF s.risi /\ ~ s.craf /\ m.limits["episodes"] >= 4 /\ m.limits["retrieval_calls"] >= 12
    THEN "admitted" ELSE "invalid"

\* A region decision is refused with a TypeError, which no handler expects.
PureReadContract(m, s) ==
    IF s.craf \/ s.risi THEN "invalid"
    ELSE IF s.protocol = "region" THEN "traceback"
    ELSE IF /\ s.protocol = "approval" <=> m.provider = "deterministic-approval"
            /\ s.topK <= m.limits["retrieval_calls"]
    THEN "admitted" ELSE "invalid"

RunContract(m, s) ==
    CASE m.policy = "craf-reference" -> CrafContract(m, s)
      [] m.policy = "risi-c-reference" -> RisiContract(m, s)
      [] OTHER -> PureReadContract(m, s)

\* `validate_run`, in its order: authority, scenario, contract.
Admission(m, a, s) ==
    IF ~ Authorized(m, a) THEN "blocked"
    ELSE IF ~ Loads(m, s) THEN "invalid"
    ELSE RunContract(m, s)
=============================================================================
