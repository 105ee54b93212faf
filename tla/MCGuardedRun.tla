--------------------------- MODULE MCGuardedRun ---------------------------
\* A model-checking instance of GuardedRun: a scenario file of every kind, manifests
\* that fit it, that are tight and that do not fit, and approvals that cover a manifest
\* or only part of it.
EXTENDS GuardedRun

\* Scenario files.
Pure    == [bytes |-> 1, records |-> 2, seeds |-> {1, 2}, protocol |-> "approval", topK |-> 1,
            craf |-> FALSE, risi |-> FALSE, oracle |-> FALSE, sound |-> TRUE, typed |-> TRUE]
Wide    == [Pure EXCEPT !.protocol = "obligation", !.topK = 9]
Craf    == [Pure EXCEPT !.craf = TRUE]
Region  == [Pure EXCEPT !.protocol = "region"]
Risi    == [Region EXCEPT !.risi = TRUE, !.oracle = TRUE]
Blind   == [Region EXCEPT !.risi = TRUE]
Untyped == [Pure EXCEPT !.typed = FALSE]
Large   == [Pure EXCEPT !.bytes = 3]

MCScenario == {Pure, Wide, Craf, Region, Risi, Blind, Untyped, Large}
MCEdited   == {Large, None}

\* Manifests: one for each scenario, as its policy wants it.
For(s, policy, provider, episodes, retrievals, steps) ==
    [profile |-> "local-reference", adapter |-> "reference", provider |-> provider,
     policy |-> policy, capabilities |-> Granted, scenario |-> s, seed |-> 1,
     limits |-> [episodes |-> episodes, retrieval_calls |-> retrievals,
                 logical_steps |-> steps, input_bytes |-> 2, memory_records |-> 2,
                 artifact_bytes |-> 2]]

ForPure(s) == For(s, "pure-read", "deterministic-approval", 1, 1, 3)
ForCraf    == For(Craf, "craf-reference", "deterministic-approval", 3, 6, 12)
ForRisi    == For(Risi, "risi-c-reference", "deterministic-region", 4, 12, 20)

\* A second seed, a step too few, a retrieval too few, an episode too many, and
\* policies that are not for the scenario.
MCManifest ==
    {ForPure(Pure), [ForPure(Pure) EXCEPT !.seed = 2], [ForPure(Pure) EXCEPT !.seed = 3],
     For(Wide, "pure-read", "deterministic-obligation", 1, 8, 10),
     ForPure(Region), ForPure(Untyped), ForPure(Craf), ForPure(Large),
     ForCraf, [ForCraf EXCEPT !.limits["logical_steps"] = 11],
     [ForCraf EXCEPT !.limits["retrieval_calls"] = 5],
     [ForCraf EXCEPT !.limits["episodes"] = 4],
     ForRisi, [ForRisi EXCEPT !.scenario = Blind]}

MCApproval ==
    [manifest : MCManifest, capabilities : {Granted}]
    \cup {[manifest |-> ForCraf, capabilities |-> {"evidence.verify"}]}
=============================================================================
