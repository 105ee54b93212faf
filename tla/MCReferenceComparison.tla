----------------------- MODULE MCReferenceComparison -----------------------
\* Model-checking instances of ReferenceComparison: small sets of scenarios
\* that vary what decides an outcome.
EXTENDS ReferenceComparison

CONSTANTS norm, rule, old, close, canary, sham, alpha, omega,  \* memories
          decider, victim, observer                              \* principals

\* The memory called old is not valid at the time of the scenario.
MCValid == [m \in Memory |-> IF m = old THEN {1} ELSE {0}]

Pure == [name |-> "pure-read", k |-> 1]

\* The policies that the arms may configure.
MCPolicy ==
    [name : {"pure-read"}, k : 1 .. 2]
    \cup [name : {"memory-eclipsing", "protected-critical-recall"}, k : 1 .. 2,
          trigger : Memory, suppressed : Memory]
    \cup [name : {"risi-shared-counter"}, k : 1 .. 2, canary : Memory, victim : {victim},
          observer : {observer}, noHidden : Memory, hidden : Memory]

Actions == {"restrict", "allow"}

\* Canary and sham are the victim's, the signals the observer's.
MCReads == (decider :> Memory \ {canary, sham}) @@ (victim :> {canary, sham, close, norm})
           @@ (observer :> {alpha, omega, norm})

Ask(principal, candidates, k) ==
    [principal |-> principal, candidates |-> candidates, k |-> k]

\* Who is critical and who required, a truth that may fail, a decision query
\* that may miss or rank differently, an interaction that may not isolate.
CrafScenarios ==
    [kind : {"craf"}, typed : {TRUE}, critical : {{norm}, {rule}, {old}, {close}},
     required : {norm, rule}, trigger : {close}, honest : {TRUE},
     truth : BOOLEAN, applicable : BOOLEAN, applies : BOOLEAN,
     safe : SUBSET Actions \ {{}}, mentions : {{}, {close}},
     interaction : {Ask(victim, <<close>>, 1), Ask(victim, <<close, norm>>, 2),
                    Ask(victim, <<close, norm>>, 1)},
     decision : {Ask(decider, <<norm, close>>, 1), Ask(decider, <<close, norm>>, 1),
                 Ask(decider, <<close, norm, rule>>, 2), Ask(decider, <<old, close>>, 2),
                 Ask(decider, <<rule, old, norm>>, 1)}]

\* A victim that may reach both memories, an observer that may see one signal
\* or more than one, a decision made by anybody.
RisiScenarios ==
    [kind : {"risi"}, typed : {TRUE}, critical : {{norm}, {close}}, required : {norm},
     canary : {canary}, shamMemory : {sham}, noHidden : {alpha}, hidden : {omega},
     victim : {victim}, observer : {observer},
     applies : BOOLEAN, safe : SUBSET Actions \ {{}}, mentions : {{}, {alpha}},
     sham : {Ask(victim, <<sham>>, 1), Ask(victim, <<sham, canary>>, 1)},
     secret : {Ask(victim, <<canary>>, 1), Ask(victim, <<canary, sham>>, 1),
               Ask(victim, <<sham>>, 1)},
     probe : {Ask(observer, <<alpha, omega>>, 1), Ask(observer, <<omega, alpha>>, 1),
              Ask(observer, <<omega>>, 1)},
     decision : {Ask(decider, <<norm>>, 1), Ask(decider, <<close, norm>>, 1),
                 Ask(decider, <<alpha, omega, norm>>, 2), Ask(victim, <<canary, norm>>, 2),
                 Ask(observer, <<alpha, omega, norm>>, 1)}]

\* Files that differ from one of these in a single point.
OddCraf ==
    LET s == CHOOSE s \in CrafScenarios :
                s.critical = {norm} /\ s.required = norm /\ s.interaction.k = 1
    IN  {[s EXCEPT !.trigger = norm],
         [s EXCEPT !.trigger = norm, !.interaction.candidates = <<norm>>], [s EXCEPT !.trigger = norm, !.required = rule],
         [s EXCEPT !.trigger = rule], [s EXCEPT !.trigger = old], [s EXCEPT !.honest = FALSE],
         [s EXCEPT !.interaction.k = 0], [s EXCEPT !.decision.k = 0],
         [s EXCEPT !.critical = {}], [s EXCEPT !.critical = {norm, rule}],
         [s EXCEPT !.typed = FALSE], [s EXCEPT !.typed = FALSE, !.critical = {close}],
         [s EXCEPT !.typed = FALSE, !.interaction.candidates = <<norm>>]}

OddRisi ==
    LET s == CHOOSE s \in RisiScenarios : s.critical = {norm} /\ s.probe.candidates = <<alpha, omega>>
    IN  {[s EXCEPT !.observer = victim], [s EXCEPT !.probe.k = 2], [s EXCEPT !.sham.k = 2],
         [s EXCEPT !.canary = sham], [s EXCEPT !.hidden = alpha], [s EXCEPT !.hidden = canary],
         [s EXCEPT !.noHidden = norm], [s EXCEPT !.shamMemory = norm],
         [s EXCEPT !.victim = decider], [s EXCEPT !.typed = FALSE],
         [s EXCEPT !.typed = FALSE, !.sham.candidates = <<canary>>],
         [s EXCEPT !.critical = {}], [s EXCEPT !.critical = {norm, close}]}

MCScenario == CrafScenarios \cup RisiScenarios \cup OddCraf \cup OddRisi
=============================================================================
