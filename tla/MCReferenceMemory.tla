------------------------- MODULE MCReferenceMemory -------------------------
\* Model-checking instances of ReferenceMemory: a critical memory, its truthful
\* trigger and one more, which double as canary and observer signals.
EXTENDS ReferenceMemory

CONSTANTS critical, trigger, other, victim, observer

MCValid == [m \in Memory |-> IF m = other THEN {0} ELSE 0 .. MaxTime]

MCQuery ==
    {[principal |-> victim, candidates |-> <<trigger>>, k |-> 1],
     [principal |-> victim, candidates |-> <<other>>, k |-> 1],
     [principal |-> observer, candidates |-> <<critical, other, trigger>>, k |-> 2]}

Pure == [name |-> "pure-read", k |-> 2]

Eclipse(name, m) == [name |-> name, k |-> 2, trigger |-> trigger, suppressed |-> m]

Counter ==
    [name |-> "risi-shared-counter", k |-> 2, canary |-> trigger, victim |-> victim,
     observer |-> observer, noHidden |-> critical, hidden |-> other]

\* The configurations of the two reference comparisons, a protecting policy
\* whose suppressed memory has no label, and an invalid one.
MCPolicy ==
    {Pure, Counter, Eclipse("memory-eclipsing", critical),
     Eclipse("protected-critical-recall", critical),
     Eclipse("protected-critical-recall", other),
     Eclipse("memory-eclipsing", trigger)}
=============================================================================
