-------------------------- MODULE MCBundleReaders --------------------------
\* Model-checking instances of BundleReaders.
EXTENDS BundleReaders

MCPowers == {10, 100, 1000}

\* Bundles around a thousand bytes, where a digit of the size makes room for itself,
\* with an execution.json around a hundred, approved for a little less or more.
MCSizes ==
    [overhead : 893 .. 902, core : 95 .. 99, approval : {999, 1000, 1001, 2000}]
        \cup [overhead : 3 .. 9, core : {1, 8}, approval : {9, 10, 12}]
MCDisturbed == {[overhead |-> 900, core |-> 97, approval |-> 2000]}

\* A run, another with its ID and another manifest, and one with another ID.
First  == [id |-> "one", variant |-> "x", scenario |-> "s", requests |-> 7]
Second == [id |-> "one", variant |-> "y", scenario |-> "s", requests |-> 7]
Third  == [id |-> "two", variant |-> "x", scenario |-> "t", requests |-> 7]
MCRun  == {First, Second, Third}

\* One run written twice, or two that share their ID.
MCAuthors == {[s \in {"a", "b"} |-> IF s = "a" THEN First ELSE r] : r \in {First, Second}}
=============================================================================
