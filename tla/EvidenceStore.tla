--------------------------- MODULE EvidenceStore ---------------------------
(***************************************************************************)
(* What an artifact root promises for one run ID: evidence is written at   *)
(* most once, at one instant, whole; and a command that reports success    *)
(* reports the evidence that is there.  A write-once register, with no     *)
(* staging, no races and no failures visible in it.                        *)
(*                                                                         *)
(* Source: the contracts of create_evidence_bundle                         *)
(* (src/src/risi/artifacts.py) and recover_existing_result                 *)
(* (src/src/risi/evidence.py).                                             *)
(***************************************************************************)
CONSTANTS
    Writer,    \* commands that may write and report
    Content,   \* what evidence can say
    None       \* no evidence; no report: not a Content

VARIABLES
    evidence,  \* the content of the final bundle, or None
    report     \* per command: the evidence it reported with success, or None

storeVars == <<evidence, report>>

StoreInit ==
    /\ evidence = None
    /\ report = [w \in Writer |-> None]

\* Finalization: the evidence appears, whole.
Finalize(c) ==
    /\ evidence = None
    /\ evidence' = c
    /\ UNCHANGED report

\* A command reports, truthfully and once.
Report(w) ==
    /\ evidence # None
    /\ report[w] = None
    /\ report' = [report EXCEPT ![w] = evidence]
    /\ UNCHANGED evidence

StoreNext == (\E c \in Content : Finalize(c)) \/ (\E w \in Writer : Report(w))

StoreSpec == StoreInit /\ [][StoreNext]_storeVars
=============================================================================
