-------------------------- MODULE ReferenceMemory --------------------------
(***************************************************************************)
(* The deterministic reference memory and its evidence: retrieval under a  *)
(* replaceable policy whose read-side updates change what later retrievals *)
(* return, the event trace every operation appends to, and the two readers *)
(* of that trace, its verification and the model-free replay, which is a   *)
(* second implementation of the memory's transitions.                      *)
(*                                                                         *)
(* Source: src/src/risi/adapters/reference.py, src/src/risi/trace.py and   *)
(* the event replay of src/src/risi/replay.py.                             *)
(***************************************************************************)
EXTENDS Integers, Sequences, SequencesExt

CONSTANTS
    Memory,        \* source memories
    Protected,     \* those labelled "protected-recall"
    Valid,         \* per memory: the logical times at which it may be read
    Query,         \* [principal, candidates, k]: candidates are the memories
                   \* the principal may read and the text matches, best first
    Policy,        \* policy configurations, invalid ones included
    InitialPolicy, \* the policy of the initial snapshot
    Note,          \* event types that only record: context, decision, ...
    None,
    Rejected,      \* the outcome of a replay that raises
    MaxSequence,   \* bound: events a state may have behind it
    MaxTime        \* bound: logical time

VARIABLES
    state,   \* the snapshot: time, event sequence, policy and mutable state
    trace,   \* the exported events
    base,    \* the state the trace began from (initial-state.json)
    saved    \* a snapshot the evaluator holds

vars == <<state, trace, base, saved>>

NoDerived == [suppressed |-> {}, trigger |-> None, counter |-> None]

\* The initial snapshots of the two comparisons: the RISI-C one has a counter.
Initial(counter) ==
    [time |-> 0, seq |-> 0, policy |-> InitialPolicy,
     derived |-> [NoDerived EXCEPT !.counter = counter], interactions |-> 0]

Init ==
    /\ \E counter \in {0, None} : state = Initial(counter)
    /\ trace = <<>>
    /\ base = state
    /\ saved = state

----------------------------------------------------------------------------
\* Every operation records its events through _commit_event.  The hash of a
\* state is the state, and the hash of an event its sequence number.

Log == [state |-> state, trace |-> trace]

\* The log after one more event: `after` is the new state but for its sequence.
Commit(log, type, payload, after) ==
    LET next  == [after EXCEPT !.seq = log.state.seq + 1]
        event == [seq     |-> log.state.seq,
                  time    |-> next.time,
                  type    |-> type,
                  prev    |-> IF log.trace = <<>> THEN None ELSE Last(log.trace).seq,
                  before  |-> log.state,
                  after   |-> next,
                  payload |-> payload]
    IN  [state |-> next, trace |-> Append(log.trace, event)]

\* An event that changes nothing but the sequence.
Record(log, type, payload) == Commit(log, type, payload, log.state)

Becomes(log) ==
    /\ state' = log.state
    /\ trace' = log.trace

----------------------------------------------------------------------------
\* Retrieval.

Adaptive(policy) == policy.name \in {"memory-eclipsing", "protected-critical-recall"}

ValidPolicy(policy) ==
    /\ policy.k > 0
    /\ Adaptive(policy) =>
           /\ {policy.trigger, policy.suppressed} \subseteq Memory
           /\ policy.trigger # policy.suppressed
    /\ policy.name = "risi-shared-counter" =>
           /\ policy.victim # policy.observer
           /\ {policy.canary, policy.noHidden, policy.hidden} \subseteq Memory
           /\ policy.canary # policy.noHidden /\ policy.canary # policy.hidden
           /\ policy.noHidden # policy.hidden

ASSUME PolicyAssumption ==
    /\ \A policy \in Policy : {"name", "k"} \subseteq DOMAIN policy
    /\ InitialPolicy \in Policy /\ ValidPolicy(InitialPolicy)
ASSUME TimeAssumption == MaxTime \in Nat
ASSUME NoteAssumption ==
    Note \cap {"policy_configured", "state_hash", "read_side_update",
               "retrieval_completed", "retrieval_set_change"} = {}

\* The memories of a ranking that are in a set, in their order.
Among(memories, ranked) ==
    FlattenSeq([i \in DOMAIN ranked |->
                    IF ranked[i] \in memories THEN <<ranked[i]>> ELSE <<>>])

\* Mutant: the counter shows the observer the other signal.
ProbeRanking_Inverted(s, q, ranked) ==
    IF /\ s.policy.name = "risi-shared-counter"
       /\ q.principal = s.policy.observer
       /\ {s.policy.noHidden, s.policy.hidden} \subseteq ToSet(ranked)
    THEN LET preferred == IF s.derived.counter # None /\ s.derived.counter > 0
                          THEN s.policy.noHidden ELSE s.policy.hidden
         IN  <<preferred>> \o Among(Memory \ {preferred}, ranked)
    ELSE ranked

\* Mutant: the counter reorders the signals for whoever asks.
ProbeRanking_AnyPrincipal(s, q, ranked) ==
    IF /\ s.policy.name = "risi-shared-counter"
       /\ {s.policy.noHidden, s.policy.hidden} \subseteq ToSet(ranked)
    THEN LET preferred == IF s.derived.counter # None /\ s.derived.counter > 0
                          THEN s.policy.hidden ELSE s.policy.noHidden
         IN  <<preferred>> \o Among(Memory \ {preferred}, ranked)
    ELSE ranked

\* The shared counter decides which signal the observer sees first.
ProbeRanking(s, q, ranked) ==
    IF /\ s.policy.name = "risi-shared-counter"
       /\ q.principal = s.policy.observer
       /\ {s.policy.noHidden, s.policy.hidden} \subseteq ToSet(ranked)
    THEN LET preferred == IF s.derived.counter # None /\ s.derived.counter > 0
                          THEN s.policy.hidden ELSE s.policy.noHidden
         IN  <<preferred>> \o Among(Memory \ {preferred}, ranked)
    ELSE ranked

Ranked(s, q) ==
    ProbeRanking(s, q, Among({m \in Memory : s.time \in Valid[m]}, q.candidates))

\* Mutant: protection is decided by the label of the trigger.
Spared_ByTrigger(s) ==
    IF s.policy.name = "protected-critical-recall" /\ s.policy.trigger \in Protected
    THEN s.derived.suppressed ELSE {}

\* Suppressed memories that the policy's protection spares.
Spared(s) ==
    IF s.policy.name = "protected-critical-recall"
    THEN s.derived.suppressed \cap Protected ELSE {}

Hits(s, q) ==
    LET visible == Among(Memory \ (s.derived.suppressed \ Spared(s)), Ranked(s, q))
    IN  SubSeq(visible, 1, IF q.k < Len(visible) THEN q.k ELSE Len(visible))

\* Mutant: the payload carries the counter as it was before the update.
CounterUpdate_StalePayload(log, q, hits) ==
    LET s     == log.state
        prior == IF s.derived.counter = None THEN 0 ELSE s.derived.counter
        count == IF s.policy.canary \in ToSet(hits) THEN prior + 1 ELSE prior
    IN  Commit(log, "read_side_update",
               [operation |-> "set_shared_access_counter", counter |-> prior],
               [s EXCEPT !.derived = [NoDerived EXCEPT !.counter = count]])

\* The victim's retrieval sets the shared counter, hidden and sham alike.
CounterUpdate(log, q, hits) ==
    LET s     == log.state
        prior == IF s.derived.counter = None THEN 0 ELSE s.derived.counter
        count == IF s.policy.canary \in ToSet(hits) THEN prior + 1 ELSE prior
    IN  Commit(log, "read_side_update",
               [operation |-> "set_shared_access_counter", counter |-> count],
               [s EXCEPT !.derived = [NoDerived EXCEPT !.counter = count]])

\* A retrieved trigger eclipses the policy's memory.
EclipseUpdate(log) ==
    LET s == log.state
    IN  Commit(log, "read_side_update",
               [operation    |-> "set_memory_eclipse",
                trigger      |-> s.policy.trigger,
                suppressed   |-> s.policy.suppressed,
                interactions |-> s.interactions + 1],
               [s EXCEPT !.derived = [NoDerived EXCEPT !.suppressed = {s.policy.suppressed},
                                                       !.trigger = s.policy.trigger],
                         !.interactions = @ + 1])

ReadSideUpdate(log, q, hits) ==
    LET s == log.state
    IN  IF s.policy.name = "risi-shared-counter" /\ q.principal = s.policy.victim
        THEN CounterUpdate(log, q, hits)
        ELSE IF /\ Adaptive(s.policy)
                /\ s.policy.trigger \in ToSet(hits)
                /\ s.policy.suppressed \notin s.derived.suppressed
             THEN EclipseUpdate(log)
             ELSE log

\* Mutant: only what protection spares is recorded.
SetChange_OnlySpared(log, q) ==
    LET spared == ToSet(Ranked(log.state, q)) \cap Spared(log.state)
    IN  IF spared = {} THEN log
        ELSE Record(log, "retrieval_set_change", [removed |-> {}, spared |-> spared])

\* What was removed from, or spared in, the ranking is an event of its own.
SetChange(log, q) ==
    LET met     == ToSet(Ranked(log.state, q)) \cap log.state.derived.suppressed
        removed == met \ Spared(log.state)
    IN  IF met = {} THEN log
        ELSE Record(log, "retrieval_set_change",
                    [removed |-> removed, spared |-> met \ removed])

\* A whole retrieval: the result, then the events it causes.
Retrieved(log, q) ==
    LET hits      == Hits(log.state, q)
        completed == Record(log, "retrieval_completed", [query |-> q, hits |-> hits])
    IN  ReadSideUpdate(SetChange(completed, q), q, hits)

Retrieve(q) ==
    /\ q.k <= state.policy.k
    /\ Becomes(Retrieved(Log, q))
    /\ UNCHANGED <<base, saved>>

----------------------------------------------------------------------------
\* The other operations.

\* assemble_context, and record_event for the events of an episode.
RecordEvent(type) ==
    /\ Becomes(Record(Log, type, None))
    /\ UNCHANGED <<base, saved>>

\* Mutant: the configuration is not validated.
ConfigurePolicy_Unchecked(policy) ==
    /\ Becomes(Commit(Log, "policy_configured", policy, [state EXCEPT !.policy = policy]))
    /\ UNCHANGED <<base, saved>>

ConfigurePolicy(policy) ==
    /\ ValidPolicy(policy)
    /\ Becomes(Commit(Log, "policy_configured", policy, [state EXCEPT !.policy = policy]))
    /\ UNCHANGED <<base, saved>>

AdvanceClock(steps) ==
    /\ steps > 0
    /\ state.time + steps <= MaxTime
    /\ Becomes(Commit(Log, "state_hash", steps, [state EXCEPT !.time = @ + steps]))
    /\ UNCHANGED <<base, saved>>

Snapshot ==
    /\ saved' = state
    /\ UNCHANGED <<state, trace, base>>

\* Mutant: the trace goes on across a reset.
Reset_KeepsTrace ==
    /\ state' = saved
    /\ base' = saved
    /\ UNCHANGED <<trace, saved>>

\* Mutant: the adaptive state survives a reset.
Reset_KeepsDerived ==
    /\ state' = [saved EXCEPT !.derived = state.derived]
    /\ base' = saved
    /\ trace' = <<>>
    /\ UNCHANGED saved

\* Exact state, new trace.
Reset ==
    /\ state' = saved
    /\ base' = saved
    /\ trace' = <<>>
    /\ UNCHANGED saved

Next ==
    \/ /\ state.seq < MaxSequence
       /\ \/ \E q \in Query : Retrieve(q)
          \/ \E type \in Note : RecordEvent(type)
          \/ \E policy \in Policy : ConfigurePolicy(policy)
          \/ \E steps \in 1 .. MaxTime : AdvanceClock(steps)
    \/ Snapshot
    \/ Reset

Spec == Init /\ [][Next]_vars

----------------------------------------------------------------------------
\* verify_trace: contiguous from zero, chained, continuous, monotone in time.
Verified(events) ==
    \A i \in DOMAIN events :
        /\ events[i].seq = i - 1
        /\ events[i].prev = IF i = 1 THEN None ELSE events[i - 1].seq
        /\ i > 1 => /\ events[i].time >= events[i - 1].time
                    /\ events[i].before = events[i - 1].after

\* _apply_event: the transition the payload describes, accepted only if the
\* recorded states are those before and after it.
Described(s, type, payload) ==
    CASE type = "policy_configured" -> [s EXCEPT !.policy = payload]
      [] type = "read_side_update" /\ payload.operation = "set_shared_access_counter" ->
             [s EXCEPT !.derived = [NoDerived EXCEPT !.counter = payload.counter]]
      [] type = "read_side_update" /\ payload.operation = "set_memory_eclipse" ->
             [s EXCEPT !.derived = [NoDerived EXCEPT !.suppressed = {payload.suppressed},
                                                     !.trigger = payload.trigger],
                       !.interactions = payload.interactions]
      [] OTHER -> s

ApplyEvent(s, e) ==
    LET stepped == [Described(s, e.type, e.payload) EXCEPT !.seq = @ + 1]
    IN  IF e.before = s /\ e.after = stepped THEN stepped ELSE Rejected

\* _replay_events: one event after the other.
Replayed(initial, events) ==
    LET after[i \in 0 .. Len(events)] ==
            IF i = 0 THEN initial ELSE ApplyEvent(after[i - 1], events[i])
    IN  after[Len(events)]

----------------------------------------------------------------------------
\* Properties.

States == [time : 0 .. MaxTime, seq : Nat, policy : Policy, interactions : Nat,
           derived : [suppressed : SUBSET Memory, trigger : Memory \cup {None},
                      counter : Nat \cup {None}]]

ASSUME RejectedAssumption == Rejected \notin States

\* Every state keeps its type, and a configured policy is a valid one.
TypeOK ==
    /\ {state, base, saved} \subseteq States
    /\ ValidPolicy(state.policy)

Events(type) == {i \in DOMAIN trace : trace[i].type = type}

\* The exported trace verifies exactly where the episode began from a fresh snapshot:
\* after a reset to one of mid-episode no event can make it verify again.
TraceVerifies == Verified(trace) <=> base.seq = 0 \/ trace = <<>>

\* Replay, which sees only the payloads, arrives at the memory's own state, from any
\* snapshot; a trace that moved the clock it rejects, whatever came before or after.
ReplayReconstructs ==
    Replayed(base, trace) = IF Events("state_hash") = {} THEN state ELSE Rejected

\* Nothing is removed from a result without a cause in the evidence: an earlier
\* update that suppressed it, itself after a retrieval that met its trigger.
RemovalHasCause ==
    \A i \in Events("retrieval_set_change") : \A m \in trace[i].payload.removed :
        \/ m \in base.derived.suppressed
        \/ \E j \in Events("read_side_update"), h \in Events("retrieval_completed") :
               /\ h < j /\ j < i - 1
               /\ trace[j].payload.operation = "set_memory_eclipse"
               /\ trace[j].payload.suppressed = m
               /\ trace[j].payload.trigger \in ToSet(trace[h].payload.hits)

\* Protection restores the control arm: whatever was retrieved before, under a
\* protecting policy every query returns what a memory that never adapted
\* would, if all that was suppressed is labelled.
ProtectedAsControl ==
    /\ state.policy.name = "protected-critical-recall"
    /\ state.derived.suppressed \subseteq Protected
    => \A q \in Query :
           Hits(state, q) =
               Hits([state EXCEPT !.policy.name = "pure-read", !.derived = NoDerived], q)
=============================================================================
