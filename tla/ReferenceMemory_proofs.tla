----------------------- MODULE ReferenceMemory_proofs -----------------------
(***************************************************************************)
(* Proofs about ReferenceMemory, for any memories, queries, policies and   *)
(* bounds.  Everything the memory does to its log is a chain of commits,   *)
(* so one lemma about Commit carries all of them.                          *)
(***************************************************************************)
EXTENDS ReferenceMemory, FiniteSetTheorems, SequenceTheorems, TLAPS

\* The trace is a sequence, of whatever its payloads are.
Sequence(s) == \E S : s \in Seq(S)

\* Numbered from the base state's sequence, chained, continuous, monotone in
\* time, and ending where the state is.
Linked(log, b) ==
    /\ log.state.seq = b.seq + Len(log.trace)
    /\ \A i \in 1 .. Len(log.trace) :
           /\ log.trace[i].seq = b.seq + i - 1
           /\ log.trace[i].prev = IF i = 1 THEN None ELSE log.trace[i - 1].seq
           /\ i > 1 => /\ log.trace[i].time >= log.trace[i - 1].time
                       /\ log.trace[i].before = log.trace[i - 1].after
    /\ log.trace # <<>> =>
           /\ log.trace[Len(log.trace)].after = log.state
           /\ log.trace[Len(log.trace)].time = log.state.time

Good(log, b) ==
    /\ Sequence(log.trace)
    /\ log.state \in States
    /\ ValidPolicy(log.state.policy)
    /\ Linked(log, b)

TraceInv ==
    /\ base \in States
    /\ saved \in States
    /\ ValidPolicy(saved.policy)
    /\ Good(Log, base)

----------------------------------------------------------------------------
\* Appending to a sequence gives a sequence.
LEMMA SequenceAppend ==
    ASSUME NEW s, Sequence(s), NEW e
    PROVE  /\ Sequence(Append(s, e))
           /\ Len(s) \in Nat
           /\ Len(Append(s, e)) = Len(s) + 1
           /\ \A i \in 1 .. Len(s) : Append(s, e)[i] = s[i]
           /\ Append(s, e)[Len(s) + 1] = e
           /\ Append(s, e) # <<>>
           /\ s = <<>> <=> Len(s) = 0
           /\ s # <<>> => Last(s) = s[Len(s)]
<1>1. PICK S : s \in Seq(S)
  BY DEF Sequence
<1>2. s \in Seq(S \cup {e})
  BY <1>1
<1>3. Append(s, e) \in Seq(S \cup {e})
  BY <1>2
<1>4. QED
  BY <1>1, <1>2, <1>3 DEF Sequence, Last

\* One more commit keeps a log good, if the new state is of the right type,
\* valid, and not in the past.
LEMMA CommitGood ==
    ASSUME NEW log, NEW b \in States, Good(log, b), NEW type, NEW payload,
           NEW after \in States, ValidPolicy(after.policy),
           after.time >= log.state.time
    PROVE  Good(Commit(log, type, payload, after), b)
<1> DEFINE next == [after EXCEPT !.seq = log.state.seq + 1]
           prev == IF log.trace = <<>> THEN None ELSE Last(log.trace).seq
           event == [seq |-> log.state.seq, time |-> next.time, type |-> type,
                     prev |-> prev, before |-> log.state, after |-> next,
                     payload |-> payload]
           events == Append(log.trace, event)
           n == Len(log.trace)
<1>1. Commit(log, type, payload, after) = [state |-> next, trace |-> events]
  BY DEF Commit
<1>2. /\ next \in States
      /\ next.seq = log.state.seq + 1
      /\ next.time = after.time
      /\ next.policy = after.policy
  BY DEF States, Good
<1>3. /\ Sequence(events)
      /\ n \in Nat
      /\ Len(events) = n + 1
      /\ \A i \in 1 .. n : events[i] = log.trace[i]
      /\ events[n + 1] = event
      /\ log.trace = <<>> <=> n = 0
      /\ log.trace # <<>> => Last(log.trace) = log.trace[n]
  BY SequenceAppend DEF Good
<1>4. Linked([state |-> next, trace |-> events], b)
  <2>1. next.seq = b.seq + Len(events)
    BY <1>2, <1>3 DEF Good, Linked, States
  <2>2. ASSUME NEW i \in 1 .. n
        PROVE  /\ events[i].seq = b.seq + i - 1
               /\ events[i].prev = IF i = 1 THEN None ELSE events[i - 1].seq
               /\ i > 1 => /\ events[i].time >= events[i - 1].time
                           /\ events[i].before = events[i - 1].after
    <3>1. events[i] = log.trace[i] /\ (i > 1 => events[i - 1] = log.trace[i - 1])
      BY <1>3
    <3>2. QED
      BY <3>1, <1>3 DEF Good, Linked
  <2>3. /\ event.seq = b.seq + (n + 1) - 1
        /\ event.prev = IF n + 1 = 1 THEN None ELSE events[n].seq
        /\ n + 1 > 1 => /\ event.time >= events[n].time
                        /\ event.before = events[n].after
    <3>1. event.seq = b.seq + n
      BY <1>3 DEF Good, Linked
    <3>2. CASE n = 0
      BY <3>1, <3>2, <1>3 DEF States
    <3>3. CASE n # 0
      <4>1. events[n] = log.trace[n] /\ log.trace # <<>>
        BY <3>3, <1>3
      <4>2. event.prev = events[n].seq
        BY <4>1, <1>3
      <4>3. log.trace[n].after = log.state /\ log.trace[n].time = log.state.time
        BY <4>1 DEF Good, Linked
      <4>4. event.time >= events[n].time /\ event.before = events[n].after
        BY <4>1, <4>3, <1>2
      <4>5. event.seq = b.seq + (n + 1) - 1 /\ n + 1 # 1
        BY <3>1, <3>3, <1>3 DEF States
      <4> HIDE DEF event, events, n
      <4>6. QED
        BY <4>2, <4>4, <4>5
    <3>4. QED
      BY <3>2, <3>3
  <2>4. \A i \in 1 .. Len(events) : i \in 1 .. n \/ i = n + 1
    BY <1>3
  <2>5. \A i \in 1 .. Len(events) :
            /\ events[i].seq = b.seq + i - 1
            /\ events[i].prev = IF i = 1 THEN None ELSE events[i - 1].seq
            /\ i > 1 => /\ events[i].time >= events[i - 1].time
                        /\ events[i].before = events[i - 1].after
    <3>1. (n + 1) - 1 = n
      BY <1>3
    <3> HIDE DEF event, events, n
    <3>2. QED
      BY <2>2, <2>3, <2>4, <1>3, <3>1
  <2>6. /\ events[Len(events)].after = next
        /\ events[Len(events)].time = next.time
    BY <1>3
  <2> HIDE DEF event, events, next, n
  <2>7. QED
    BY <2>1, <2>5, <2>6 DEF Linked
<1>5. ValidPolicy(next.policy)
  BY <1>2
<1> HIDE DEF event, events, next, n
<1>6. QED
  BY <1>1, <1>2, <1>3, <1>4, <1>5 DEF Good

\* So does an event that changes nothing but the sequence, and the state keeps
\* what the next event of the same operation reads.
LEMMA RecordGood ==
    ASSUME NEW log, NEW b \in States, Good(log, b), NEW type, NEW payload
    PROVE  Good(Record(log, type, payload), b)
<1>1. /\ log.state \in States
      /\ ValidPolicy(log.state.policy)
      /\ log.state.time >= log.state.time
  BY DEF Good, States
<1>2. QED
  BY <1>1, CommitGood DEF Record

\* The counter update keeps a log good.
LEMMA CounterGood ==
    ASSUME NEW log, NEW b \in States, Good(log, b), NEW q, NEW hits
    PROVE  Good(CounterUpdate(log, q, hits), b)
<1> DEFINE s     == log.state
           prior == IF s.derived.counter = None THEN 0 ELSE s.derived.counter
           count == IF s.policy.canary \in ToSet(hits) THEN prior + 1 ELSE prior
           after == [s EXCEPT !.derived = [NoDerived EXCEPT !.counter = count]]
<1>1. s \in States /\ ValidPolicy(s.policy)
  BY DEF Good
<1>2. prior \in Nat
  BY <1>1 DEF States
<1>3. count \in Nat
  BY <1>2
<1> HIDE DEF prior, count
<1>4. [NoDerived EXCEPT !.counter = count] \in
          [suppressed : SUBSET Memory, trigger : Memory \cup {None},
           counter : Nat \cup {None}]
  BY <1>3 DEF NoDerived
<1>5. after \in States /\ after.policy = s.policy /\ after.time >= s.time
  BY <1>1, <1>4 DEF States
<1> HIDE DEF after
<1>6. Good(Commit(log, "read_side_update",
                  [operation |-> "set_shared_access_counter", counter |-> count],
                  after), b)
  BY <1>1, <1>5, CommitGood
<1>7. QED
  BY <1>6 DEF CounterUpdate, after, count, prior

\* The eclipse update keeps a log good: a valid adaptive policy names memories.
LEMMA EclipseGood ==
    ASSUME NEW log, NEW b \in States, Good(log, b), Adaptive(log.state.policy)
    PROVE  Good(EclipseUpdate(log), b)
<1> DEFINE s == log.state
           derived == [NoDerived EXCEPT !.suppressed = {s.policy.suppressed},
                                        !.trigger = s.policy.trigger]
           after == [s EXCEPT !.derived = derived, !.interactions = @ + 1]
           payload == [operation    |-> "set_memory_eclipse",
                       trigger      |-> s.policy.trigger,
                       suppressed   |-> s.policy.suppressed,
                       interactions |-> s.interactions + 1]
<1>1. s \in States /\ ValidPolicy(s.policy)
  BY DEF Good
<1>2. s.policy.trigger \in Memory /\ s.policy.suppressed \in Memory
  BY <1>1 DEF ValidPolicy
<1>3. derived \in [suppressed : SUBSET Memory, trigger : Memory \cup {None},
                   counter : Nat \cup {None}]
  BY <1>2 DEF NoDerived
<1> HIDE DEF derived
<1>4. after \in States /\ after.policy = s.policy /\ after.time >= s.time
  <2>1. s.interactions + 1 \in Nat
    BY <1>1 DEF States
  <2>2. s.time >= s.time
    BY <1>1 DEF States
  <2>3. after = [time |-> s.time, seq |-> s.seq, policy |-> s.policy,
                 interactions |-> s.interactions + 1, derived |-> derived]
    <3>1. DOMAIN s = {"time", "seq", "policy", "interactions", "derived"}
      BY <1>1 DEF States
    <3>2. /\ DOMAIN after = DOMAIN s
          /\ after.time = s.time /\ after.seq = s.seq /\ after.policy = s.policy
          /\ after.interactions = s.interactions + 1
          /\ after.derived = derived
      BY <1>1 DEF States
    <3>3. after = [f \in DOMAIN s |-> after[f]]
      OBVIOUS
    <3> HIDE DEF after
    <3>4. QED
      BY <3>1, <3>2, <3>3
  <2> HIDE DEF after
  <2>4. after \in States
    BY <1>1, <1>3, <2>1, <2>3 DEF States
  <2>5. QED
    BY <2>2, <2>3, <2>4
<1> HIDE DEF after, payload
<1>5. Good(Commit(log, "read_side_update", payload, after), b)
  BY <1>1, <1>4, CommitGood
<1>6. QED
  BY <1>5 DEF EclipseUpdate, after, derived, payload

\* A retrieval, with all the events it records, keeps the log good.
LEMMA RetrievedGood ==
    ASSUME NEW log, NEW b \in States, Good(log, b), NEW q
    PROVE  Good(Retrieved(log, q), b)
<1> DEFINE hits == Hits(log.state, q)
           completed == Record(log, "retrieval_completed", [query |-> q, hits |-> hits])
           changed == SetChange(completed, q)
<1>1. Good(completed, b)
  BY RecordGood
<1> HIDE DEF completed, hits
<1>2. Good(changed, b)
  BY <1>1, RecordGood DEF SetChange
<1> HIDE DEF changed
<1>3. Good(ReadSideUpdate(changed, q, hits), b)
  BY <1>2, CounterGood, EclipseGood DEF ReadSideUpdate
<1>4. QED
  BY <1>3 DEF Retrieved, changed, completed, hits

----------------------------------------------------------------------------
\* The invariant holds initially.
LEMMA InitInv == Init => TraceInv
<1> SUFFICES ASSUME Init PROVE TraceInv
  OBVIOUS
<1>1. state \in States /\ state.policy = InitialPolicy /\ state.seq = 0
  BY PolicyAssumption, TimeAssumption DEF Init, Initial, NoDerived, States
<1>2. trace \in Seq({}) /\ Len(trace) = 0 /\ trace = <<>>
  BY DEF Init
<1>3. Linked(Log, base)
  BY <1>1, <1>2 DEF Linked, Log, Init
<1>4. QED
  BY <1>1, <1>2, <1>3, PolicyAssumption DEF Init, TraceInv, Good, Log, Sequence

\* Becoming a good log.
LEMMA BecomesGood ==
    ASSUME NEW log, Good(log, base), Becomes(log), UNCHANGED <<base, saved>>, TraceInv
    PROVE  TraceInv'
BY DEF Good, Becomes, TraceInv, Linked, Log

\* Every step keeps the invariant.
LEMMA NextInv == TraceInv /\ [Next]_vars => TraceInv'
<1> SUFFICES ASSUME TraceInv, [Next]_vars
             PROVE  TraceInv'
  OBVIOUS
<1>1. base \in States /\ Good(Log, base)
  BY DEF TraceInv
<1>2. ASSUME NEW q \in Query, Retrieve(q)
      PROVE  TraceInv'
  BY <1>1, <1>2, RetrievedGood, BecomesGood DEF Retrieve
<1>3. ASSUME NEW type \in Note, RecordEvent(type)
      PROVE  TraceInv'
  BY <1>1, <1>3, RecordGood, BecomesGood DEF RecordEvent
<1>4. ASSUME NEW policy \in Policy, ConfigurePolicy(policy)
      PROVE  TraceInv'
  <2> DEFINE after == [state EXCEPT !.policy = policy]
  <2>1. Log.state = state /\ state \in States
    BY <1>1 DEF Good, Log
  <2>2. after \in States /\ after.policy = policy /\ after.time >= Log.state.time
    BY <2>1 DEF States
  <2> HIDE DEF after
  <2>3. Good(Commit(Log, "policy_configured", policy, after), base)
    BY <1>1, <1>4, <2>2, CommitGood DEF ConfigurePolicy
  <2>4. QED
    BY <1>4, <2>3, BecomesGood DEF ConfigurePolicy, after
<1>5. ASSUME NEW steps \in 1 .. MaxTime, AdvanceClock(steps)
      PROVE  TraceInv'
  <2> DEFINE after == [state EXCEPT !.time = @ + steps]
  <2>1. Log.state = state /\ state \in States /\ ValidPolicy(state.policy)
    BY <1>1 DEF Good, Log
  <2>2. /\ after \in States
        /\ after.policy = state.policy
        /\ after.time >= Log.state.time
    BY <1>5, <2>1, TimeAssumption DEF States, AdvanceClock
  <2> HIDE DEF after
  <2>3. Good(Commit(Log, "state_hash", steps, after), base)
    BY <1>1, <2>1, <2>2, CommitGood
  <2>4. QED
    BY <1>5, <2>3, BecomesGood DEF AdvanceClock, after
<1>6. CASE Snapshot
  BY <1>1, <1>6 DEF Snapshot, TraceInv, Good, Linked, Log
<1>7. CASE Reset
  <2>1. trace' \in Seq({}) /\ Len(trace') = 0 /\ trace' = <<>>
    BY <1>7 DEF Reset
  <2>2. state' = saved /\ base' = saved /\ saved' = saved
    BY <1>7 DEF Reset
  <2>3. saved \in States /\ ValidPolicy(saved.policy)
    BY DEF TraceInv
  <2>4. Linked(Log, base)'
    BY <2>1, <2>2, <2>3 DEF Linked, Log, States
  <2>5. QED
    BY <2>1, <2>2, <2>3, <2>4 DEF TraceInv, Good, Log, Sequence
<1>8. CASE UNCHANGED vars
  BY <1>8 DEF vars, TraceInv, Good, Linked, Log
<1>9. QED
  BY <1>2, <1>3, <1>4, <1>5, <1>6, <1>7, <1>8 DEF Next

\* The invariant is an invariant of the memory.
LEMMA InvCorrect == Spec => []TraceInv
BY InitInv, NextInv, PTL DEF Spec

\* Every state keeps its type and a configured policy is valid: what an update
\* of _apply_read_side_update writes is made of memories that exist.
THEOREM TypeCorrect == Spec => []TypeOK
<1>1. TraceInv => TypeOK
  BY DEF TraceInv, TypeOK, Good, Log
<1>2. QED
  BY <1>1, InvCorrect, PTL

\* verify_trace accepts the trace of a good log that began from a fresh snapshot, and
\* no other that is not empty: its first event is not numbered zero.
LEMMA GoodVerifies ==
    ASSUME NEW log, NEW b \in States, Good(log, b)
    PROVE  Verified(log.trace) <=> b.seq = 0 \/ log.trace = <<>>
<1>1. PICK S : log.trace \in Seq(S)
  BY DEF Good, Sequence
<1>2. Linked(log, b) /\ DOMAIN log.trace = 1 .. Len(log.trace) /\ b.seq \in Nat
  BY <1>1 DEF Good, States
<1>3. CASE b.seq = 0
  BY <1>2, <1>3 DEF Linked, Verified
<1>4. CASE log.trace = <<>>
  BY <1>4 DEF Verified
<1>5. CASE b.seq # 0 /\ log.trace # <<>>
  <2>1. 1 \in DOMAIN log.trace /\ log.trace[1].seq = b.seq
    BY <1>1, <1>2, <1>5 DEF Linked
  <2>2. QED
    BY <1>5, <2>1 DEF Verified
<1>6. QED
  BY <1>3, <1>4, <1>5

\* verify_trace accepts the exported trace of every episode that began from a
\* fresh snapshot, whatever operations made it, and of no other with an event.
THEOREM TraceCorrect == Spec => []TraceVerifies
<1>1. TraceInv => TraceVerifies
  <2>1. Log.trace = trace
    BY DEF Log
  <2>2. QED
    BY <2>1, GoodVerifies DEF TraceInv, TraceVerifies
<1>2. QED
  BY <1>1, InvCorrect, PTL

----------------------------------------------------------------------------
\* What the trace tells of the states.

\* A memory that was suppressed from the start, or by an eclipse among the first n
\* events, after a retrieval that met its trigger.
Eclipsed(events, b, m, n) ==
    \/ m \in b.derived.suppressed
    \/ \E j, h \in 1 .. Len(events) :
           /\ h < j /\ j <= n
           /\ events[j].type = "read_side_update"
           /\ events[j].payload.operation = "set_memory_eclipse"
           /\ events[j].payload.suppressed = m
           /\ events[h].type = "retrieval_completed"
           /\ events[j].payload.trigger \in ToSet(events[h].payload.hits)

\* The state after the first n events.
StateAfter(events, b, n) == IF n = 0 THEN b ELSE events[n].after

\* Every event describes the transition it was recorded with, but for those of the
\* clock, which no replay accepts, and what is suppressed or removed has a cause.
Told(log, b) ==
    /\ log.state = StateAfter(log.trace, b, Len(log.trace))
    /\ \A m \in log.state.derived.suppressed : Eclipsed(log.trace, b, m, Len(log.trace))
    /\ \A i \in 1 .. Len(log.trace) :
          /\ log.trace[i].before \in States
          /\ ApplyEvent(StateAfter(log.trace, b, i - 1), log.trace[i])
                = IF log.trace[i].type = "state_hash" THEN Rejected
                  ELSE StateAfter(log.trace, b, i)
          /\ log.trace[i].type = "retrieval_set_change" =>
                \A m \in log.trace[i].payload.removed : Eclipsed(log.trace, b, m, i - 2)

\* A cause stays one in a longer trace.
LEMMA CauseStays ==
    ASSUME NEW events, Sequence(events), NEW e, NEW b, NEW m,
           NEW n \in Int, NEW k \in Int, n <= k, Eclipsed(events, b, m, n)
    PROVE  Eclipsed(Append(events, e), b, m, k)
<1> DEFINE longer == Append(events, e)
<1>1. /\ Len(events) \in Nat /\ Len(longer) = Len(events) + 1
      /\ \A i \in 1 .. Len(events) : longer[i] = events[i]
  BY SequenceAppend
<1> HIDE DEF longer
<1>2. CASE m \in b.derived.suppressed
  BY <1>2 DEF Eclipsed
<1>3. CASE m \notin b.derived.suppressed
  <2>1. PICK j \in 1 .. Len(events), h \in 1 .. Len(events) :
           /\ h < j /\ j <= n
           /\ events[j].type = "read_side_update"
           /\ events[j].payload.operation = "set_memory_eclipse"
           /\ events[j].payload.suppressed = m
           /\ events[h].type = "retrieval_completed"
           /\ events[j].payload.trigger \in ToSet(events[h].payload.hits)
    BY <1>3 DEF Eclipsed
  <2>2. /\ j \in 1 .. Len(longer) /\ h \in 1 .. Len(longer) /\ j <= k
        /\ longer[j] = events[j] /\ longer[h] = events[h]
    BY <1>1, <2>1
  <2>3. QED
    BY <2>1, <2>2 DEF Eclipsed
<1>4. QED
  BY <1>2, <1>3 DEF longer

\* One more commit keeps what the trace tells, if its payload describes the new
\* state, and what the state newly suppresses or the event removes has a cause.
LEMMA CommitTold ==
    ASSUME NEW log, NEW b \in States, Good(log, b), Told(log, b), NEW type, NEW payload,
           NEW after \in States, after.seq = log.state.seq,
           type # "state_hash" => Described(log.state, type, payload) = after,
           type = "state_hash" => after.time # log.state.time,
           type = "retrieval_set_change" =>
              \A m \in payload.removed : Eclipsed(log.trace, b, m, Len(log.trace) - 1),
           \A m \in after.derived.suppressed \ log.state.derived.suppressed :
              /\ type = "read_side_update"
              /\ payload.operation = "set_memory_eclipse" /\ payload.suppressed = m
              /\ \E h \in 1 .. Len(log.trace) :
                    /\ log.trace[h].type = "retrieval_completed"
                    /\ payload.trigger \in ToSet(log.trace[h].payload.hits)
    PROVE  Told(Commit(log, type, payload, after), b)
<1> DEFINE next == [after EXCEPT !.seq = log.state.seq + 1]
           prev == IF log.trace = <<>> THEN None ELSE Last(log.trace).seq
           event == [seq |-> log.state.seq, time |-> next.time, type |-> type,
                     prev |-> prev, before |-> log.state, after |-> next,
                     payload |-> payload]
           events == Append(log.trace, event)
           n == Len(log.trace)
<1>1. Commit(log, type, payload, after) = [state |-> next, trace |-> events]
  BY DEF Commit
<1>2. /\ next.derived = after.derived /\ next = [after EXCEPT !.seq = @ + 1]
      /\ next.time = after.time /\ log.state \in States
  BY DEF States, Good
<1>3. /\ event.type = type /\ event.payload = payload
      /\ event.before = log.state /\ event.after = next
  OBVIOUS
<1> HIDE DEF event, next
<1>4. /\ Sequence(log.trace) /\ n \in Nat /\ Len(events) = n + 1
      /\ \A i \in 1 .. n : events[i] = log.trace[i]
      /\ events[n + 1] = event
  BY SequenceAppend DEF Good
<1>5. \A k, l \in Int : \A m :
         k <= l /\ Eclipsed(log.trace, b, m, k) => Eclipsed(events, b, m, l)
  BY <1>4, CauseStays
<1> HIDE DEF events
<1>6. /\ StateAfter(events, b, n + 1) = next
      /\ \A i \in 0 .. n : StateAfter(events, b, i) = StateAfter(log.trace, b, i)
  BY <1>3, <1>4 DEF StateAfter
<1>7. ASSUME NEW m \in next.derived.suppressed
      PROVE  Eclipsed(events, b, m, n + 1)
  <2>1. CASE m \in log.state.derived.suppressed
    <3>1. Eclipsed(log.trace, b, m, n)
      BY <2>1 DEF Told
    <3>2. QED
      <4>1. n \in Int /\ n + 1 \in Int /\ n <= n + 1
        BY <1>4
      <4>2. QED
        BY <1>5, <3>1, <4>1
  <2>2. CASE m \notin log.state.derived.suppressed
    <3>1. PICK h \in 1 .. n : /\ log.trace[h].type = "retrieval_completed"
                              /\ payload.trigger \in ToSet(log.trace[h].payload.hits)
      BY <1>2, <1>7, <2>2
    <3>2. /\ type = "read_side_update"
          /\ payload.operation = "set_memory_eclipse" /\ payload.suppressed = m
      BY <1>2, <1>7, <2>2
    <3>3. h < n + 1 /\ h \in 1 .. Len(events) /\ n + 1 \in 1 .. Len(events) /\ n + 1 <= n + 1
      BY <1>4
    <3>4. events[h] = log.trace[h] /\ events[n + 1] = event
      BY <1>4
    <3>5. QED
      BY <1>3, <3>1, <3>2, <3>3, <3>4 DEF Eclipsed
  <2>3. QED
    BY <2>1, <2>2
<1>8. ASSUME NEW i \in 1 .. n + 1
      PROVE  /\ events[i].before \in States
             /\ ApplyEvent(StateAfter(events, b, i - 1), events[i])
                   = IF events[i].type = "state_hash" THEN Rejected ELSE StateAfter(events, b, i)
             /\ events[i].type = "retrieval_set_change" =>
                   \A m \in events[i].payload.removed : Eclipsed(events, b, m, i - 2)
  <2>1. CASE i \in 1 .. n
    <3>1. events[i] = log.trace[i] /\ i - 1 \in 0 .. n /\ i \in 0 .. n
      BY <1>4, <2>1
    <3>2. /\ log.trace[i].before \in States
          /\ ApplyEvent(StateAfter(log.trace, b, i - 1), log.trace[i])
                = IF log.trace[i].type = "state_hash" THEN Rejected
                  ELSE StateAfter(log.trace, b, i)
          /\ log.trace[i].type = "retrieval_set_change" =>
                \A m \in log.trace[i].payload.removed : Eclipsed(log.trace, b, m, i - 2)
      BY <2>1 DEF Told
    <3>3. \A m : Eclipsed(log.trace, b, m, i - 2) => Eclipsed(events, b, m, i - 2)
      <4>1. i - 2 \in Int /\ i - 2 <= i - 2
        OBVIOUS
      <4>2. QED
        BY <1>5, <4>1
    <3>4. QED
      BY <1>6, <3>1, <3>2, <3>3
  <2>2. CASE i = n + 1
    <3>1. events[i] = event /\ i - 1 = n /\ i - 2 = n - 1 /\ n \in 0 .. n
      BY <1>4, <2>2
    <3>2. StateAfter(events, b, i - 1) = log.state /\ StateAfter(events, b, i) = next
      BY <1>6, <2>2, <3>1 DEF Told
    <3>3. ASSUME type # "state_hash"
          PROVE  ApplyEvent(log.state, event) = next
      BY <1>2, <1>3, <3>3 DEF ApplyEvent
    <3>4. ASSUME type = "state_hash"
          PROVE  ApplyEvent(log.state, event) = Rejected
      <4>1. Described(log.state, event.type, event.payload) = log.state
        BY <1>3, <3>4 DEF Described
      <4>2. [log.state EXCEPT !.seq = @ + 1].time = log.state.time
        BY <1>2 DEF States
      <4>3. event.after # [log.state EXCEPT !.seq = @ + 1]
        BY <1>2, <1>3, <3>4, <4>2
      <4>4. QED
        BY <4>1, <4>3 DEF ApplyEvent
    <3>5. ASSUME type = "retrieval_set_change", NEW m \in payload.removed
          PROVE  Eclipsed(events, b, m, n - 1)
      <4>1. Eclipsed(log.trace, b, m, n - 1)
        BY <3>5
      <4>2. n - 1 \in Int /\ n - 1 <= n - 1
        BY <1>4
      <4>3. QED
        BY <1>5, <4>1, <4>2
    <3>6. ApplyEvent(log.state, event) = IF type = "state_hash" THEN Rejected ELSE next
      BY <3>3, <3>4
    <3>7. QED
      BY <1>2, <1>3, <3>1, <3>2, <3>5, <3>6
  <2>3. QED
    BY <1>4, <2>1, <2>2
<1>9. QED
  BY <1>1, <1>4, <1>6, <1>7, <1>8 DEF Told

\* An event that changes nothing but the sequence describes just that.
LEMMA RecordTold ==
    ASSUME NEW log, NEW b \in States, Good(log, b), Told(log, b), NEW type, NEW payload,
           type \notin {"policy_configured", "read_side_update", "state_hash"},
           type = "retrieval_set_change" =>
              \A m \in payload.removed : Eclipsed(log.trace, b, m, Len(log.trace) - 1)
    PROVE  Told(Record(log, type, payload), b)
<1>1. log.state \in States /\ log.state.seq = log.state.seq
  BY DEF Good
<1>2. Described(log.state, type, payload) = log.state
  BY DEF Described
<1>3. QED
  BY <1>1, <1>2, CommitTold DEF Record

\* The counter update describes its count, and suppresses nothing.
LEMMA CounterTold ==
    ASSUME NEW log, NEW b \in States, Good(log, b), Told(log, b), NEW q, NEW hits
    PROVE  Told(CounterUpdate(log, q, hits), b)
<1> DEFINE s     == log.state
           prior == IF s.derived.counter = None THEN 0 ELSE s.derived.counter
           count == IF s.policy.canary \in ToSet(hits) THEN prior + 1 ELSE prior
           derived == [NoDerived EXCEPT !.counter = count]
           after == [s EXCEPT !.derived = derived]
           payload == [operation |-> "set_shared_access_counter", counter |-> count]
<1>1. s \in States
  BY DEF Good
<1>2. count \in Nat
  <2>1. prior \in Nat
    BY <1>1 DEF States
  <2>2. QED
    BY <2>1
<1> HIDE DEF prior, count
<1>3. /\ derived \in [suppressed : SUBSET Memory, trigger : Memory \cup {None},
                      counter : Nat \cup {None}]
      /\ derived.suppressed = {}
  BY <1>2 DEF NoDerived
<1>4. Described(s, "read_side_update", payload) = after
  BY DEF Described
<1> HIDE DEF derived, payload
<1>5. after \in States /\ after.seq = s.seq /\ after.derived.suppressed = {}
  BY <1>1, <1>3 DEF States
<1> HIDE DEF after
<1>6. Told(Commit(log, "read_side_update", payload, after), b)
  BY <1>4, <1>5, CommitTold
<1>7. QED
  BY <1>6 DEF CounterUpdate, payload, after, derived, count, prior

\* The eclipse update describes what it suppresses, after a retrieval of its trigger.
LEMMA EclipseTold ==
    ASSUME NEW log, NEW b \in States, Good(log, b), Told(log, b), Adaptive(log.state.policy),
           NEW h \in 1 .. Len(log.trace), log.trace[h].type = "retrieval_completed",
           log.state.policy.trigger \in ToSet(log.trace[h].payload.hits)
    PROVE  Told(EclipseUpdate(log), b)
<1> DEFINE s == log.state
           derived == [NoDerived EXCEPT !.suppressed = {s.policy.suppressed},
                                        !.trigger = s.policy.trigger]
           after == [s EXCEPT !.derived = derived, !.interactions = @ + 1]
           payload == [operation    |-> "set_memory_eclipse",
                       trigger      |-> s.policy.trigger,
                       suppressed   |-> s.policy.suppressed,
                       interactions |-> s.interactions + 1]
<1>1. s \in States /\ ValidPolicy(s.policy)
  BY DEF Good
<1>2. s.policy.trigger \in Memory /\ s.policy.suppressed \in Memory
  BY <1>1 DEF ValidPolicy
<1>3. /\ derived \in [suppressed : SUBSET Memory, trigger : Memory \cup {None},
                      counter : Nat \cup {None}]
      /\ derived.suppressed = {s.policy.suppressed}
  BY <1>2 DEF NoDerived
<1>4. Described(s, "read_side_update", payload) = after
  BY DEF Described
<1> HIDE DEF derived
<1>5. after \in States /\ after.seq = s.seq /\ after.derived.suppressed = {s.policy.suppressed}
  <2>1. /\ DOMAIN s = {"time", "seq", "policy", "interactions", "derived"}
        /\ s.interactions + 1 \in Nat
    BY <1>1 DEF States
  <2>2. /\ DOMAIN after = DOMAIN s
        /\ after.time = s.time /\ after.seq = s.seq /\ after.policy = s.policy
        /\ after.interactions = s.interactions + 1
        /\ after.derived = derived
    BY <1>1 DEF States
  <2>3. after = [f \in DOMAIN s |-> after[f]]
    OBVIOUS
  <2> HIDE DEF after
  <2>4. after = [time |-> s.time, seq |-> s.seq, policy |-> s.policy,
                 interactions |-> s.interactions + 1, derived |-> derived]
    BY <2>1, <2>2, <2>3
  <2>5. QED
    BY <1>1, <1>3, <2>1, <2>2, <2>4 DEF States
<1>6. /\ payload.operation = "set_memory_eclipse" /\ payload.suppressed = s.policy.suppressed
      /\ payload.trigger = s.policy.trigger
  OBVIOUS
<1> HIDE DEF after, payload
<1>7. Told(Commit(log, "read_side_update", payload, after), b)
  BY <1>4, <1>5, <1>6, CommitTold
<1>8. QED
  BY <1>7 DEF EclipseUpdate, payload, after, derived

\* The events of a retrieval tell what it did and why.
LEMMA RetrievedTold ==
    ASSUME NEW log, NEW b \in States, Good(log, b), Told(log, b), NEW q
    PROVE  Told(Retrieved(log, q), b)
<1> DEFINE hits      == Hits(log.state, q)
           result    == [query |-> q, hits |-> hits]
           completed == Record(log, "retrieval_completed", result)
           changed   == SetChange(completed, q)
           met       == ToSet(Ranked(completed.state, q)) \cap completed.state.derived.suppressed
           removed   == met \ Spared(completed.state)
           n         == Len(log.trace)
<1>1. Good(completed, b) /\ Told(completed, b)
  BY RecordGood, RecordTold
<1>2. /\ n \in Nat /\ Len(completed.trace) = n + 1
      /\ completed.trace[n + 1].type = "retrieval_completed"
      /\ completed.trace[n + 1].payload = result
      /\ completed.state.derived = log.state.derived
      /\ completed.state.policy = log.state.policy
  BY SequenceAppend DEF Good, Record, Commit, States
<1>3. \A m \in completed.state.derived.suppressed : Eclipsed(completed.trace, b, m, n)
  <2> SUFFICES ASSUME NEW m \in log.state.derived.suppressed
               PROVE  Eclipsed(completed.trace, b, m, n)
    BY <1>2
  <2>1. Eclipsed(log.trace, b, m, n) /\ n \in Int /\ n <= n
    BY <1>2 DEF Told
  <2>2. QED
    BY <2>1, CauseStays DEF Good, Record, Commit
<1>4. result.hits = hits
  OBVIOUS
<1> HIDE DEF completed, result, hits
<1>5. removed \subseteq completed.state.derived.suppressed /\ Len(completed.trace) - 1 = n
  BY <1>2
<1> DEFINE change == [removed |-> removed, spared |-> met \ removed]
<1>6. changed = completed \/ changed = Record(completed, "retrieval_set_change", change)
  BY DEF SetChange
<1>7. change.removed = removed
  OBVIOUS
<1> HIDE DEF removed, met, change, changed
<1>8. Good(changed, b) /\ Told(changed, b)
  BY <1>1, <1>3, <1>5, <1>6, <1>7, RecordGood, RecordTold
<1>9. /\ n + 1 \in 1 .. Len(changed.trace)
      /\ changed.trace[n + 1] = completed.trace[n + 1]
  <2>1. CASE changed = completed
    BY <1>2, <2>1
  <2>2. CASE changed = Record(completed, "retrieval_set_change", change)
    BY <1>1, <1>2, <2>2, SequenceAppend DEF Good, Record, Commit
  <2>3. QED
    BY <1>6, <2>1, <2>2
<1>10. Told(ReadSideUpdate(changed, q, hits), b)
  <2>1. Told(CounterUpdate(changed, q, hits), b)
    BY <1>8, CounterTold
  <2>2. ASSUME Adaptive(changed.state.policy), changed.state.policy.trigger \in ToSet(hits)
        PROVE  Told(EclipseUpdate(changed), b)
    BY <1>2, <1>4, <1>8, <1>9, <2>2, EclipseTold
  <2>3. QED
    BY <1>8, <2>1, <2>2 DEF ReadSideUpdate
<1>11. QED
  BY <1>10 DEF Retrieved, changed, completed, result, hits

ToldInv == TraceInv /\ Told(Log, base)

\* An empty trace tells nothing.
LEMMA EmptyTold ==
    ASSUME trace = <<>>, base = state
    PROVE  Told(Log, base)
<1>1. Len(trace) = 0
  OBVIOUS
<1>2. QED
  BY <1>1 DEF Told, Log, StateAfter, Eclipsed

\* Becoming a log that tells.
LEMMA BecomesTold ==
    ASSUME NEW log, Told(log, base), Becomes(log), UNCHANGED base
    PROVE  Told(Log, base)'
<1>1. Told([state |-> log.state, trace |-> log.trace], base)
  BY DEF Told
<1>2. (Log = [state |-> log.state, trace |-> log.trace])'
  BY DEF Becomes, Log
<1>3. QED
  BY <1>1, <1>2 DEF Told, StateAfter, Eclipsed

\* Every step keeps what the trace tells.
LEMMA NextTold == ToldInv /\ [Next]_vars => ToldInv'
<1> SUFFICES ASSUME ToldInv, [Next]_vars
             PROVE  Told(Log, base)'
  BY NextInv DEF ToldInv
<1>1. base \in States /\ Good(Log, base) /\ Told(Log, base) /\ Log.state = state /\ state \in States
  BY DEF ToldInv, TraceInv, Good, Log
<1>2. ASSUME NEW q \in Query, Retrieve(q)
      PROVE  Told(Log, base)'
  BY <1>1, <1>2, RetrievedTold, BecomesTold DEF Retrieve
<1>3. ASSUME NEW type \in Note, RecordEvent(type)
      PROVE  Told(Log, base)'
  <2>1. type \notin {"policy_configured", "read_side_update", "state_hash", "retrieval_set_change"}
    BY NoteAssumption
  <2>2. Told(Record(Log, type, None), base)
    BY <1>1, <2>1, RecordTold
  <2>3. QED
    BY <1>3, <2>2, BecomesTold DEF RecordEvent
<1>4. ASSUME NEW policy \in Policy, ConfigurePolicy(policy)
      PROVE  Told(Log, base)'
  <2> DEFINE after == [state EXCEPT !.policy = policy]
  <2>1. /\ after \in States /\ after.seq = Log.state.seq
        /\ after.derived.suppressed \ Log.state.derived.suppressed = {}
    BY <1>1 DEF States
  <2>2. Described(Log.state, "policy_configured", policy) = after
    BY <1>1 DEF Described
  <2> HIDE DEF after
  <2>3. Told(Commit(Log, "policy_configured", policy, after), base)
    BY <1>1, <2>1, <2>2, CommitTold
  <2>4. QED
    BY <1>4, <2>3, BecomesTold DEF ConfigurePolicy, after
<1>5. ASSUME NEW steps \in 1 .. MaxTime, AdvanceClock(steps)
      PROVE  Told(Log, base)'
  <2> DEFINE after == [state EXCEPT !.time = @ + steps]
  <2>1. /\ after \in States /\ after.seq = Log.state.seq
        /\ after.derived.suppressed \ Log.state.derived.suppressed = {}
        /\ after.time # Log.state.time
    BY <1>1, <1>5, TimeAssumption DEF States, AdvanceClock
  <2> HIDE DEF after
  <2>2. Told(Commit(Log, "state_hash", steps, after), base)
    BY <1>1, <2>1, CommitTold
  <2>3. QED
    BY <1>5, <2>2, BecomesTold DEF AdvanceClock, after
<1>6. CASE Snapshot
  BY <1>1, <1>6 DEF Snapshot, Told, Log, StateAfter, Eclipsed
<1>7. CASE Reset
  <2>1. (trace = <<>> /\ base = state)'
    BY <1>7 DEF Reset
  <2>2. QED
    BY <2>1 DEF Told, Log, StateAfter, Eclipsed
<1>8. CASE UNCHANGED vars
  BY <1>1, <1>8 DEF vars, Told, Log, StateAfter, Eclipsed
<1>9. QED
  BY <1>2, <1>3, <1>4, <1>5, <1>6, <1>7, <1>8 DEF Next

\* What the trace tells is told in every state.
LEMMA ToldCorrect == Spec => []ToldInv
<1>1. Init => ToldInv
  BY InitInv, EmptyTold DEF Init, ToldInv
<1>2. QED
  BY <1>1, NextTold, PTL DEF Spec

\* Whatever a retrieval is recorded to have removed was suppressed in the snapshot the
\* episode began from, or by an eclipse that a recorded retrieval of its trigger caused.
THEOREM CauseCorrect == Spec => []RemovalHasCause
<1>1. ToldInv => RemovalHasCause
  <2> SUFFICES ASSUME ToldInv, NEW i \in Events("retrieval_set_change"),
                      NEW m \in trace[i].payload.removed, m \notin base.derived.suppressed
               PROVE  \E j \in Events("read_side_update"), h \in Events("retrieval_completed") :
                         /\ h < j /\ j < i - 1
                         /\ trace[j].payload.operation = "set_memory_eclipse"
                         /\ trace[j].payload.suppressed = m
                         /\ trace[j].payload.trigger \in ToSet(trace[h].payload.hits)
    BY DEF RemovalHasCause
  <2>1. PICK S : trace \in Seq(S)
    BY DEF ToldInv, TraceInv, Good, Sequence, Log
  <2>2. DOMAIN trace = 1 .. Len(trace) /\ i \in 1 .. Len(trace)
    BY <2>1 DEF Events
  <2>3. Eclipsed(trace, base, m, i - 2)
    BY <2>2 DEF ToldInv, Told, Log, Events
  <2>4. QED
    BY <2>2, <2>3 DEF Eclipsed, Events
<1>2. QED
  BY <1>1, ToldCorrect, PTL

----------------------------------------------------------------------------
\* The replay.

\* Every nonempty set of natural numbers has a least element: of the intervals below
\* its elements one contains no other.
LEMMA Least ==
    ASSUME NEW T, T \subseteq Nat, T # {}
    PROVE  \E n \in T : \A m \in T : n <= m
<1> DEFINE Below  == {0 .. n - 1 : n \in T}
           Strict == StrictSubsetOrdering(Nat)
<1>1. Below \subseteq FiniteSubsetsOf(Nat) /\ Below # {}
  <2>1. ASSUME NEW n \in T
        PROVE  0 .. n - 1 \in FiniteSubsetsOf(Nat)
    <3>1. 0 \in Int /\ n - 1 \in Int /\ 0 .. n - 1 \in SUBSET Nat
      OBVIOUS
    <3>2. IsFiniteSet(0 .. n - 1)
      BY <3>1, FS_Interval
    <3>3. QED
      BY <3>1, <3>2 DEF FiniteSubsetsOf
  <2>2. QED
    BY <2>1
<1>2. \E b \in Below : \A c \in Below : <<c, b>> \notin Strict
  <2> HIDE DEF Below
  <2>1. IsWellFoundedOn(Strict, FiniteSubsetsOf(Nat))
    BY FS_StrictSubsetOrderingWellFounded
  <2>2. QED
    BY <1>1, <2>1, WFMin
<1>3. PICK n \in T : \A m \in T : <<0 .. m - 1, 0 .. n - 1>> \notin Strict
  BY <1>2
<1>4. ASSUME NEW m \in T
      PROVE  n <= m
  <2>1. ~ (0 .. m - 1 \subseteq 0 .. n - 1 /\ 0 .. m - 1 # 0 .. n - 1)
    <3>1. 0 .. m - 1 \in SUBSET Nat /\ 0 .. n - 1 \in SUBSET Nat
      BY <1>4
    <3>2. <<0 .. m - 1, 0 .. n - 1>> \in (SUBSET Nat) \X (SUBSET Nat)
      BY <3>1
    <3>3. <<0 .. m - 1, 0 .. n - 1>> \notin Strict
      BY <1>3, <1>4
    <3>4. QED
      BY <3>2, <3>3, Zenon DEF StrictSubsetOrdering
  <2>2. m < n => m \in 0 .. n - 1 /\ m \notin 0 .. m - 1 /\ 0 .. m - 1 \subseteq 0 .. n - 1
    OBVIOUS
  <2>3. m < n => FALSE
    BY <2>1, <2>2
  <2>4. QED
    BY <2>3
<1>5. QED
  BY <1>4

\* Induction: no number is the first counterexample, so there is none.
LEMMA NoCounterexample ==
    ASSUME NEW T, T \subseteq Nat, 0 \notin T,
           \A n \in Nat : n + 1 \in T => n \in T
    PROVE  T = {}
<1>1. SUFFICES ASSUME T # {} PROVE FALSE
  OBVIOUS
<1>2. PICK n \in T : \A m \in T : n <= m
  BY <1>1, Least
<1>3. n - 1 \in Nat /\ (n - 1) + 1 = n
  BY <1>2
<1>4. n - 1 \in T
  BY <1>2, <1>3
<1>5. QED
  BY <1>2, <1>4

\* If each event applies to the state after the one before it and gives the state
\* after itself, the replay of all of them gives the last of these states.
LEMMA ReplayFollows ==
    ASSUME NEW events, Sequence(events), NEW initial, NEW after,
           after = [i \in 0 .. Len(events) |-> after[i]], after[0] = initial,
           \A i \in 1 .. Len(events) : ApplyEvent(after[i - 1], events[i]) = after[i]
    PROVE  Replayed(initial, events) = after[Len(events)]
<1> DEFINE n == Len(events)
           Follows(f) ==
               f = [i \in 0 .. n |-> IF i = 0 THEN initial ELSE ApplyEvent(f[i - 1], events[i])]
           replay == CHOOSE f : Follows(f)
<1>1. n \in Nat
  BY SequenceAppend
<1>2. Replayed(initial, events) = replay[n]
  BY DEF Replayed
<1>3. Follows(after)
  <2>1. \A i \in 0 .. n : after[i] = IF i = 0 THEN initial ELSE ApplyEvent(after[i - 1], events[i])
    BY <1>1
  <2>2. QED
    BY <2>1
<1>4. Follows(replay)
  BY <1>3
<1> HIDE DEF replay
<1>5. \A i \in 0 .. n :
         replay[i] = IF i = 0 THEN initial ELSE ApplyEvent(replay[i - 1], events[i])
  BY <1>4
<1> HIDE DEF Follows, n
<1> DEFINE Wrong == {i \in 0 .. n : replay[i] # after[i]}
<1>6. Wrong = {}
  <2>1. Wrong \subseteq Nat
    OBVIOUS
  <2>2. 0 \notin Wrong
    BY <1>1, <1>5
  <2>3. ASSUME NEW i \in Nat, i + 1 \in Wrong
        PROVE  i \in Wrong
    <3>1. i + 1 \in 1 .. n /\ i + 1 \in 0 .. n /\ i \in 0 .. n /\ (i + 1) - 1 = i /\ i + 1 # 0
      BY <1>1, <2>3
    <3>2. replay[i + 1] = ApplyEvent(replay[i], events[i + 1])
      BY <1>5, <3>1
    <3>3. after[i + 1] = ApplyEvent(after[i], events[i + 1])
      BY <3>1 DEF n
    <3>4. QED
      BY <2>3, <3>1, <3>2, <3>3
  <2> HIDE DEF Wrong
  <2>4. QED
    BY <2>1, <2>2, <2>3, NoCounterexample
<1>7. replay[n] = after[n]
  BY <1>1, <1>6
<1>8. QED
  BY <1>2, <1>7 DEF n

\* Every event of a log that tells of its states applies, up to the first of the
\* clock, and from there on no event does.
LEMMA ToldReplays ==
    ASSUME NEW log, NEW b, Sequence(log.trace), Told(log, b)
    PROVE  Replayed(b, log.trace) =
               IF \E i \in 1 .. Len(log.trace) : log.trace[i].type = "state_hash"
               THEN Rejected ELSE log.state
<1> DEFINE events   == log.trace
           Moved(i) == \E j \in 1 .. i : events[j].type = "state_hash"
           after    == [i \in 0 .. Len(events) |->
                            IF Moved(i) THEN Rejected ELSE StateAfter(events, b, i)]
<1>1. Len(events) \in Nat
  BY SequenceAppend
<1>2. /\ after[0] = b
      /\ after[Len(events)] = IF Moved(Len(events)) THEN Rejected ELSE log.state
  BY <1>1 DEF Told, StateAfter
<1>3. ASSUME NEW i \in 1 .. Len(events)
      PROVE  ApplyEvent(after[i - 1], events[i]) = after[i]
  <2>1. /\ events[i].before \in States
        /\ ApplyEvent(StateAfter(events, b, i - 1), events[i])
              = IF events[i].type = "state_hash" THEN Rejected ELSE StateAfter(events, b, i)
    BY DEF Told
  <2>2. i - 1 \in 0 .. Len(events) /\ i \in 0 .. Len(events)
    BY <1>1
  <2>3. Moved(i) <=> Moved(i - 1) \/ events[i].type = "state_hash"
    <3>1. \A j \in 1 .. i : j \in 1 .. i - 1 \/ j = i
      BY <1>1
    <3>2. \A j \in 1 .. i - 1 : j \in 1 .. i
      BY <1>1
    <3>3. i \in 1 .. i
      BY <1>1
    <3>4. QED
      BY <3>1, <3>2, <3>3
  <2>4. ApplyEvent(Rejected, events[i]) = Rejected
    BY <2>1, RejectedAssumption DEF ApplyEvent
  <2> HIDE DEF Moved
  <2>5. /\ after[i - 1] = IF Moved(i - 1) THEN Rejected ELSE StateAfter(events, b, i - 1)
        /\ after[i] = IF Moved(i) THEN Rejected ELSE StateAfter(events, b, i)
    BY <2>2
  <2> HIDE DEF after
  <2>6. QED
    BY <2>1, <2>3, <2>4, <2>5
<1>4. after = [i \in 0 .. Len(events) |-> after[i]]
  OBVIOUS
<1> HIDE DEF after
<1>5. QED
  BY <1>2, <1>3, <1>4, ReplayFollows

\* The replay and the memory are two implementations of one state machine: from any
\* snapshot and after any operations but those of the clock, the replay of the
\* payloads arrives at the state that the memory is in, and after one of the clock
\* it rejects.
THEOREM ReplayCorrect == Spec => []ReplayReconstructs
<1>1. ToldInv => ReplayReconstructs
  <2> SUFFICES ASSUME ToldInv
               PROVE  Replayed(base, trace) = IF Events("state_hash") = {} THEN state ELSE Rejected
    BY DEF ReplayReconstructs
  <2>1. Log.trace = trace /\ Log.state = state
    BY DEF Log
  <2>2. Sequence(trace) /\ Told(Log, base)
    BY <2>1 DEF ToldInv, TraceInv, Good
  <2>3. DOMAIN trace = 1 .. Len(trace)
    BY <2>2 DEF Sequence
  <2>4. Events("state_hash") # {} <=> \E i \in 1 .. Len(trace) : trace[i].type = "state_hash"
    BY <2>3 DEF Events
  <2>5. QED
    BY <2>1, <2>2, <2>4, ToldReplays
<1>2. QED
  BY <1>1, ToldCorrect, PTL

----------------------------------------------------------------------------
\* Joining sequences, and picking from a ranking.

\* What FlattenSeq builds, part by part.
Joins(f, parts, n) ==
    f = [i \in 1 .. n |-> IF i = 1 THEN parts[1] ELSE f[i - 1] \o parts[i]]

\* It can be built for any number of parts.
LEMMA JoinsExist ==
    ASSUME NEW parts, NEW n \in Nat
    PROVE  \E f : Joins(f, parts, n)
<1> DEFINE Missing == {m \in Nat : ~ \E f : Joins(f, parts, m)}
<1>1. 0 \notin Missing
  <2>1. Joins(<<>>, parts, 0)
    BY DEF Joins
  <2>2. QED
    BY <2>1
<1>2. ASSUME NEW m \in Nat, m \notin Missing
      PROVE  m + 1 \notin Missing
  <2>1. PICK f : Joins(f, parts, m)
    BY <1>2
  <2> DEFINE last == IF m = 0 THEN parts[1] ELSE f[m] \o parts[m + 1]
             g    == [i \in 1 .. m + 1 |-> IF i = m + 1 THEN last ELSE f[i]]
  <2>2. \A i \in 1 .. m : f[i] = IF i = 1 THEN parts[1] ELSE f[i - 1] \o parts[i]
    BY <2>1 DEF Joins
  <2>3. ASSUME NEW i \in 1 .. m + 1
        PROVE  g[i] = IF i = 1 THEN parts[1] ELSE g[i - 1] \o parts[i]
    <3>1. CASE i = m + 1
      <4>1. g[i] = last
        BY <3>1
      <4>2. CASE m = 0
        BY <4>1, <4>2, <3>1
      <4>3. CASE m # 0
        <5>1. i - 1 = m /\ i # 1 /\ m \in 1 .. m + 1 /\ m # m + 1
          BY <3>1, <4>3
        <5>2. g[i - 1] = f[m]
          BY <5>1
        <5>3. QED
          BY <3>1, <4>1, <4>3, <5>1, <5>2
      <4>4. QED
        BY <4>2, <4>3
    <3>2. CASE i # m + 1
      <4>1. i \in 1 .. m /\ g[i] = f[i]
        BY <3>2
      <4>2. i # 1 => i - 1 \in 1 .. m + 1 /\ i - 1 # m + 1
        BY <4>1
      <4>3. i # 1 => g[i - 1] = f[i - 1]
        BY <4>2
      <4>4. QED
        BY <4>1, <4>3, <2>2
    <3>3. QED
      BY <3>1, <3>2
  <2>4. g = [i \in 1 .. m + 1 |-> g[i]]
    OBVIOUS
  <2> HIDE DEF g
  <2>5. Joins(g, parts, m + 1)
    BY <2>3, <2>4 DEF Joins
  <2>6. QED
    BY <2>5
<1> HIDE DEF Missing
<1>3. Missing \subseteq Nat
  BY DEF Missing
<1>4. Missing = {}
  BY <1>1, <1>2, <1>3, NoCounterexample
<1>5. QED
  BY <1>4 DEF Missing

\* Its last element is what FlattenSeq returns; all of them are sequences of what the
\* parts are sequences of.
LEMMA FlattenJoins ==
    ASSUME NEW S, NEW parts \in Seq(Seq(S)), Len(parts) # 0
    PROVE  \E f : /\ Joins(f, parts, Len(parts))
                  /\ FlattenSeq(parts) = f[Len(parts)]
                  /\ \A i \in 1 .. Len(parts) : f[i] \in Seq(S)
<1> DEFINE n == Len(parts)
           f == CHOOSE g : Joins(g, parts, n)
<1>1. n \in Nat /\ \A i \in 1 .. n : parts[i] \in Seq(S)
  OBVIOUS
<1>2. Joins(f, parts, n)
  BY <1>1, JoinsExist
<1>3. FlattenSeq(parts) = f[n]
  BY DEF FlattenSeq, Joins
<1> HIDE DEF f, n
<1>4. \A i \in 1 .. n : f[i] = IF i = 1 THEN parts[1] ELSE f[i - 1] \o parts[i]
  BY <1>2 DEF Joins
<1> DEFINE Other == {i \in 1 .. n : f[i] \notin Seq(S)}
<1>5. 0 \notin Other /\ Other \subseteq Nat
  BY <1>1
<1>6. ASSUME NEW i \in Nat, i + 1 \in Other
      PROVE  i \in Other
  <2>1. i + 1 \in 1 .. n /\ f[i + 1] \notin Seq(S) /\ i + 1 - 1 = i
    BY <1>6
  <2>2. i # 0
    BY <2>1, <1>1, <1>4
  <2>3. i \in 1 .. n /\ f[i + 1] = f[i] \o parts[i + 1] /\ parts[i + 1] \in Seq(S)
    <3>1. i + 1 # 1 /\ i \in 1 .. n
      BY <2>1, <2>2, <1>1
    <3>2. PICK k \in 1 .. n : k = i + 1
      BY <2>1
    <3>3. f[k] = f[k - 1] \o parts[k]
      BY <3>1, <3>2, <1>4
    <3>4. k - 1 = i
      BY <3>2
    <3>5. QED
      BY <3>1, <3>2, <3>3, <3>4, <1>1
  <2>4. f[i] \in Seq(S) => f[i + 1] \in Seq(S)
    BY <2>3
  <2>5. QED
    BY <2>1, <2>3, <2>4
<1> HIDE DEF Other
<1>7. Other = {}
  BY <1>5, <1>6, NoCounterexample
<1>8. \A i \in 1 .. n : f[i] \in Seq(S)
  BY <1>7 DEF Other
<1>9. QED
  BY <1>2, <1>3, <1>8 DEF n

LEMMA FlattenType ==
    ASSUME NEW S, NEW parts \in Seq(Seq(S))
    PROVE  FlattenSeq(parts) \in Seq(S)
<1>1. CASE Len(parts) = 0
  <2>1. FlattenSeq(parts) = <<>>
    BY <1>1 DEF FlattenSeq
  <2>2. QED
    BY <2>1
<1>2. CASE Len(parts) # 0
  <2>1. Len(parts) \in 1 .. Len(parts)
    BY <1>2
  <2>2. QED
    BY <1>2, <2>1, FlattenJoins
<1>3. QED
  BY <1>1, <1>2

\* Two ways of building agree on the parts they share.
LEMMA JoinsAgree ==
    ASSUME NEW p, NEW q, NEW f, NEW g, NEW m \in Nat, NEW n \in Nat, m <= n,
           Joins(f, p, m), Joins(g, q, n), \A i \in 1 .. m : p[i] = q[i]
    PROVE  \A i \in 1 .. m : f[i] = g[i]
<1>1. \A i \in 1 .. m : f[i] = IF i = 1 THEN p[1] ELSE f[i - 1] \o p[i]
  BY DEF Joins
<1>2. \A i \in 1 .. n : g[i] = IF i = 1 THEN q[1] ELSE g[i - 1] \o q[i]
  BY DEF Joins
<1> DEFINE Wrong == {i \in 1 .. m : f[i] # g[i]}
<1>3. Wrong \subseteq Nat /\ 0 \notin Wrong
  OBVIOUS
<1>4. ASSUME NEW i \in Nat, i + 1 \in Wrong
      PROVE  i \in Wrong
  <2>1. i + 1 \in 1 .. m /\ i + 1 \in 1 .. n /\ f[i + 1] # g[i + 1] /\ i + 1 - 1 = i
    BY <1>4
  <2>2. i # 0
    BY <2>1, <1>1, <1>2
  <2>3. i \in 1 .. m /\ i + 1 # 1
    BY <2>1, <2>2
  <2>4. f[i + 1] = f[i] \o p[i + 1] /\ g[i + 1] = g[i] \o q[i + 1]
    <3>1. PICK k \in 1 .. m : k = i + 1
      BY <2>1
    <3>2. f[k] = f[k - 1] \o p[k] /\ g[k] = g[k - 1] \o q[k]
      BY <2>1, <2>3, <3>1, <1>1, <1>2
    <3>3. k - 1 = i
      BY <3>1
    <3>4. QED
      BY <3>1, <3>2, <3>3
  <2>5. QED
    BY <2>1, <2>3, <2>4
<1> HIDE DEF Wrong
<1>5. Wrong = {}
  BY <1>3, <1>4, NoCounterexample
<1>6. QED
  BY <1>5 DEF Wrong

\* One more part comes last.
LEMMA FlattenAppend ==
    ASSUME NEW S, NEW parts \in Seq(Seq(S)), NEW part \in Seq(S)
    PROVE  FlattenSeq(Append(parts, part)) = FlattenSeq(parts) \o part
<1> DEFINE more == Append(parts, part)
<1>n. PICK n \in Nat : n = Len(parts)
  OBVIOUS
<1>1. /\ more \in Seq(Seq(S)) /\ Len(more) = n + 1 /\ n \in Nat /\ more[n + 1] = part
      /\ \A i \in 1 .. n : parts[i] = more[i]
  BY <1>n
<1> HIDE DEF more
<1>2. PICK g : /\ Joins(g, more, n + 1) /\ FlattenSeq(more) = g[n + 1]
               /\ \A i \in 1 .. n + 1 : g[i] \in Seq(S)
  <2>1. Len(more) # 0
    BY <1>1
  <2>2. QED
    BY <1>1, <2>1, FlattenJoins
<1>3. /\ n = 0 => g[n + 1] = more[1]
      /\ n # 0 => g[n + 1] = g[n] \o more[n + 1]
  <2>1. PICK k \in 1 .. n + 1 : k = n + 1
    BY <1>1
  <2>2. g[k] = IF k = 1 THEN more[1] ELSE g[k - 1] \o more[k]
    BY <1>2, <2>1 DEF Joins
  <2>3. k - 1 = n /\ k = n + 1 /\ (k = 1 <=> n = 0)
    BY <2>1
  <2> HIDE DEF more
  <2>4. CASE n = 0
    <3>1. k = 1
      BY <2>3, <2>4
    <3>2. g[k] = more[1]
      BY <2>2, <3>1
    <3>3. QED
      BY <2>3, <2>4, <3>2
  <2>5. CASE n # 0
    <3>1. k # 1
      BY <2>3, <2>5
    <3>2. g[k] = g[k - 1] \o more[k]
      BY <2>2, <3>1
    <3>3. QED
      BY <2>3, <2>5, <3>2
  <2>6. QED
    BY <2>4, <2>5
<1>4. CASE n = 0
  <2>1. FlattenSeq(parts) = <<>>
    <3>1. parts = <<>>
      BY <1>4, <1>n
    <3>2. QED
      BY <3>1 DEF FlattenSeq
  <2>2. FlattenSeq(more) = part
    BY <1>1, <1>2, <1>3, <1>4
  <2>3. <<>> \o part = part
    OBVIOUS
  <2>4. QED
    BY <2>1, <2>2, <2>3 DEF more
<1>5. CASE n # 0
  <2>1. PICK f : Joins(f, parts, n) /\ FlattenSeq(parts) = f[n]
    BY <1>n, <1>5, FlattenJoins
  <2>2. n + 1 \in Nat /\ n <= n + 1 /\ n \in 1 .. n /\ n + 1 - 1 = n /\ n + 1 # 1
    BY <1>1, <1>5
  <2>3. f[n] = g[n]
    <3>1. \A i \in 1 .. n : f[i] = g[i]
      BY <1>1, <1>2, <2>1, <2>2, JoinsAgree
    <3>2. QED
      BY <2>2, <3>1
  <2>4. QED
    BY <1>1, <1>2, <1>3, <2>1, <2>2, <2>3 DEF more
<1>6. QED
  BY <1>4, <1>5

\* The first part comes first.
LEMMA FlattenHead ==
    ASSUME NEW S, NEW parts \in Seq(Seq(S)), Len(parts) # 0, parts[1] # <<>>
    PROVE  /\ Len(FlattenSeq(parts)) > 0
           /\ FlattenSeq(parts)[1] = parts[1][1]
<1> DEFINE n == Len(parts)
<1>1. n \in Nat /\ n # 0 /\ 1 \in 1 .. n /\ n \in 1 .. n /\ \A i \in 1 .. n : parts[i] \in Seq(S)
  OBVIOUS
<1>2. PICK f : /\ Joins(f, parts, n) /\ FlattenSeq(parts) = f[n]
               /\ \A i \in 1 .. n : f[i] \in Seq(S)
  BY FlattenJoins
<1> HIDE DEF n
<1>3. \A i \in 1 .. n : f[i] = IF i = 1 THEN parts[1] ELSE f[i - 1] \o parts[i]
  BY <1>2 DEF Joins
<1> DEFINE Wrong == {i \in 1 .. n : ~ (Len(f[i]) > 0 /\ f[i][1] = parts[1][1])}
<1>4. Wrong \subseteq Nat /\ 0 \notin Wrong
  BY <1>1
<1>5. ASSUME NEW i \in Nat, i + 1 \in Wrong
      PROVE  i \in Wrong
  <2>1. i + 1 \in 1 .. n /\ ~ (Len(f[i + 1]) > 0 /\ f[i + 1][1] = parts[1][1]) /\ i + 1 - 1 = i
    BY <1>5
  <2>2. i # 0
    <3>1. Len(parts[1]) > 0
      BY <1>1
    <3>2. QED
      BY <2>1, <1>3, <3>1
  <2>3. i \in 1 .. n /\ f[i + 1] = f[i] \o parts[i + 1] /\ parts[i + 1] \in Seq(S) /\ f[i] \in Seq(S)
    <3>1. i + 1 # 1 /\ i \in 1 .. n
      BY <2>1, <2>2, <1>1
    <3>2. PICK k \in 1 .. n : k = i + 1
      BY <2>1
    <3>3. f[k] = f[k - 1] \o parts[k]
      BY <3>1, <3>2, <1>3
    <3>4. k - 1 = i
      BY <3>2
    <3>5. QED
      BY <3>1, <3>2, <3>3, <3>4, <1>1, <1>2
  <2>4. Len(f[i]) > 0 => Len(f[i + 1]) > 0 /\ f[i + 1][1] = f[i][1]
    <3>1. ASSUME NEW a \in Seq(S), NEW b \in Seq(S), Len(a) > 0
          PROVE  Len(a \o b) > 0 /\ (a \o b)[1] = a[1]
      BY <3>1, ConcatProperties
    <3>2. QED
      BY <2>3, <3>1
  <2>5. QED
    BY <2>1, <2>3, <2>4
<1> HIDE DEF Wrong
<1>6. Wrong = {}
  BY <1>4, <1>5, NoCounterexample
<1>7. QED
  BY <1>1, <1>2, <1>6 DEF Wrong

\* What is picked from a ranking is of the ranking and of the set.
LEMMA AmongType ==
    ASSUME NEW S, NEW ranked \in Seq(S), NEW M
    PROVE  Among(M, ranked) \in Seq(S \cap M)
<1> DEFINE parts == [i \in DOMAIN ranked |-> IF ranked[i] \in M THEN <<ranked[i]>> ELSE <<>>]
<1>1. DOMAIN ranked = 1 .. Len(ranked) /\ Len(ranked) \in Nat
  OBVIOUS
<1>2. \A i \in 1 .. Len(ranked) : parts[i] \in Seq(S \cap M)
  <2>1. ASSUME NEW i \in 1 .. Len(ranked)
        PROVE  parts[i] \in Seq(S \cap M)
    <3>1. CASE ranked[i] \in M
      <4>1. ranked[i] \in S \cap M /\ parts[i] = <<ranked[i]>>
        BY <3>1
      <4>2. \A T : \A x \in T : <<x>> \in Seq(T)
        OBVIOUS
      <4>3. QED
        BY <4>1, <4>2
    <3>2. CASE ranked[i] \notin M
      BY <3>2
    <3>3. QED
      BY <3>1, <3>2
  <2>2. QED
    BY <2>1
<1>3. parts \in Seq(Seq(S \cap M))
  <2>1. parts \in [1 .. Len(ranked) -> Seq(S \cap M)]
    BY <1>1, <1>2
  <2>2. QED
    BY <1>1, <2>1
<1>4. FlattenSeq(parts) \in Seq(S \cap M)
  BY <1>3, FlattenType
<1>5. QED
  BY <1>4 DEF Among

\* What comes first in a ranking comes first among what is picked from it.
LEMMA AmongHead ==
    ASSUME NEW S, NEW ranked \in Seq(S), NEW M, Len(ranked) > 0, ranked[1] \in M
    PROVE  Len(Among(M, ranked)) > 0 /\ Among(M, ranked)[1] = ranked[1]
<1> DEFINE parts == [i \in DOMAIN ranked |-> IF ranked[i] \in M THEN <<ranked[i]>> ELSE <<>>]
<1>1. DOMAIN ranked = 1 .. Len(ranked) /\ Len(ranked) \in Nat
  OBVIOUS
<1>2. parts \in Seq(Seq(S)) /\ Len(parts) = Len(ranked)
  <2>1. \A i \in 1 .. Len(ranked) : parts[i] \in Seq(S)
    BY <1>1
  <2>2. parts \in [1 .. Len(ranked) -> Seq(S)]
    BY <1>1, <2>1
  <2>3. QED
    BY <1>1, <2>2
<1>3. parts[1] = <<ranked[1]>>
  BY <1>1
<1>4. Len(parts) # 0 /\ parts[1] # <<>> /\ parts[1][1] = ranked[1]
  BY <1>2, <1>3
<1>5. Among(M, ranked) = FlattenSeq(parts)
  BY DEF Among
<1> HIDE DEF parts
<1>6. QED
  BY <1>2, <1>4, <1>5, FlattenHead

----------------------------------------------------------------------------
\* Protection.

\* Under a protecting policy whose suppressed memories are all labelled, every query
\* returns what a memory that never adapted would: nothing depends on the past.
THEOREM ProtectionCorrect == Spec => []ProtectedAsControl
<1>1. TypeOK => ProtectedAsControl
  <2> SUFFICES ASSUME TypeOK, state.policy.name = "protected-critical-recall",
                      state.derived.suppressed \subseteq Protected, NEW q \in Query
               PROVE  Hits(state, q) =
                        Hits([state EXCEPT !.policy.name = "pure-read", !.derived = NoDerived], q)
    BY DEF ProtectedAsControl
  <2> DEFINE policy  == [state.policy EXCEPT !.name = "pure-read"]
             control == [state EXCEPT !.policy = policy, !.derived = NoDerived]
  <2>1. state \in States
    BY DEF TypeOK
  <2>2. /\ control.time = state.time /\ control.policy = policy /\ control.derived = NoDerived
    BY <2>1 DEF States
  <2>3. policy.name = "pure-read"
    BY <2>1, PolicyAssumption DEF States
  <2> HIDE DEF policy, control
  <2>4. ASSUME NEW s, s.time = state.time, s.policy.name # "risi-shared-counter"
        PROVE  Ranked(s, q) = Among({m \in Memory : state.time \in Valid[m]}, q.candidates)
    BY <2>4 DEF Ranked, ProbeRanking
  <2>5. Ranked(control, q) = Ranked(state, q)
    BY <2>2, <2>3, <2>4
  <2>6. /\ state.derived.suppressed \ Spared(state) = {}
        /\ control.derived.suppressed \ Spared(control) = {}
    BY <2>2, <2>3 DEF Spared, NoDerived
  <2>7. Hits(control, q) = Hits(state, q)
    BY <2>5, <2>6 DEF Hits
  <2>8. QED
    BY <2>7 DEF control, policy
<1>2. QED
  BY <1>1, TypeCorrect, PTL
=============================================================================
