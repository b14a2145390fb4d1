----------------------- MODULE Statistics_proofs -----------------------
(***************************************************************************)
(* The statistics cache, for any users, courses, writers and readers and   *)
(* any choice of faults; statistic-service, which is the loop and the      *)
(* cache at once: every step of it is one of AttemptEvents or leaves the   *)
(* loop where it is, and one of StatisticCache or leaves the cache where   *)
(* it is.  What is proved about either carries over.                       *)
(*                                                                         *)
(* And the calibration of a course, for any students, tasks, topics, tags  *)
(* and attempts: sums over finite sets first, then division, rates and     *)
(* scores, shares, and how the averages move with an answer.               *)
(***************************************************************************)
EXTENDS StatisticPipeline, Calibration, FiniteSetTheorems, WellFoundedInduction, TLAPS

-----------------------------------------------------------------------------
(* StatisticCache *)

LEMMA KeysOfAreKeys ==
  ASSUME NEW u \in Users, NEW c \in Courses \cup {NoCourse}
  PROVE  KeysOf(u, c) \subseteq Keys
BY DEF KeysOf, Keys

LEMMA CacheInit == Init => CacheInv
BY EmptyAssumption
DEF Init, CacheInv, TypeOK, Value, FillAccurate, NeverAhead, StaleHasCause, Stale

\* A new row outdates exactly the keys that are then marked dirty or tainted,
\* and exactly the readers that are then marked as crossed.
LEMMA AddRowKeepsReaders ==
  ASSUME CacheInv, NEW u \in Users, NEW c \in Courses \cup {NoCourse},
         AddRow(u, c), UNCHANGED <<want, got>>
  PROVE  /\ count' \in [Keys -> Nat]
         /\ \A k \in Keys : count[k] <= count'[k]
         /\ \A k \in Keys \ KeysOf(u, c) : count'[k] = count[k]
         /\ crossed' \subseteq Readers
         /\ FillAccurate'
<1> USE DEF CacheInv, TypeOK
<1>1. /\ count' \in [Keys -> Nat]
      /\ \A k \in Keys : count[k] <= count'[k]
      /\ \A k \in Keys \ KeysOf(u, c) : count'[k] = count[k]
  BY DEF AddRow
<1>2. crossed' \subseteq Readers
  BY DEF AddRow
<1>3. ASSUME NEW r \in Readers, got'[r] # Empty
      PROVE  want'[r] \in Keys /\ (got'[r] = count'[want'[r]] \/ r \in crossed')
  <2>1. want[r] \in Keys /\ (got[r] = count[want[r]] \/ r \in crossed)
    BY <1>3 DEF FillAccurate
  <2>2. CASE want[r] \in KeysOf(u, c)
    BY <1>3, <2>1, <2>2 DEF AddRow
  <2>3. CASE want[r] \notin KeysOf(u, c)
    BY <1>1, <1>3, <2>1, <2>3 DEF AddRow
  <2> QED
    BY <2>2, <2>3
<1> QED
  BY <1>1, <1>2, <1>3 DEF FillAccurate

LEMMA CacheInsert ==
  ASSUME CacheInv, NEW w \in Writers, NEW u \in Users,
         NEW c \in Courses \cup {NoCourse},
         Insert(w, u, c) \/ InsertErrorAfterWrite(w, u, c)
  PROVE  CacheInv'
<1> USE DEF CacheInv
<1>1. /\ AddRow(u, c) /\ UNCHANGED <<cache, want, got>>
      /\ \/ /\ dirty' = [dirty EXCEPT ![w] = KeysOf(u, c)] /\ dirty[w] = {}
            /\ tainted' = tainted
         \/ dirty' = dirty /\ tainted' = tainted \cup KeysOf(u, c)
  BY DEF Insert, InsertErrorAfterWrite
<1>2. /\ count' \in [Keys -> Nat]
      /\ \A k \in Keys : count[k] <= count'[k]
      /\ \A k \in Keys \ KeysOf(u, c) : count'[k] = count[k]
      /\ crossed' \subseteq Readers
      /\ FillAccurate'
  BY <1>1, AddRowKeepsReaders
<1>3. TypeOK'
  BY <1>1, <1>2, KeysOfAreKeys DEF TypeOK
<1>4. NeverAhead'
  <2>1. ASSUME NEW k \in Keys, cache'[k] # Empty PROVE cache'[k] <= count'[k]
    <3>1. cache[k] \in Nat /\ cache[k] <= count[k]
      BY <1>1, <2>1 DEF TypeOK, Value, NeverAhead
    <3> QED
      BY <1>1, <1>2, <3>1 DEF TypeOK
  <2>2. ASSUME NEW r \in Readers, got'[r] # Empty
        PROVE  got'[r] <= count'[want'[r]]
    <3>1. /\ got[r] \in Nat /\ got[r] <= count[want[r]]
          /\ want[r] \in Keys
      BY <1>1, <2>2 DEF TypeOK, Value, NeverAhead, FillAccurate
    <3>2. count[want[r]] \in Nat /\ count'[want[r]] \in Nat
          /\ count[want[r]] <= count'[want[r]]
      BY <1>2, <3>1 DEF TypeOK
    <3> QED
      BY <1>1, <3>1, <3>2
  <2> QED
    BY <2>1, <2>2 DEF NeverAhead
<1>5. StaleHasCause'
  <2> SUFFICES ASSUME NEW k \in Keys, Stale(k)'
               PROVE  BeingInvalidated(k)' \/ k \in tainted'
    BY DEF StaleHasCause
  <2>1. CASE k \in KeysOf(u, c)
    BY <1>1, <2>1 DEF BeingInvalidated, TypeOK
  <2>2. CASE k \notin KeysOf(u, c)
    <3>1. Stale(k)
      BY <1>1, <1>2, <2>2 DEF Stale
    <3>2. BeingInvalidated(k) \/ k \in tainted
      BY <3>1 DEF StaleHasCause
    <3> QED
      BY <1>1, <3>2 DEF BeingInvalidated, TypeOK
  <2> QED
    BY <2>1, <2>2
<1> QED
  BY <1>2, <1>3, <1>4, <1>5

LEMMA CacheInvalidate ==
  ASSUME CacheInv, NEW w \in Writers, Invalidate(w) \/ InvalidateFails(w)
  PROVE  CacheInv'
<1> USE DEF CacheInv
<1>1. /\ UNCHANGED <<count, want, got, crossed>>
      /\ dirty' = [dirty EXCEPT ![w] = {}]
      /\ dirty[w] \subseteq Keys
  BY DEF Invalidate, InvalidateFails, TypeOK
<1>2. TypeOK'
  BY <1>1 DEF Invalidate, InvalidateFails, TypeOK, Value
<1>3. FillAccurate'
  BY <1>1 DEF FillAccurate
<1>4. NeverAhead'
  BY <1>1 DEF NeverAhead, Invalidate, InvalidateFails
<1>5. StaleHasCause'
  <2> SUFFICES ASSUME NEW k \in Keys, Stale(k)'
               PROVE  BeingInvalidated(k)' \/ k \in tainted'
    BY DEF StaleHasCause
  <2>1. Stale(k) /\ (k \in dirty[w] => k \in tainted')
    BY <1>1 DEF Stale, Invalidate, InvalidateFails
  <2>2. BeingInvalidated(k) \/ k \in tainted
    BY <2>1 DEF StaleHasCause
  <2>3. CASE k \in dirty[w]
    BY <2>1, <2>3
  <2>4. CASE k \notin dirty[w]
    <3>1. k \in tainted => k \in tainted'
      BY <2>4 DEF Invalidate, InvalidateFails
    <3>2. BeingInvalidated(k) => BeingInvalidated(k)'
      BY <1>1, <2>4 DEF BeingInvalidated, TypeOK
    <3> QED
      BY <2>2, <3>1, <3>2
  <2> QED
    BY <2>3, <2>4
<1> QED
  BY <1>2, <1>3, <1>4, <1>5

LEMMA CacheMissQuery ==
  ASSUME CacheInv, NEW r \in Readers,
         (\E k \in Keys : Miss(r, k)) \/ Query(r)
  PROVE  CacheInv'
<1> USE DEF CacheInv
<1>1. /\ UNCHANGED <<count, cache, dirty, crossed, tainted>>
      /\ \A q \in Readers \ {r} : want'[q] = want[q] /\ got'[q] = got[q]
      /\ want' \in [Readers -> Keys \cup {Empty}]
      /\ got' \in [Readers -> Value]
      /\ got'[r] # Empty => want'[r] \in Keys /\ got'[r] = count[want'[r]]
      /\ want'[r] = Empty => got'[r] = Empty
  <2>1. CASE Query(r)
    <3>1. want[r] \in Keys /\ count[want[r]] \in Nat
      BY <2>1 DEF Query, TypeOK
    <3> QED
      BY <2>1, <3>1 DEF Query, TypeOK, Value
  <2>2. CASE \E k \in Keys : Miss(r, k)
    <3>1. got[r] = Empty
      BY <2>2 DEF Miss, TypeOK
    <3> QED
      BY <2>2, <3>1 DEF Miss, TypeOK
  <2> QED
    BY <2>1, <2>2
<1>2. TypeOK'
  BY <1>1 DEF TypeOK
<1>3. FillAccurate'
  BY <1>1 DEF FillAccurate
<1>4. NeverAhead'
  BY <1>1 DEF NeverAhead, TypeOK
<1>5. StaleHasCause'
  BY <1>1 DEF StaleHasCause, Stale, BeingInvalidated
<1> QED
  BY <1>2, <1>3, <1>4, <1>5

LEMMA CacheReturn ==
  ASSUME CacheInv, NEW r \in Readers, QueryError(r) \/ Fill(r) \/ FillFails(r)
  PROVE  CacheInv'
<1> USE DEF CacheInv
<1>1. /\ UNCHANGED <<count, dirty>>
      /\ want' = [want EXCEPT ![r] = Empty]
      /\ got' = [got EXCEPT ![r] = Empty]
      /\ crossed' = crossed \ {r}
  BY DEF QueryError, Fill, FillFails, Return
<1>2. FillAccurate'
  BY <1>1 DEF FillAccurate, TypeOK
<1>3. CASE Fill(r)
  <2>1. /\ got[r] \in Nat /\ want[r] \in Keys
        /\ got[r] <= count[want[r]]
        /\ got[r] = count[want[r]] \/ r \in crossed
        /\ cache' = [cache EXCEPT ![want[r]] = got[r]]
        /\ tainted' = IF r \in crossed THEN tainted \cup {want[r]}
                                       ELSE tainted \ {want[r]}
    BY <1>3 DEF Fill, FillAccurate, NeverAhead, TypeOK, Value
  <2>2. TypeOK'
    BY <1>1, <2>1 DEF TypeOK, Value
  <2>3. NeverAhead'
    BY <1>1, <2>1 DEF NeverAhead, TypeOK
  <2>4. StaleHasCause'
    <3> SUFFICES ASSUME NEW k \in Keys, Stale(k)'
                 PROVE  BeingInvalidated(k)' \/ k \in tainted'
      BY DEF StaleHasCause
    <3>1. CASE k = want[r]
      BY <1>1, <2>1, <3>1 DEF Stale, TypeOK
    <3>2. CASE k # want[r]
      <4>1. Stale(k)
        BY <1>1, <2>1, <3>2 DEF Stale, TypeOK
      <4> QED
        BY <1>1, <2>1, <3>2, <4>1 DEF StaleHasCause, BeingInvalidated
    <3> QED
      BY <3>1, <3>2
  <2> QED
    BY <1>2, <2>2, <2>3, <2>4
<1>4. CASE QueryError(r) \/ FillFails(r)
  <2>1. UNCHANGED <<cache, tainted>>
    BY <1>4 DEF QueryError, FillFails
  <2>2. TypeOK'
    BY <1>1, <2>1 DEF TypeOK, Value
  <2>3. NeverAhead'
    BY <1>1, <2>1 DEF NeverAhead, TypeOK
  <2>4. StaleHasCause'
    BY <1>1, <2>1 DEF StaleHasCause, Stale, BeingInvalidated
  <2> QED
    BY <1>2, <2>2, <2>3, <2>4
<1> QED
  BY <1>3, <1>4

LEMMA CacheExpireCrash ==
  ASSUME CacheInv,
         \/ \E k \in Keys : Expire(k)
         \/ \E fills \in SUBSET Readers, deletes \in SUBSET Writers : Crash(fills, deletes)
  PROVE  CacheInv'
<1> USE DEF CacheInv
<1>1. ASSUME NEW fills \in SUBSET Readers, NEW deletes \in SUBSET Writers,
             Crash(fills, deletes)
      PROVE  CacheInv'
  <2>1. TypeOK'
    BY <1>1 DEF Crash, TypeOK, Value
  <2>2. FillAccurate' /\ NeverAhead'
    BY <1>1 DEF Crash, FillAccurate, NeverAhead
  <2>3. StaleHasCause'
    BY <1>1 DEF Crash, StaleHasCause, Stale, BeingInvalidated
  <2> QED
    BY <2>1, <2>2, <2>3
<1>2. ASSUME NEW k \in Keys, Expire(k) PROVE CacheInv'
  <2>1. TypeOK'
    BY <1>2 DEF Expire, TypeOK, Value
  <2>2. FillAccurate' /\ NeverAhead'
    BY <1>2 DEF Expire, FillAccurate, NeverAhead, TypeOK
  <2>3. StaleHasCause'
    BY <1>2 DEF Expire, StaleHasCause, Stale, BeingInvalidated, TypeOK
  <2> QED
    BY <2>1, <2>2, <2>3
<1> QED
  BY <1>1, <1>2

LEMMA CacheNext == CacheInv /\ [Next]_vars => CacheInv'
<1> SUFFICES ASSUME CacheInv, [Next]_vars PROVE CacheInv'
  OBVIOUS
<1>1. ASSUME NEW w \in Writers, WriterStep(w) PROVE CacheInv'
  BY <1>1, CacheInsert, CacheInvalidate DEF WriterStep
<1>2. ASSUME NEW r \in Readers, ReaderStep(r) PROVE CacheInv'
  BY <1>2, CacheMissQuery, CacheReturn DEF ReaderStep, ReaderFinish
<1>3. CASE \/ \E k \in Keys : Expire(k)
           \/ \E fills \in SUBSET Readers, deletes \in SUBSET Writers : Crash(fills, deletes)
  BY <1>3, CacheExpireCrash
<1>4. CASE UNCHANGED vars
  BY <1>4 DEF vars, CacheInv, TypeOK, FillAccurate, NeverAhead, StaleHasCause,
              Stale, BeingInvalidated
<1> QED
  BY <1>1, <1>2, <1>3, <1>4 DEF Next

THEOREM CacheInvariant == Spec => []CacheInv
<1> QED
  BY CacheInit, CacheNext, PTL DEF Spec

\* A stale entry is always explained: an invalidation on its way, lost, or
\* undone by a fill that read the table too early.
THEOREM StalenessExplained == Spec => []StaleHasCause
<1>1. CacheInv => StaleHasCause
  BY DEF CacheInv
<1> QED
  BY <1>1, CacheInvariant, PTL

\* Neither the cache nor a computation in progress runs ahead of the table.
THEOREM CacheNeverAhead == Spec => []NeverAhead
<1>1. CacheInv => NeverAhead
  BY DEF CacheInv
<1> QED
  BY <1>1, CacheInvariant, PTL

-----------------------------------------------------------------------------
(* StatisticPipeline *)

\* Every step is a step of the loop or leaves it alone.
LEMMA EventsStep == [PipelineNext]_pipelineVars => [Events!Next]_(Events!vars)
<1> SUFFICES ASSUME [PipelineNext]_pipelineVars PROVE [Events!Next]_(Events!vars)
  OBVIOUS
<1>1. CASE UNCHANGED events
  BY <1>1 DEF events, Events!vars
<1>2. CASE LoopStep
  <2>1. CASE EventStep
    BY <2>1 DEF EventStep, Events!Next, Events!Loop, Events!Process
  <2>2. ASSUME NEW p \in Partitions, FetchMessage(p) PROVE Events!Next
    BY <2>2 DEF FetchMessage, Events!Next, Events!Loop
  <2>3. ASSUME NEW w \in Writers, RecordAttempt(w) PROVE Events!Next
    BY <2>3 DEF RecordAttempt, Events!Next, Events!Loop
  <2>4. CASE RecordFails
    BY <2>4 DEF RecordFails, Events!Next, Events!Loop
  <2>5. CASE StopWaiting
    BY <1>1, <2>5 DEF StopWaiting
  <2>6. CASE Commit
    BY <2>6 DEF Commit, Events!Next, Events!Loop
  <2> QED BY <1>2, <2>1, <2>2, <2>3, <2>4, <2>5, <2>6 DEF LoopStep
<1>3. ASSUME NEW fills, NEW deletes, GoDown(fills, deletes) PROVE Events!Next
  BY <1>3 DEF GoDown, Events!Next, Events!Process
<1>4. \/ UNCHANGED events \/ LoopStep
      \/ \E fills \in SUBSET Readers, deletes \in SUBSET Writers : GoDown(fills, deletes)
  BY DEF PipelineNext, DeleteKeys, PostAttempt, Read, Ask, EntryExpires, loop, pipelineVars
<1> QED BY <1>1, <1>2, <1>3, <1>4

\* The loop, its log and its offsets behave as if it were alone, so whatever
\* AttemptEvents guarantees holds of statistic-service.
THEOREM RunsEvents == PipelineSpec => Events!Spec
<1>1. PipelineInit => Events!Init
  BY DEF PipelineInit
<1> QED BY <1>1, EventsStep, PTL DEF PipelineSpec, Events!Spec

-----------------------------------------------------------------------------

\* The message in hand lies in the log, so it is the answer of a user.
AnswerInHand ==
  /\ log \in [Partitions -> Seq(Answers)]
  /\ pos \in [Partitions -> Nat] /\ committed \in [Partitions -> Nat]
  /\ Events!Busy => cur.part \in Partitions /\ cur.off \in 1 .. Len(log[cur.part])

LEMMA AnswerInHandInitial == PipelineInit => AnswerInHand
  BY DEF PipelineInit, Events!Init, AnswerInHand, Events!Busy

LEMMA AnswerInHandStep == AnswerInHand /\ [Events!Next]_(Events!vars) => AnswerInHand'
<1> SUFFICES ASSUME AnswerInHand, [Events!Next]_(Events!vars) PROVE AnswerInHand'
  OBVIOUS
<1> USE DEF AnswerInHand, Events!Busy
<1>1. ASSUME UNCHANGED <<log, pos, committed>>, cpc' \in {"fetch", "stopped", "down"} \/ UNCHANGED <<cpc, cur>>
      PROVE  AnswerInHand'
  BY <1>1
<1>2. CASE Events!Producer
  <2>1. /\ UNCHANGED <<committed, pos, cpc, cur>>
        /\ \/ UNCHANGED log
           \/ \E a \in Answers, p \in Partitions : log' = [log EXCEPT ![p] = Append(@, a)]
    BY <1>2 DEF Events!Producer, Events!Publish, Events!PublishLost, Events!BrokerAppend
  <2>2. ASSUME NEW a \in Answers, NEW p \in Partitions, log' = [log EXCEPT ![p] = Append(@, a)]
        PROVE  /\ log' \in [Partitions -> Seq(Answers)]
               /\ \A q \in Partitions : 1 .. Len(log[q]) \subseteq 1 .. Len(log'[q])
    BY <2>2
  <2> QED BY <2>1, <2>2
<1>3. ASSUME NEW p \in Partitions, Events!Fetch(p) PROVE AnswerInHand'
  <2>1. /\ pos[p] < Len(log[p]) /\ pos' = [pos EXCEPT ![p] = @ + 1]
        /\ cur' = [part |-> p, off |-> pos[p] + 1] /\ UNCHANGED <<log, committed>>
    BY <1>3 DEF Events!Fetch, Events!Msg, Events!broker
  <2>2. pos[p] + 1 \in 1 .. Len(log[p]) /\ pos' \in [Partitions -> Nat]
    BY <2>1
  <2> QED BY <2>1, <2>2
<1>4. CASE Events!ResolveTask \/ Events!AddAttempt
  BY <1>4 DEF Events!ResolveTask, Events!AddAttempt, Events!broker
<1>5. CASE Events!FetchError \/ \E written \in BOOLEAN : Events!HandlerError(written)
  BY <1>1, <1>5 DEF Events!FetchError, Events!HandlerError, Events!broker
<1>6. CASE Events!CommitMessages \/ \E applied \in BOOLEAN : Events!CommitError(applied)
  <2>1. /\ UNCHANGED <<log, pos>> /\ cpc = "commit" /\ cpc' \in {"fetch", "stopped"}
        /\ UNCHANGED committed \/ committed' = [committed EXCEPT ![cur.part] = cur.off]
    BY <1>6 DEF Events!CommitMessages, Events!CommitError, Events!broker
  <2>2. cur.part \in Partitions /\ cur.off \in Nat
    BY <2>1
  <2>3. committed' \in [Partitions -> Nat]
    BY <2>1, <2>2
  <2> QED BY <2>1, <2>3
<1>7. CASE Events!Process
  BY <1>7 DEF Events!Process, Events!Crash, Events!Restart, Events!Rejoin, Events!broker
<1>8. CASE UNCHANGED Events!vars
  BY <1>1, <1>8 DEF Events!vars
<1> QED BY <1>2, <1>3, <1>4, <1>5, <1>6, <1>7, <1>8 DEF Events!Next, Events!Loop

LEMMA AnswerKnown ==
  ASSUME AnswerInHand, Events!Busy
  PROVE  UserOf[Answer] \in Users /\ CourseOf[Answer] \in Courses \cup {NoCourse}
<1>1. Answer \in Answers
  BY DEF AnswerInHand, Answer
<1> QED BY <1>1, AnswersAssumption

-----------------------------------------------------------------------------

\* Every step is a step of the cache or leaves it alone.
LEMMA CacheStep == AnswerInHand /\ [PipelineNext]_pipelineVars => [Next]_vars
<1> SUFFICES ASSUME AnswerInHand, [PipelineNext]_pipelineVars PROVE [Next]_vars
  OBVIOUS
<1>1. CASE LoopStep
  <2>1. CASE EventStep \/ StopWaiting \/ Commit \/ \E p \in Partitions : FetchMessage(p)
    BY <2>1 DEF EventStep, StopWaiting, Commit, FetchMessage
  <2>2. ASSUME NEW w \in Writers, RecordAttempt(w) PROVE Next
    <3>1. Events!Busy /\ Insert(w, UserOf[Answer], CourseOf[Answer])
      BY <2>2 DEF RecordAttempt, Events!AddAttempt, Events!Busy
    <3> QED BY <3>1, AnswerKnown DEF Next, WriterStep
  <2>3. CASE RecordFails
    <3>1. ASSUME NEW w \in Writers, Events!HandlerError(TRUE),
                 InsertErrorAfterWrite(w, UserOf[Answer], CourseOf[Answer])
          PROVE  Next
      <4>1. Events!Busy
        BY <3>1 DEF Events!HandlerError, Events!Busy
      <4> QED BY <3>1, <4>1, AnswerKnown DEF Next, WriterStep
    <3> QED BY <2>3, <3>1 DEF RecordFails
  <2> QED BY <1>1, <2>1, <2>2, <2>3 DEF LoopStep
<1>2. ASSUME NEW w \in Writers,
             DeleteKeys(w) \/ \E u \in Users, c \in Courses \cup {NoCourse} : PostAttempt(w, u, c)
      PROVE  Next
  BY <1>2 DEF DeleteKeys, PostAttempt, Next, WriterStep
<1>3. ASSUME NEW r \in Readers, Read(r) \/ \E k \in Keys : Ask(r, k) PROVE Next
  BY <1>3 DEF Read, Ask, Next, ReaderStep
<1>4. ASSUME NEW k \in Keys, EntryExpires(k) PROVE Next
  BY <1>4 DEF EntryExpires, Next
<1>5. ASSUME NEW fills \in SUBSET Readers, NEW deletes \in SUBSET Writers, GoDown(fills, deletes)
      PROVE  Next
  BY <1>5 DEF GoDown, Next
<1>6. CASE UNCHANGED pipelineVars
  BY <1>6 DEF pipelineVars
<1> QED BY <1>1, <1>2, <1>3, <1>4, <1>5, <1>6 DEF PipelineNext

\* The cache, its writers and its readers behave as StatisticCache allows, the
\* consumer being one of the writers.
THEOREM RunsCache == PipelineSpec => Spec
<1>1. PipelineInit => Init
  BY DEF PipelineInit
<1> QED BY <1>1, AnswerInHandInitial, AnswerInHandStep, EventsStep, CacheStep, PTL DEF PipelineSpec, Spec

LEMMA AwaitedStep == AwaitedTypeOK /\ [PipelineNext]_pipelineVars => AwaitedTypeOK'
<1> SUFFICES ASSUME AwaitedTypeOK, [PipelineNext]_pipelineVars PROVE AwaitedTypeOK'
  OBVIOUS
<1> USE DEF AwaitedTypeOK
<1>1. CASE EventStep
  BY <1>1 DEF EventStep, Events!Producer, Events!Publish, Events!PublishLost, Events!BrokerAppend,
              Events!Restart, Events!Rejoin, Events!FetchError, Events!ResolveTask
<1>2. ASSUME NEW p \in Partitions, FetchMessage(p) PROVE AwaitedTypeOK'
  BY <1>2 DEF FetchMessage, Events!Fetch
<1>3. ASSUME NEW w \in Writers, RecordAttempt(w) PROVE AwaitedTypeOK'
  BY <1>3 DEF RecordAttempt, Events!AddAttempt
<1>4. CASE RecordFails
  BY <1>4 DEF RecordFails, Events!HandlerError
<1>5. CASE StopWaiting \/ Commit
  BY <1>5 DEF StopWaiting, Commit
<1>6. ASSUME NEW fills, NEW deletes, GoDown(fills, deletes) PROVE AwaitedTypeOK'
  BY <1>6 DEF GoDown
<1>7. CASE UNCHANGED loop
  BY <1>7 DEF loop, events
<1> QED BY <1>1, <1>2, <1>3, <1>4, <1>5, <1>6, <1>7
        DEF PipelineNext, LoopStep, DeleteKeys, PostAttempt, Read, Ask, EntryExpires, pipelineVars

\* What StatisticCache promises holds of the whole service, whose loop may
\* record a message twice, stop, and come back.
THEOREM StatisticsInvariant == PipelineSpec => []StatisticsInv
<1>1. PipelineInit => AwaitedTypeOK
  BY DEF PipelineInit, AwaitedTypeOK
<1>2. PipelineSpec => []AwaitedTypeOK
  BY <1>1, AwaitedStep, PTL DEF PipelineSpec
<1>3. PipelineSpec => []CacheInv
  BY RunsCache, CacheInvariant, PTL
<1> QED BY <1>2, <1>3, PTL DEF StatisticsInv

\* A committed message shows in the statistics, but for deletes that are late,
\* lost or undone.
THEOREM CommitsAreShown == PipelineSpec => CommittedIsShown
<1>1. StatisticsInv /\ [PipelineNext]_pipelineVars =>
        [committed' # committed =>
           \A k \in Keys :
             Stale(k) => k \in tainted \/ \E w \in Writers \ {awaited} : k \in dirty[w]]_pipelineVars
  <2> SUFFICES ASSUME StatisticsInv, PipelineNext, committed' # committed, NEW k \in Keys, Stale(k)
               PROVE  k \in tainted \/ \E w \in Writers \ {awaited} : k \in dirty[w]
    OBVIOUS
  <2>1. k \in tainted \/ \E w \in Writers : k \in dirty[w]
    BY DEF StatisticsInv, CacheInv, StaleHasCause, BeingInvalidated
  <2>2. Commit
    <3>1. CASE EventStep
      BY <3>1 DEF EventStep, Events!Producer, Events!Publish, Events!PublishLost, Events!BrokerAppend,
                  Events!Restart, Events!Rejoin, Events!FetchError, Events!ResolveTask, Events!broker
    <3>2. ASSUME NEW p \in Partitions, FetchMessage(p) PROVE FALSE
      BY <3>2 DEF FetchMessage, Events!Fetch
    <3>3. ASSUME NEW w \in Writers, RecordAttempt(w) PROVE FALSE
      BY <3>3 DEF RecordAttempt, Events!AddAttempt
    <3>4. CASE RecordFails
      BY <3>4 DEF RecordFails, Events!HandlerError
    <3>5. CASE StopWaiting
      BY <3>5 DEF StopWaiting, events
    <3>6. ASSUME NEW fills, NEW deletes, GoDown(fills, deletes) PROVE FALSE
      BY <3>6 DEF GoDown, Events!Crash
    <3>7. CASE UNCHANGED loop
      BY <3>7 DEF loop, events
    <3> QED BY <3>1, <3>2, <3>3, <3>4, <3>5, <3>6, <3>7
            DEF PipelineNext, LoopStep, DeleteKeys, PostAttempt, Read, Ask, EntryExpires
  <2>3. ASSUME NEW w \in Writers, k \in dirty[w] PROVE w # awaited
    BY <2>2, <2>3, NoWriterAssumption DEF Commit
  <2> QED BY <2>1, <2>3
<1> QED BY <1>1, StatisticsInvariant, PTL DEF PipelineSpec, CommittedIsShown

-----------------------------------------------------------------------------
(* Calibration: sums over finite sets. *)

\* The recursion of SumFunction: the sum over each subset of the domain.
PartialSums(f) ==
  LET iter[s \in SUBSET DOMAIN f] ==
        IF s = {} THEN 0 ELSE LET x == CHOOSE x \in s : TRUE IN f[x] + iter[s \ {x}]
  IN  iter

NextSum(f, g, s) ==
  IF s = {} THEN 0 ELSE f[CHOOSE x \in s : TRUE] + g[s \ {CHOOSE x \in s : TRUE}]

LEMMA SumIsPartial ==
  ASSUME NEW f
  PROVE  SumFunction(f) = PartialSums(f)[DOMAIN f]
BY DEF SumFunction, SumFunctionOnSet, FoldFunctionOnSet, MapThenFoldSet, PartialSums

\* The recursion is well-founded, so it defines what it says.
LEMMA PartialSumsDef ==
  ASSUME NEW f, IsFiniteSet(DOMAIN f)
  PROVE  PartialSums(f) = [s \in SUBSET DOMAIN f |-> NextSum(f, PartialSums(f), s)]
<1> DEFINE S == SUBSET DOMAIN f
           R == StrictSubsetOrdering(DOMAIN f)
           sums == PartialSums(f)
<1>1. IsWellFoundedOn(R, S)
  BY FS_StrictSubsetOrderingWellFounded, FS_FiniteSubsetsOfFinite
<1>2. WFDefOn(R, S, LAMBDA g, s : NextSum(f, g, s))
  <2> SUFFICES ASSUME NEW g, NEW h, NEW s \in S, \A y \in SetLessThan(s, R, S) : g[y] = h[y]
               PROVE  NextSum(f, g, s) = NextSum(f, h, s)
    BY DEF WFDefOn
  <2>1. CASE s = {}
    BY <2>1 DEF NextSum
  <2>2. CASE s # {}
    <3> DEFINE x == CHOOSE x \in s : TRUE
    <3>1. x \in s
      BY <2>2
    <3>2. s \ {x} \in SetLessThan(s, R, S)
      <4> HIDE DEF x
      <4> QED BY <3>1 DEF SetLessThan, StrictSubsetOrdering
    <3> QED BY <2>2, <3>2 DEF NextSum
  <2> QED BY <2>1, <2>2
<1>3. OpDefinesFcn(sums, S, LAMBDA g, s : NextSum(f, g, s))
  BY DEF OpDefinesFcn, PartialSums, NextSum
<1> HIDE DEF S, R, sums
<1>4. WFInductiveDefines(sums, S, LAMBDA g, s : NextSum(f, g, s))
  BY ONLY <1>1, <1>2, <1>3, WFInductiveDef, Zenon
<1>5. sums = [s \in S |-> NextSum(f, sums, s)]
  BY <1>4 DEF WFInductiveDefines
<1> QED BY <1>5 DEF sums, S

\* What passes from a finite set without any one element to the set holds of
\* every subset.
LEMMA SubsetInduction ==
  ASSUME NEW D, IsFiniteSet(D), NEW G,
         \A s \in SUBSET D : (\A x \in s : s \ {x} \in G) => s \in G
  PROVE  SUBSET D \subseteq G
<1> DEFINE S == SUBSET D
           R == StrictSubsetOrdering(D)
           T == S \ G
<1> SUFFICES ASSUME T # {} PROVE FALSE
  OBVIOUS
<1>1. IsWellFoundedOn(R, S)
  <2>1. IsWellFoundedOn(R, FiniteSubsetsOf(D))
    BY FS_StrictSubsetOrderingWellFounded
  <2>2. FiniteSubsetsOf(D) = S
    BY FS_FiniteSubsetsOfFinite
  <2> QED BY <2>1, <2>2
<1>2. PICK s \in T : \A y \in T : <<y, s>> \notin R
  <2>1. T \subseteq S
    OBVIOUS
  <2> HIDE DEF S, R, T
  <2> QED BY <1>1, <2>1, WFMin
<1>3. PICK x \in s : s \ {x} \notin G
  OBVIOUS
<1>4. s \ {x} \in T /\ <<s \ {x}, s>> \in R
  BY <1>3 DEF StrictSubsetOrdering
<1> QED BY <1>2, <1>4

TypedSums(f) == \A s \in SUBSET DOMAIN f : PartialSums(f)[s] \in Int
AnySummandFirst(f) ==
  \A s \in SUBSET DOMAIN f : \A x \in s : PartialSums(f)[s] = f[x] + PartialSums(f)[s \ {x}]

\* The order in which a sum takes its summands does not matter.
LEMMA PartialSumsAnyOrder ==
  ASSUME NEW D, IsFiniteSet(D), NEW f \in [D -> Int]
  PROVE  PartialSums(f)[{}] = 0 /\ TypedSums(f) /\ AnySummandFirst(f)
<1> DEFINE sums == PartialSums(f)
           Typed == {s \in SUBSET D : sums[s] \in Int}
           AnyOrder == {s \in SUBSET D : \A x \in s : sums[s] = f[x] + sums[s \ {x}]}
<1>1. \A s \in SUBSET D : sums[s] = NextSum(f, sums, s)
  <2>1. DOMAIN f = D
    OBVIOUS
  <2>2. sums = [s \in SUBSET D |-> NextSum(f, sums, s)]
    BY <2>1, PartialSumsDef
  <2> HIDE DEF sums
  <2> QED BY <2>2
<1> HIDE DEF sums
<1>2. sums[{}] = 0
  BY <1>1 DEF NextSum
<1>3. ASSUME NEW s \in SUBSET D, s # {}
      PROVE  \E c \in s : sums[s] = f[c] + sums[s \ {c}]
  BY <1>1, <1>3 DEF NextSum
<1>4. \A s \in SUBSET D : sums[s] \in Int
  <2>1. ASSUME NEW s \in SUBSET D, \A x \in s : s \ {x} \in Typed PROVE s \in Typed
    <3>1. CASE s = {}
      BY <3>1, <1>2
    <3>2. CASE s # {}
      <4>1. PICK c \in s : sums[s] = f[c] + sums[s \ {c}]
        BY <3>2, <1>3
      <4>2. sums[s \ {c}] \in Int /\ f[c] \in Int
        BY <2>1, <4>1
      <4> QED BY <4>1, <4>2
    <3> QED BY <3>1, <3>2
  <2>2. SUBSET D \subseteq Typed
    <3> HIDE DEF Typed
    <3> QED BY <2>1, SubsetInduction
  <2> QED BY <2>2
<1>5. \A s \in SUBSET D : \A x \in s : sums[s] = f[x] + sums[s \ {x}]
  <2>1. ASSUME NEW s \in SUBSET D, \A x \in s : s \ {x} \in AnyOrder PROVE s \in AnyOrder
    <3> SUFFICES ASSUME NEW x \in s PROVE sums[s] = f[x] + sums[s \ {x}]
      OBVIOUS
    <3>1. PICK c \in s : sums[s] = f[c] + sums[s \ {c}]
      BY <1>3
    <3> DEFINE rest == (s \ {c}) \ {x}
    <3>2. CASE x # c
      <4>1. sums[s \ {c}] = f[x] + sums[rest]
        BY <2>1, <3>2
      <4>2. sums[s \ {x}] = f[c] + sums[(s \ {x}) \ {c}]
        BY <2>1, <3>2
      <4>3. rest = (s \ {x}) \ {c} /\ rest \in SUBSET D
        OBVIOUS
      <4>4. f[x] \in Int /\ f[c] \in Int /\ sums[rest] \in Int
        BY <1>4, <4>3
      <4>5. sums[s \ {x}] = f[c] + sums[rest]
        BY <4>2, <4>3
      <4> HIDE DEF rest
      <4> QED BY <3>1, <4>1, <4>4, <4>5
    <3> QED BY <3>1, <3>2
  <2>2. SUBSET D \subseteq AnyOrder
    <3> HIDE DEF AnyOrder
    <3> QED BY <2>1, SubsetInduction
  <2> QED BY <2>2
<1> QED BY <1>2, <1>4, <1>5 DEF sums, TypedSums, AnySummandFirst

\* The sum of a restriction is a partial sum of the whole.
LEMMA PartialSumsRestricted ==
  ASSUME NEW D, IsFiniteSet(D), NEW f \in [D -> Int], NEW E \in SUBSET D
  PROVE  SumFunction([x \in E |-> f[x]]) = PartialSums(f)[E]
<1> DEFINE g == [x \in E |-> f[x]]
           Equal == {s \in SUBSET E : PartialSums(g)[s] = PartialSums(f)[s]}
<1>1. IsFiniteSet(E)
  BY FS_Subset
<1>2. g \in [E -> Int] /\ DOMAIN g = E
  OBVIOUS
<1>3. PartialSums(g)[{}] = 0 /\ PartialSums(f)[{}] = 0
  BY <1>1, <1>2, PartialSumsAnyOrder
<1>4. \A s \in SUBSET E : \A x \in s :
        /\ PartialSums(g)[s] = g[x] + PartialSums(g)[s \ {x}]
        /\ PartialSums(f)[s] = f[x] + PartialSums(f)[s \ {x}]
  <2> HIDE DEF g, Equal
  <2>1. AnySummandFirst(g) /\ AnySummandFirst(f)
    BY <1>1, <1>2, PartialSumsAnyOrder
  <2>2. DOMAIN g = E /\ DOMAIN f = D
    BY <1>2
  <2> QED BY <2>1, <2>2 DEF AnySummandFirst
<1>5. ASSUME NEW s \in SUBSET E, \A x \in s : s \ {x} \in Equal PROVE s \in Equal
  <2>1. CASE s = {}
    BY <2>1, <1>3
  <2>2. CASE s # {}
    <3>1. PICK x \in s : TRUE
      BY <2>2
    <3>2. PartialSums(g)[s \ {x}] = PartialSums(f)[s \ {x}] /\ g[x] = f[x]
      BY <1>5, <3>1
    <3>3. PartialSums(g)[s] = g[x] + PartialSums(g)[s \ {x}]
      BY <1>4, <3>1
    <3>4. PartialSums(f)[s] = f[x] + PartialSums(f)[s \ {x}]
      BY <1>4, <3>1
    <3> QED BY <3>2, <3>3, <3>4
  <2> QED BY <2>1, <2>2
<1>6. SUBSET E \subseteq Equal
  <2> HIDE DEF Equal
  <2> QED BY <1>1, <1>5, SubsetInduction
<1>7. PartialSums(g)[E] = PartialSums(f)[E]
  BY <1>6
<1> HIDE DEF g
<1>8. SumFunction(g) = PartialSums(g)[DOMAIN g]
  BY SumIsPartial
<1>9. SumFunction(g) = PartialSums(f)[E]
  BY <1>2, <1>7, <1>8
<1> QED BY <1>9 DEF g

\* What a sum is, in the form every proof below uses: a number, 0 of nothing,
\* and any summand can be taken out.
LEMMA SumFacts ==
  ASSUME NEW D, IsFiniteSet(D), NEW f \in [D -> Int]
  PROVE  /\ SumFunction(f) \in Int
         /\ D = {} => SumFunction(f) = 0
         /\ \A x \in D : SumFunction(f) = f[x] + SumFunction([y \in D \ {x} |-> f[y]])
<1>1. DOMAIN f = D
  OBVIOUS
<1>2. SumFunction(f) = PartialSums(f)[D]
  BY <1>1, SumIsPartial
<1>3. \A x \in D : SumFunction([y \in D \ {x} |-> f[y]]) = PartialSums(f)[D \ {x}]
  BY PartialSumsRestricted
<1>4. D \in SUBSET D
  OBVIOUS
<1>5. /\ PartialSums(f)[D] \in Int
      /\ \A x \in D : PartialSums(f)[D] = f[x] + PartialSums(f)[D \ {x}]
      /\ PartialSums(f)[{}] = 0
  <2>1. PartialSums(f)[{}] = 0 /\ TypedSums(f) /\ AnySummandFirst(f)
    BY PartialSumsAnyOrder
  <2> QED BY <1>1, <1>4, <2>1 DEF TypedSums, AnySummandFirst
<1> QED BY <1>2, <1>3, <1>5

\* The same for every part of the domain.
LEMMA PartFacts ==
  ASSUME NEW D, IsFiniteSet(D), NEW f \in [D -> Int]
  PROVE  /\ Restrict(f, D) = f
         /\ \A s \in SUBSET D :
              /\ SumFunction(Restrict(f, s)) \in Int
              /\ s = {} => SumFunction(Restrict(f, s)) = 0
              /\ \A x \in s : SumFunction(Restrict(f, s)) = f[x] + SumFunction(Restrict(f, s \ {x}))
<1>1. Restrict(f, D) = f
  BY DEF Restrict
<1>2. ASSUME NEW s \in SUBSET D
      PROVE  /\ SumFunction(Restrict(f, s)) \in Int
             /\ s = {} => SumFunction(Restrict(f, s)) = 0
             /\ \A x \in s : SumFunction(Restrict(f, s)) = f[x] + SumFunction(Restrict(f, s \ {x}))
  <2> DEFINE g == Restrict(f, s)
  <2>1. IsFiniteSet(s)
    BY FS_Subset
  <2>2. g \in [s -> Int] /\ \A x \in s : g[x] = f[x]
    BY DEF Restrict
  <2>3. \A x \in s : [y \in s \ {x} |-> g[y]] = Restrict(f, s \ {x})
    BY <2>2 DEF Restrict
  <2> HIDE DEF g
  <2>4. /\ SumFunction(g) \in Int
        /\ s = {} => SumFunction(g) = 0
        /\ \A x \in s : SumFunction(g) = g[x] + SumFunction([y \in s \ {x} |-> g[y]])
    <3>1. g \in [s -> Int]
      BY <2>2
    <3> QED BY ONLY <2>1, <3>1, SumFacts
  <2>5. \A x \in s : SumFunction(g) = f[x] + SumFunction(Restrict(f, s \ {x}))
    BY <2>2, <2>3, <2>4
  <2> QED BY <2>4, <2>5 DEF g
<1> QED BY <1>1, <1>2

\* Greater summands, greater sum.
LEMMA SumMonotone ==
  ASSUME NEW D, IsFiniteSet(D), NEW f \in [D -> Int], NEW g \in [D -> Int],
         \A x \in D : f[x] <= g[x]
  PROVE  SumFunction(f) <= SumFunction(g)
<1> DEFINE F(s) == SumFunction(Restrict(f, s))
           H(s) == SumFunction(Restrict(g, s))
           Below == {s \in SUBSET D : F(s) <= H(s)}
<1>1. \A s \in SUBSET D : /\ F(s) \in Int /\ H(s) \in Int
                          /\ s = {} => F(s) = 0 /\ H(s) = 0
                          /\ \A x \in s : F(s) = f[x] + F(s \ {x}) /\ H(s) = g[x] + H(s \ {x})
  BY PartFacts
<1>2. F(D) = SumFunction(f) /\ H(D) = SumFunction(g)
  BY PartFacts
<1> HIDE DEF F, H
<1>3. ASSUME NEW s \in SUBSET D, \A x \in s : s \ {x} \in Below PROVE s \in Below
  <2>1. CASE s = {}
    BY <2>1, <1>1
  <2>2. CASE s # {}
    <3>1. PICK x \in s : TRUE
      BY <2>2
    <3>2. F(s \ {x}) <= H(s \ {x}) /\ s \ {x} \in SUBSET D
      BY <1>3
    <3>3. F(s) = f[x] + F(s \ {x}) /\ H(s) = g[x] + H(s \ {x})
      BY <1>1
    <3>4. F(s \ {x}) \in Int /\ H(s \ {x}) \in Int
      BY <1>1, <3>2
    <3>5. f[x] \in Int /\ g[x] \in Int /\ f[x] <= g[x]
      OBVIOUS
    <3>6. F(s) <= H(s)
      BY <3>2, <3>3, <3>4, <3>5
    <3> QED BY <3>6
  <2> QED BY <2>1, <2>2
<1>4. SUBSET D \subseteq Below
  <2> HIDE DEF Below
  <2> QED BY <1>3, SubsetInduction
<1> QED BY <1>2, <1>4

\* A sum is linear, and a constant counts once per element.
LEMMA SumAffine ==
  ASSUME NEW D, IsFiniteSet(D), NEW f \in [D -> Int], NEW a \in Int, NEW b \in Int
  PROVE  SumFunction([x \in D |-> a * f[x] + b]) = a * SumFunction(f) + b * Cardinality(D)
<1> DEFINE g == [x \in D |-> a * f[x] + b]
           F(s) == SumFunction(Restrict(f, s))
           H(s) == SumFunction(Restrict(g, s))
           Good == {s \in SUBSET D : H(s) = a * F(s) + b * Cardinality(s)}
<1>0. g \in [D -> Int] /\ \A x \in D : g[x] = a * f[x] + b
  OBVIOUS
<1> HIDE DEF g
<1>1. \A s \in SUBSET D : /\ F(s) \in Int /\ H(s) \in Int
                          /\ s = {} => F(s) = 0 /\ H(s) = 0
                          /\ \A x \in s : F(s) = f[x] + F(s \ {x}) /\ H(s) = g[x] + H(s \ {x})
  BY <1>0, PartFacts
<1>2. F(D) = SumFunction(f) /\ H(D) = SumFunction(g)
  BY <1>0, PartFacts
<1> HIDE DEF F, H
<1>3. ASSUME NEW s \in SUBSET D, \A x \in s : s \ {x} \in Good PROVE s \in Good
  <2>1. CASE s = {}
    BY <2>1, <1>1, FS_EmptySet
  <2>2. CASE s # {}
    <3>1. PICK x \in s : TRUE
      BY <2>2
    <3>2. H(s \ {x}) = a * F(s \ {x}) + b * Cardinality(s \ {x}) /\ s \ {x} \in SUBSET D
      BY <1>3
    <3>3. F(s) = f[x] + F(s \ {x}) /\ H(s) = g[x] + H(s \ {x})
      BY <1>1
    <3>4. F(s \ {x}) \in Int /\ H(s \ {x}) \in Int
      BY <1>1, <3>2
    <3>5. f[x] \in Int /\ g[x] = a * f[x] + b
      BY <1>0
    <3>6. IsFiniteSet(s) /\ Cardinality(s) \in Nat
      BY FS_Subset, FS_CardinalityType
    <3>7. Cardinality(s \ {x}) = Cardinality(s) - 1
      BY <3>1, <3>6, FS_RemoveElement
    <3> DEFINE n == Cardinality(s)
               r == F(s \ {x})
               v == f[x]
    <3>8. H(s) = (a * v + b) + (a * r + b * (n - 1)) /\ F(s) = v + r
      BY <3>2, <3>3, <3>5, <3>7
    <3>9. n \in Int /\ r \in Int /\ v \in Int
      BY <3>4, <3>5, <3>6
    <3> HIDE DEF n, r, v
    <3>10. (a * v + b) + (a * r + b * (n - 1)) = a * (v + r) + b * n
      BY <3>9
    <3>11. H(s) = a * F(s) + b * n
      BY <3>8, <3>10
    <3> QED BY <3>11 DEF n
  <2> QED BY <2>1, <2>2
<1>4. SUBSET D \subseteq Good
  <2> HIDE DEF Good
  <2> QED BY <1>3, SubsetInduction
<1>5. H(D) = a * F(D) + b * Cardinality(D)
  BY <1>4
<1>6. SumFunction(g) = a * SumFunction(f) + b * Cardinality(D)
  BY <1>2, <1>5
<1> QED BY <1>6 DEF g

\* A sum of naturals is at least each of them.
LEMMA SumOfNats ==
  ASSUME NEW D, IsFiniteSet(D), NEW f \in [D -> Nat]
  PROVE  SumFunction(f) \in Nat /\ \A x \in D : f[x] <= SumFunction(f)
<1>1. ASSUME NEW E, IsFiniteSet(E), NEW g \in [E -> Nat]
      PROVE  SumFunction(g) \in Nat
  <2> DEFINE zero == [x \in E |-> 0 * g[x] + 0]
  <2>1. g \in [E -> Int] /\ zero \in [E -> Int] /\ \A x \in E : zero[x] = 0
    OBVIOUS
  <2>2. Cardinality(E) \in Nat /\ SumFunction(g) \in Int
    BY <1>1, <2>1, FS_CardinalityType, SumFacts
  <2>3. SumFunction(zero) = 0 * SumFunction(g) + 0 * Cardinality(E)
    BY <1>1, <2>1, SumAffine
  <2>4. \A x \in E : zero[x] <= g[x]
    BY <2>1
  <2> HIDE DEF zero
  <2>5. SumFunction(zero) <= SumFunction(g)
    BY <1>1, <2>1, <2>4, SumMonotone
  <2> QED BY <2>2, <2>3, <2>5
<1>2. ASSUME NEW x \in D PROVE f[x] <= SumFunction(f)
  <2> DEFINE rest == [y \in D \ {x} |-> f[y]]
  <2>1. rest \in [D \ {x} -> Nat] /\ IsFiniteSet(D \ {x})
    BY FS_RemoveElement
  <2>2. SumFunction(rest) \in Nat
    <3> HIDE DEF rest
    <3> QED BY <1>1, <2>1
  <2>3. SumFunction(f) = f[x] + SumFunction(rest)
    BY SumFacts
  <2> HIDE DEF rest
  <2> QED BY <2>2, <2>3
<1> QED BY <1>1, <1>2

\* One summand changes; or one is added.
LEMMA SumUpdate ==
  ASSUME NEW D, IsFiniteSet(D), NEW f \in [D -> Int], NEW g \in [D -> Int],
         NEW x \in D, \A y \in D \ {x} : g[y] = f[y]
  PROVE  SumFunction(g) = SumFunction(f) + (g[x] - f[x])
<1> DEFINE rest == [y \in D \ {x} |-> f[y]]
<1>1. rest = [y \in D \ {x} |-> g[y]]
  OBVIOUS
<1>2. SumFunction(f) = f[x] + SumFunction(rest)
  BY SumFacts
<1>3. SumFunction(g) = g[x] + SumFunction(rest)
  BY <1>1, SumFacts
<1>4. rest \in [D \ {x} -> Int] /\ IsFiniteSet(D \ {x})
  BY FS_RemoveElement
<1> HIDE DEF rest
<1>5. SumFunction(rest) \in Int
  BY <1>4, SumFacts
<1>6. f[x] \in Int /\ g[x] \in Int
  OBVIOUS
<1> QED BY <1>2, <1>3, <1>5, <1>6

LEMMA SumExtend ==
  ASSUME NEW D, IsFiniteSet(D), NEW f \in [D -> Int], NEW x, x \notin D,
         NEW g \in [D \cup {x} -> Int], \A y \in D : g[y] = f[y]
  PROVE  SumFunction(g) = SumFunction(f) + g[x]
<1>1. f = [y \in (D \cup {x}) \ {x} |-> g[y]]
  <2>1. (D \cup {x}) \ {x} = D
    OBVIOUS
  <2> QED BY <2>1
<1>2. IsFiniteSet(D \cup {x})
  BY FS_AddElement
<1>3. SumFunction(g) = g[x] + SumFunction([y \in (D \cup {x}) \ {x} |-> g[y]])
  BY <1>2, SumFacts
<1>4. SumFunction(g) = g[x] + SumFunction(f)
  BY <1>1, <1>3
<1>5. SumFunction(f) \in Int /\ g[x] \in Int
  BY SumFacts
<1> QED BY <1>4, <1>5

-----------------------------------------------------------------------------
(* Division. *)

\* A quotient is the greatest number of times the divisor fits.
LEMMA DivFacts ==
  ASSUME NEW a \in Int, NEW b \in Nat \ {0}
  PROVE  /\ a \div b \in Int
         /\ b * (a \div b) <= a /\ a < b * (a \div b) + b
         /\ \A k \in Int : b * k <= a => k <= a \div b
         /\ \A k \in Int : a < b * k + b => a \div b <= k
<1> DEFINE q == a \div b
<1>1. q \in Int /\ b * q <= a /\ a < b * q + b
  OBVIOUS
<1> HIDE DEF q
<1>2. ASSUME NEW k \in Int, b * k <= a PROVE k <= q
  <2> SUFFICES ASSUME q + 1 <= k PROVE FALSE
    BY <1>1
  <2>1. b * (q + 1) <= b * k
    BY <1>1
  <2> QED BY <1>1, <1>2, <2>1
<1>3. ASSUME NEW k \in Int, a < b * k + b PROVE q <= k
  <2> SUFFICES ASSUME k + 1 <= q PROVE FALSE
    BY <1>1
  <2>1. b * (k + 1) <= b * q
    BY <1>1
  <2> QED BY <1>1, <1>3, <2>1
<1> QED BY <1>1, <1>2, <1>3 DEF q

LEMMA DivMonotone ==
  ASSUME NEW a \in Int, NEW c \in Int, NEW b \in Nat \ {0}, a <= c
  PROVE  a \div b <= c \div b
<1>1. a \div b \in Int /\ b * (a \div b) <= a
  BY DivFacts
<1>2. b * (a \div b) <= c
  BY <1>1
<1> QED BY <1>1, <1>2, DivFacts

\* A twentieth of One and the unit of weights come out even.
LEMMA OneFacts ==
  /\ One \in Nat \ {0} /\ Unit \in Nat \ {0}
  /\ One \div 20 \in Nat \ {0} /\ 20 * (One \div 20) = One
  /\ One \div Unit \in Nat /\ Unit * (One \div Unit) <= One
<1>1. One \in Nat \ {0} /\ Unit \in Nat \ {0} /\ One % 20 = 0
  BY CatalogueAssumption DEF Divides
<1>2. One \div 20 \in Nat \ {0} /\ 20 * (One \div 20) = One
  BY <1>1
<1>3. One \div Unit \in Int /\ Unit * (One \div Unit) <= One
  BY <1>1, DivFacts
<1>4. Unit * 0 <= One
  BY <1>1
<1>5. 0 <= One \div Unit
  BY <1>1, <1>4, DivFacts
<1> QED BY <1>1, <1>2, <1>3, <1>5

\* A rate is between nothing and all; a further right answer does not lower it,
\* a further wrong one does not raise it.
LEMMA SafeRateFacts ==
  ASSUME NEW s \in Nat, NEW n \in Nat, s <= n
  PROVE  /\ SafeRate(s, n) \in 0 .. One
         /\ n > 0 => SafeRate(s + 1, n + 1) >= SafeRate(s, n)
         /\ n > 0 => SafeRate(s, n + 1) <= SafeRate(s, n)
         /\ s = n /\ n > 0 => SafeRate(s, n) = One
         /\ s = 0 => SafeRate(s, n) = 0
<1> DEFINE one == One
<1>1. one \in Nat \ {0}
  BY OneFacts
<1> HIDE DEF one
<1>2. CASE n = 0
  <2>1. SafeRate(s, n) = 0
    BY <1>2 DEF SafeRate
  <2> QED BY <1>1, <1>2, <2>1 DEF one
<1>3. CASE n > 0
  <2> DEFINE q == (s * one) \div n
  <2>1. n \in Nat \ {0} /\ n + 1 \in Nat \ {0} /\ s * one \in Nat /\ (s + 1) * one = s * one + one
    BY <1>1, <1>3
  <2>2. q \in Int /\ n * q <= s * one /\ s * one < n * q + n
    <3> DEFINE p == s * one
    <3>1. p \in Int /\ n \in Nat \ {0}
      BY <2>1
    <3> HIDE DEF p
    <3>2. p \div n \in Int /\ n * (p \div n) <= p /\ p < n * (p \div n) + n
      BY <3>1, DivFacts
    <3> QED BY <3>2 DEF p
  <2> HIDE DEF q
  <2>3. s * one <= n * one
    BY <1>1
  <2>4. q <= one
    <3> SUFFICES ASSUME one + 1 <= q PROVE FALSE
      BY <1>1, <2>2
    <3>1. n * (one + 1) <= n * q
      BY <1>1, <2>2
    <3>2. n * (one + 1) = n * one + n
      BY <1>1
    <3> QED BY <1>1, <1>3, <2>1, <2>2, <2>3, <3>1, <3>2
  <2>5. 0 <= q
    <3>1. n * 0 <= s * one
      BY <2>1
    <3> QED BY <2>1, <3>1, DivFacts DEF q
  <2>6. q <= ((s + 1) * one) \div (n + 1)
    <3>1. (n + 1) * q = n * q + q
      BY <2>2
    <3>2. (n + 1) * q <= (s + 1) * one
      BY <1>1, <2>1, <2>2, <2>4, <3>1
    <3>3. (s + 1) * one \in Int
      BY <1>1, <2>1
    <3> QED BY <2>1, <2>2, <3>2, <3>3, DivFacts
  <2>7. (s * one) \div (n + 1) <= q
    <3>1. (n + 1) * q = n * q + q
      BY <2>2
    <3>2. s * one < (n + 1) * q + (n + 1)
      BY <2>1, <2>2, <2>5, <3>1
    <3> QED BY <2>1, <2>2, <3>2, DivFacts
  <2>8. s = n => q = one
    <3> SUFFICES ASSUME s = n PROVE one <= q
      BY <1>1, <2>2, <2>4
    <3>1. n * one <= s * one
      BY <1>1
    <3> QED BY <1>1, <2>1, <3>1, DivFacts DEF q
  <2>9. s = 0 => q = 0
    <3> SUFFICES ASSUME s = 0 PROVE q <= 0
      BY <2>2, <2>5
    <3>1. s * one < n * 0 + n
      BY <1>1, <1>3
    <3> QED BY <2>1, <3>1, DivFacts DEF q
  <2>10. SafeRate(s, n) = q
    BY <1>3 DEF SafeRate, q, one
  <2>11. SafeRate(s + 1, n + 1) = ((s + 1) * one) \div (n + 1) /\ SafeRate(s, n + 1) = (s * one) \div (n + 1)
    BY <2>1 DEF SafeRate, one
  <2>12. q \in 0 .. one
    BY <1>1, <2>2, <2>4, <2>5
  <2>13. SafeRate(s + 1, n + 1) >= q /\ SafeRate(s, n + 1) <= q
    <3>1. ((s + 1) * one) \div (n + 1) \in Int
      BY <1>1, <2>1, DivFacts
    <3>2. (s * one) \div (n + 1) \in Int
      BY <1>1, <2>1, DivFacts
    <3> QED BY <2>2, <2>6, <2>7, <2>11, <3>1, <3>2
  <2> QED BY <2>8, <2>9, <2>10, <2>12, <2>13 DEF one
<1> QED BY <1>2, <1>3

-----------------------------------------------------------------------------
(* Rates, signals and scores. *)

CountsTypeOK == right \in [Students -> [Tasks -> Nat]] /\ wrong \in [Students -> [Tasks -> Nat]]

\* Nobody solves a task more often than he tries it.
LEMMA RateFacts ==
  ASSUME CountsTypeOK, NEW S \in SUBSET Students, NEW t \in Tasks
  PROVE  /\ IsFiniteSet(S)
         /\ Solved(S, t) \in Nat /\ Total(S, t) \in Nat /\ Solved(S, t) <= Total(S, t)
         /\ RateOf(S, t) \in 0 .. One
<1> DEFINE solved == [u \in S |-> right[u][t]]
           total == [u \in S |-> right[u][t] + wrong[u][t]]
<1>1. IsFiniteSet(S)
  BY CatalogueAssumption, FS_Subset
<1>2. solved \in [S -> Nat] /\ total \in [S -> Nat] /\ \A u \in S : solved[u] <= total[u]
  <2>1. ASSUME NEW u \in S PROVE right[u][t] \in Nat /\ wrong[u][t] \in Nat
    BY DEF CountsTypeOK
  <2> QED BY <2>1
<1>3. Solved(S, t) = SumFunction(solved) /\ Total(S, t) = SumFunction(total)
  BY DEF Solved, Total
<1> HIDE DEF solved, total
<1>4. solved \in [S -> Int] /\ total \in [S -> Int]
  BY <1>2
<1>5. SumFunction(solved) \in Nat /\ SumFunction(total) \in Nat
  BY <1>1, <1>2, SumOfNats
<1>6. SumFunction(solved) <= SumFunction(total)
  BY <1>1, <1>2, <1>4, SumMonotone
<1>7. SafeRate(Solved(S, t), Total(S, t)) \in 0 .. One
  BY <1>3, <1>5, <1>6, SafeRateFacts
<1> QED BY <1>1, <1>3, <1>5, <1>6, <1>7 DEF RateOf

LEMMA MinMaxOfTwo ==
  ASSUME NEW a \in Int, NEW b \in Int
  PROVE  /\ Max({a, b}) = (IF a < b THEN b ELSE a)
         /\ Min({a, b}) = (IF a < b THEN a ELSE b)
<1>1. PICK x \in {a, b} : \A y \in {a, b} : x >= y
  OBVIOUS
<1>2. PICK z \in {a, b} : \A y \in {a, b} : z =< y
  OBVIOUS
<1>3. Max({a, b}) \in {a, b} /\ \A y \in {a, b} : Max({a, b}) >= y
  BY <1>1 DEF Max
<1>4. Min({a, b}) \in {a, b} /\ \A y \in {a, b} : Min({a, b}) =< y
  BY <1>2 DEF Min
<1> QED BY <1>3, <1>4

\* Six attempts give full confidence.
LEMMA SamplesFacts ==
  ASSUME CountsTypeOK, NEW t \in Tasks
  PROVE  Samples(t) \in 0 .. 6 /\ (Total(Students, t) >= 6 => Samples(t) = 6)
<1>1. Total(Students, t) \in Nat
  BY RateFacts
<1>2. Samples(t) = IF Total(Students, t) < 6 THEN Total(Students, t) ELSE 6
  BY <1>1, MinMaxOfTwo DEF Samples, MinSamples
<1> QED BY <1>1, <1>2

\* The signal of the code is the advantage of the strong.
LEMMA SignalFacts ==
  ASSUME CountsTypeOK, NEW strong \in SUBSET Students, NEW t \in Tasks
  PROVE  Signal(strong, t) \in 0 .. One /\ Advantage(strong, t) = Signal(strong, t)
<1> DEFINE weak == Students \ strong
           s == RateOf(strong, t)
           w == RateOf(weak, t)
<1>1. weak \in SUBSET Students
  OBVIOUS
<1>2. s \in 0 .. One /\ w \in 0 .. One /\ One \in Nat
  BY <1>1, RateFacts, OneFacts
<1>3. /\ s = IF Total(strong, t) = 0 THEN 0 ELSE (Solved(strong, t) * One) \div Total(strong, t)
      /\ w = IF Total(weak, t) = 0 THEN 0 ELSE (Solved(weak, t) * One) \div Total(weak, t)
  BY DEF RateOf, SafeRate
<1>4. Signal(strong, t) = IF s - w < 0 THEN 0 ELSE s - w
  BY DEF Signal
<1>5. Advantage(strong, t) = IF Total(strong, t) = 0 THEN 0 ELSE Max({0, s - w})
  BY <1>3 DEF Advantage
<1>6. Total(strong, t) = 0 => s = 0
  BY <1>3
<1> HIDE DEF s, w
<1>7. Max({0, s - w}) = IF 0 < s - w THEN s - w ELSE 0
  BY <1>2, MinMaxOfTwo
<1> QED BY <1>2, <1>4, <1>5, <1>6, <1>7

\* What a score adds to its twentieth: the signal by confidence, the given
\* weight by what confidence is missing.
Mix(n, x, y) == (n * x) \div 6 + ((6 - n) * y) \div 6

\* A mixture of shares is one, and no less when its parts are no less.
LEMMA MixFacts ==
  ASSUME NEW one \in Nat, NEW n \in 0 .. 6, NEW x \in 0 .. one, NEW y \in 0 .. one
  PROVE  /\ Mix(n, x, y) \in 0 .. one
         /\ \A v \in x .. one : \A w \in y .. one : Mix(n, v, w) >= Mix(n, x, y)
         /\ n = 6 => \A w \in 0 .. one : Mix(n, x, w) = Mix(n, x, y)
<1>1. CASE n = 0
  BY <1>1 DEF Mix
<1>2. CASE n = 1
  BY <1>2 DEF Mix
<1>3. CASE n = 2
  BY <1>3 DEF Mix
<1>4. CASE n = 3
  BY <1>4 DEF Mix
<1>5. CASE n = 4
  BY <1>5 DEF Mix
<1>6. CASE n = 5
  BY <1>6 DEF Mix
<1>7. CASE n = 6
  BY <1>7 DEF Mix
<1> QED BY <1>1, <1>2, <1>3, <1>4, <1>5, <1>6, <1>7

LEMMA ScoreFacts ==
  ASSUME CountsTypeOK, NEW strong \in SUBSET Students, NEW t \in Tasks, NEW base \in 0 .. One
  PROVE  /\ DiscriminativeScore(strong, t, base) = One \div 20 + Mix(Samples(t), Signal(strong, t), base)
         /\ DiscriminativeScore(strong, t, base) \in One \div 20 .. One \div 20 + One
<1> DEFINE m == One \div 20
           mix == Mix(Samples(t), Signal(strong, t), base)
<1>1. Samples(t) \in 0 .. 6 /\ Signal(strong, t) \in 0 .. One /\ One \in Nat /\ m \in Nat
  BY SamplesFacts, SignalFacts, OneFacts
<1>2. mix \in 0 .. One
  BY <1>1, MixFacts
<1>3. DiscriminativeScore(strong, t, base)
        = m + (Samples(t) * Signal(strong, t)) \div 6 + ((6 - Samples(t)) * base) \div 6
  BY DEF DiscriminativeScore, MinSamples
<1>4. (Samples(t) * Signal(strong, t)) \div 6 \in Int /\ ((6 - Samples(t)) * base) \div 6 \in Int
  BY <1>1
<1>5. DiscriminativeScore(strong, t, base) = m + mix
  BY <1>1, <1>3, <1>4 DEF Mix
<1> HIDE DEF m, mix
<1>6. DiscriminativeScore(strong, t, base) \in m .. m + One
  BY <1>1, <1>2, <1>5
<1> QED BY <1>5, <1>6 DEF m, mix

\* What the teacher or the evaluator gave is a share of One, or One itself.
LEMMA BaseFacts ==
  ASSUME NEW t \in Tasks, NEW g \in TagsOf(t)
  PROVE  BaseOf(t, g) \in 0 .. One
<1> DEFINE w == TagWeights[t][g]
           step == One \div Unit
<1>1. w \in Int /\ w <= Unit
  BY CatalogueAssumption
<1>2. One \in Nat /\ Unit \in Nat /\ step \in Nat /\ Unit * step <= One
  BY OneFacts
<1>3. BaseOf(t, g) = IF w <= 0 THEN One ELSE w * step
  BY DEF BaseOf
<1> HIDE DEF w, step
<1>4. CASE w > 0
  <2>1. w * step <= Unit * step /\ w * step \in Nat
    BY <1>1, <1>2, <1>4
  <2> QED BY <1>2, <1>3, <1>4, <2>1
<1> QED BY <1>1, <1>2, <1>3, <1>4

-----------------------------------------------------------------------------
(* Shares. *)

\* The sum of scores is positive and bounded by their number.
LEMMA TotalFacts ==
  ASSUME NEW K, IsFiniteSet(K), K # {}, NEW m \in Nat \ {0}, NEW top \in Nat, NEW f \in [K -> m .. top]
  PROVE  /\ SumFunction(f) \in Nat \ {0} /\ SumFunction(f) <= top * Cardinality(K)
         /\ Cardinality(K) \in Nat \ {0}
<1>1. f \in [K -> Nat] /\ f \in [K -> Int] /\ \A k \in K : f[k] \in Int /\ m <= f[k] /\ f[k] <= top
  OBVIOUS
<1>2. PICK k \in K : TRUE
  OBVIOUS
<1>3. SumFunction(f) \in Nat /\ f[k] <= SumFunction(f)
  BY <1>1, SumOfNats
<1>4. Cardinality(K) \in Nat \ {0}
  BY FS_CardinalityType, FS_EmptySet
<1> DEFINE high == [x \in K |-> 0 * f[x] + top]
<1>5. high \in [K -> Int] /\ \A x \in K : f[x] <= high[x]
  BY <1>1
<1>6. SumFunction(high) = 0 * SumFunction(f) + top * Cardinality(K)
  BY <1>1, SumAffine
<1> HIDE DEF high
<1>7. SumFunction(f) <= SumFunction(high)
  BY <1>1, <1>5, SumMonotone
<1>8. top * Cardinality(K) \in Int
  BY <1>4
<1> QED BY <1>1, <1>2, <1>3, <1>4, <1>6, <1>7, <1>8

\* v is x / total in ten-thousandths, off by half a one at most.
RoundsTo(x, total, v) ==
  /\ v \in Int
  /\ 2 * total * v <= 20000 * x + total
  /\ 20000 * x + total <= 2 * total * v + 2 * total
  /\ total <= 20000 * x => v > 0

LEMMA RoundFacts ==
  ASSUME NEW x \in Nat, NEW total \in Nat \ {0}
  PROVE  /\ RoundsTo(x, total, Round4(x, total))
         /\ \A y \in Nat : y <= x => Round4(y, total) <= Round4(x, total)
<1> DEFINE a == 20000 * x + total
           b == 2 * total
<1>1. a \in Int /\ b \in Nat \ {0}
  OBVIOUS
<1>2. Round4(x, total) = a \div b
  BY DEF Round4
<1>3. ASSUME NEW y \in Nat, y <= x PROVE Round4(y, total) <= a \div b
  <2> DEFINE c == 20000 * y + total
  <2>1. c \in Int /\ c <= a
    BY <1>3
  <2>2. Round4(y, total) = c \div b
    BY DEF Round4
  <2> HIDE DEF a, b, c
  <2> QED BY <1>1, <2>1, <2>2, DivMonotone
<1>4. total <= 20000 * x => b * 1 <= a
  OBVIOUS
<1> HIDE DEF a, b
<1>5. a \div b \in Int /\ b * (a \div b) <= a /\ a < b * (a \div b) + b
  BY <1>1, DivFacts
<1>6. b * 1 <= a => 1 <= a \div b
  BY <1>1, DivFacts
<1>7. a <= b * (a \div b) + b
  BY <1>1, <1>5
<1>8. total <= 20000 * x => a \div b > 0
  BY <1>4, <1>5, <1>6
<1>9. RoundsTo(x, total, a \div b)
  BY <1>5, <1>7, <1>8 DEF RoundsTo, a, b
<1> QED BY <1>2, <1>3, <1>9

\* Scores of a twentieth up to one and a twentieth give shares in their order.
LEMMA SharesFacts ==
  ASSUME NEW K, IsFiniteSet(K), NEW scores \in [K -> One \div 20 .. One \div 20 + One]
  PROVE  /\ AreShares(NormalizeScores(scores))
         /\ \A g, h \in K :
              /\ scores[g] >= scores[h] => NormalizeScores(scores)[g] >= NormalizeScores(scores)[h]
              /\ scores[g] = scores[h] => NormalizeScores(scores)[g] = NormalizeScores(scores)[h]
<1> DEFINE m == One \div 20
           T == SumFunction(scores)
           n == Cardinality(K)
           w == [k \in K |-> Round4(scores[k], T)]
           W == SumFunction(w)
<1>1. m \in Nat \ {0} /\ 20 * m = One
  BY OneFacts
<1>2. NormalizeScores(scores) = w
  BY DEF NormalizeScores
<1>3. CASE K = {}
  <2>1. DOMAIN w = {} /\ Cardinality({}) = 0
    BY <1>3, FS_EmptySet
  <2> QED BY <1>2, <1>3, <2>1 DEF AreShares
<1>4. CASE K # {}
  <2>1. scores \in [K -> m .. m + One] /\ m + One \in Nat
    BY <1>1
  <2>2. \A k \in K : scores[k] \in Nat /\ m <= scores[k]
    BY <1>1
  <2> HIDE DEF m, T, n
  <2>3. T \in Nat \ {0} /\ n \in Nat \ {0} /\ T <= (m + One) * n
    BY <1>1, <1>4, <2>1, TotalFacts DEF T, n
  <2>4. \A k \in K : /\ w[k] = Round4(scores[k], T) /\ w[k] \in Int
                     /\ 2 * T * w[k] <= 20000 * scores[k] + T
                     /\ 20000 * scores[k] + T <= 2 * T * w[k] + 2 * T
                     /\ T <= 20000 * scores[k] => w[k] > 0
    <3> SUFFICES ASSUME NEW k \in K
                 PROVE  /\ w[k] = Round4(scores[k], T) /\ w[k] \in Int
                        /\ 2 * T * w[k] <= 20000 * scores[k] + T
                        /\ 20000 * scores[k] + T <= 2 * T * w[k] + 2 * T
                        /\ T <= 20000 * scores[k] => w[k] > 0
      OBVIOUS
    <3> DEFINE x == scores[k]
               v == Round4(x, T)
    <3>1. x \in Nat /\ w[k] = v /\ w[k] = Round4(scores[k], T)
      BY <2>2
    <3> HIDE DEF x, w
    <3>2. RoundsTo(x, T, v)
      BY <2>3, <3>1, RoundFacts
    <3> HIDE DEF v
    <3> QED BY <3>1, <3>2 DEF x, RoundsTo
  <2>5. w \in [K -> Int] /\ DOMAIN w = K
    BY <2>4
  <2>6. ASSUME NEW g \in K, NEW h \in K
        PROVE  /\ scores[g] >= scores[h] => w[g] >= w[h]
               /\ scores[g] = scores[h] => w[g] = w[h]
    <3>1. \A x, y \in Nat : y <= x => Round4(y, T) <= Round4(x, T)
      BY <2>3, RoundFacts
    <3> QED BY <2>2, <2>4, <3>1
  <2> HIDE DEF w, W
  <2>7. 2 * W <= 20000 + n /\ 20000 - n <= 2 * W /\ W \in Int
    <3> DEFINE exact == [k \in K |-> 20000 * scores[k] + T]
               low == [k \in K |-> (2 * T) * w[k] + 0]
               high == [k \in K |-> (2 * T) * w[k] + 2 * T]
    <3>1. W \in Int /\ scores \in [K -> Int] /\ 2 * T \in Int /\ 0 \in Int
      BY <2>2, <2>3, <2>5, SumFacts DEF W
    <3>2. SumFunction(exact) = 20000 * T + T * n
      BY <2>3, <3>1, SumAffine DEF T, n
    <3>3. SumFunction(low) = (2 * T) * W + 0 * n
      BY <2>5, <3>1, SumAffine DEF W, n
    <3>4. SumFunction(high) = (2 * T) * W + (2 * T) * n
      BY <2>5, <3>1, SumAffine DEF W, n
    <3>5. exact \in [K -> Int] /\ low \in [K -> Int] /\ high \in [K -> Int]
      BY <2>2, <2>3, <2>4
    <3>6. \A k \in K : low[k] <= exact[k] /\ exact[k] <= high[k]
      <4> SUFFICES ASSUME NEW k \in K PROVE low[k] <= exact[k] /\ exact[k] <= high[k]
        OBVIOUS
      <4>1. 2 * T * w[k] <= 20000 * scores[k] + T /\ 20000 * scores[k] + T <= 2 * T * w[k] + 2 * T
        BY <2>4
      <4>2. w[k] \in Int /\ scores[k] \in Int
        BY <2>2, <2>4
      <4> QED BY <2>3, <4>1, <4>2
    <3> HIDE DEF exact, low, high
    <3>7. SumFunction(low) <= SumFunction(exact) /\ SumFunction(exact) <= SumFunction(high)
      BY <3>5, <3>6, SumMonotone
    <3>8. T * (2 * W) <= T * (20000 + n) /\ T * (20000 - n) <= T * (2 * W)
      BY <2>3, <3>1, <3>2, <3>3, <3>4, <3>7
    <3>9. ASSUME NEW a \in Int, NEW b \in Int, T * a <= T * b PROVE a <= b
      <4> SUFFICES ASSUME b + 1 <= a PROVE FALSE
        BY <3>9
      <4>1. T * (b + 1) <= T * a
        BY <2>3
      <4> QED BY <2>3, <3>9, <4>1
    <3>10. 2 * W \in Int /\ 20000 + n \in Int /\ 20000 - n \in Int
      BY <2>3, <3>1
    <3> QED BY <3>1, <3>8, <3>9, <3>10
  <2>8. n <= 950 => \A k \in K : w[k] > 0
    <3> SUFFICES ASSUME n <= 950, NEW k \in K PROVE T <= 20000 * scores[k]
      BY <2>4
    <3>1. m + One = 21 * m /\ 21 * m \in Nat
      BY <1>1
    <3>2. (21 * m) * n <= (21 * m) * 950
      BY <1>1, <2>3
    <3> QED BY <1>1, <2>2, <2>3, <3>1, <3>2
  <2>9. AreShares(w)
    <3>1. 2 * W \in 20000 - n .. 20000 + n
      BY <2>3, <2>7
    <3> QED BY <2>5, <2>8, <3>1 DEF AreShares, W, n
  <2> QED BY <1>2, <2>6, <2>9
<1> QED BY <1>3, <1>4

-----------------------------------------------------------------------------
(* The invariants. *)

LEMMA StrongAreStudents ==
  \A k : StrongInTopic(k) \in SUBSET Students /\ StrongInTag(k) \in SUBSET Students
BY DEF StrongInTopic, StrongInTag

LEMMA TopicWeightsAreShares ==
  ASSUME CountsTypeOK, NEW t \in Tasks
  PROVE  AreShares(CalibrationTopicWeights(t))
<1> DEFINE K == TopicsOf[t]
           scores == [k \in K |-> DiscriminativeScore(StrongInTopic(k), t, One)]
<1>1. IsFiniteSet(K) /\ One \in 0 .. One
  BY CatalogueAssumption, OneFacts
<1>2. \A k \in K : DiscriminativeScore(StrongInTopic(k), t, One) \in One \div 20 .. One \div 20 + One
  BY <1>1, StrongAreStudents, ScoreFacts
<1>3. scores \in [K -> One \div 20 .. One \div 20 + One]
  BY <1>2
<1>4. CalibrationTopicWeights(t) = NormalizeScores(scores)
  BY DEF CalibrationTopicWeights
<1> HIDE DEF K, scores
<1> QED BY <1>1, <1>3, <1>4, SharesFacts

LEMMA TagWeightFacts ==
  ASSUME CountsTypeOK, NEW t \in Tasks
  PROVE  /\ AreShares(CalibrationTagWeights(t))
         /\ \A g, h \in TagsOf(t) :
              /\ /\ BaseOf(t, g) >= BaseOf(t, h)
                 /\ Advantage(StrongInTag(g), t) >= Advantage(StrongInTag(h), t)
                 => CalibrationTagWeights(t)[g] >= CalibrationTagWeights(t)[h]
              /\ /\ Total(Students, t) >= 6
                 /\ Advantage(StrongInTag(g), t) = Advantage(StrongInTag(h), t)
                 => CalibrationTagWeights(t)[g] = CalibrationTagWeights(t)[h]
<1> DEFINE K == TagsOf(t)
           Score(g) == DiscriminativeScore(StrongInTag(g), t, BaseOf(t, g))
           scores == [g \in K |-> Score(g)]
           n == Samples(t)
           A(g) == Advantage(StrongInTag(g), t)
           B(g) == BaseOf(t, g)
           m == One \div 20
<1>1. IsFiniteSet(K) /\ One \in Nat /\ m \in Nat
  BY CatalogueAssumption, OneFacts
<1>2. \A g \in K : B(g) \in 0 .. One
  BY BaseFacts
<1>3. \A g \in K : A(g) \in 0 .. One /\ Signal(StrongInTag(g), t) = A(g)
  BY StrongAreStudents, SignalFacts
<1>4. n \in 0 .. 6 /\ (Total(Students, t) >= 6 => n = 6)
  BY SamplesFacts
<1>5. \A g \in K : /\ Score(g) = m + Mix(n, A(g), B(g))
                   /\ Score(g) \in m .. m + One
  <2> SUFFICES ASSUME NEW g \in K
               PROVE  /\ Score(g) = m + Mix(n, A(g), B(g))
                      /\ Score(g) \in m .. m + One
    OBVIOUS
  <2>1. StrongInTag(g) \in SUBSET Students /\ B(g) \in 0 .. One /\ Signal(StrongInTag(g), t) = A(g)
    BY <1>2, <1>3, StrongAreStudents
  <2>2. /\ Score(g) = m + Mix(n, Signal(StrongInTag(g), t), B(g))
        /\ Score(g) \in m .. m + One
    BY <2>1, ScoreFacts
  <2> QED BY <2>1, <2>2
<1>6. scores \in [K -> m .. m + One] /\ \A g \in K : scores[g] = Score(g)
  BY <1>5
<1>7. CalibrationTagWeights(t) = NormalizeScores(scores)
  BY DEF CalibrationTagWeights
<1> HIDE DEF K, Score, scores, n, A, B
<1>8. /\ AreShares(NormalizeScores(scores))
      /\ \A g, h \in K :
           /\ scores[g] >= scores[h] => NormalizeScores(scores)[g] >= NormalizeScores(scores)[h]
           /\ scores[g] = scores[h] => NormalizeScores(scores)[g] = NormalizeScores(scores)[h]
  BY <1>1, <1>6, SharesFacts
<1> HIDE DEF m
<1>9. ASSUME NEW g \in K, NEW h \in K, B(g) >= B(h), A(g) >= A(h)
      PROVE  scores[g] >= scores[h]
  <2>1. A(g) \in A(h) .. One /\ B(g) \in B(h) .. One
    BY <1>1, <1>2, <1>3, <1>9
  <2>2. /\ Mix(n, A(h), B(h)) \in 0 .. One
        /\ \A v \in A(h) .. One : \A w \in B(h) .. One : Mix(n, v, w) >= Mix(n, A(h), B(h))
    BY <1>1, <1>2, <1>3, <1>4, MixFacts
  <2>3. Mix(n, A(g), B(g)) \in 0 .. One
    BY <1>1, <1>2, <1>3, <1>4, MixFacts
  <2>4. Mix(n, A(g), B(g)) >= Mix(n, A(h), B(h))
    BY <2>1, <2>2
  <2>5. scores[g] = m + Mix(n, A(g), B(g)) /\ scores[h] = m + Mix(n, A(h), B(h))
    BY <1>5, <1>6
  <2> QED BY <1>1, <2>2, <2>3, <2>4, <2>5
<1>10. ASSUME NEW g \in K, NEW h \in K, n = 6, A(g) = A(h)
       PROVE  scores[g] = scores[h]
  <2>1. n = 6 => \A w \in 0 .. One : Mix(n, A(h), w) = Mix(n, A(h), B(h))
    BY <1>1, <1>2, <1>3, <1>4, MixFacts
  <2>2. Mix(n, A(g), B(g)) = Mix(n, A(h), B(h))
    BY <1>2, <1>10, <2>1
  <2> QED BY <1>5, <1>6, <2>2
<1>11. \A g, h \in K :
         /\ B(g) >= B(h) /\ A(g) >= A(h) => NormalizeScores(scores)[g] >= NormalizeScores(scores)[h]
         /\ n = 6 /\ A(g) = A(h) => NormalizeScores(scores)[g] = NormalizeScores(scores)[h]
  BY <1>8, <1>9, <1>10
<1> QED BY <1>4, <1>7, <1>8, <1>11 DEF K, A, B

LEMMA SumOfZeros ==
  ASSUME NEW D, IsFiniteSet(D), NEW f \in [D -> Int], \A x \in D : f[x] = 0
  PROVE  SumFunction(f) = 0
<1>1. f = [x \in D |-> 0 * f[x] + 0]
  OBVIOUS
<1>2. SumFunction([x \in D |-> 0 * f[x] + 0]) = 0 * SumFunction(f) + 0 * Cardinality(D)
  BY SumAffine
<1>3. SumFunction(f) \in Int /\ Cardinality(D) \in Int
  BY SumFacts, FS_CardinalityType
<1>4. 0 * SumFunction(f) + 0 * Cardinality(D) = 0
  BY <1>3
<1> QED BY <1>1, <1>2, <1>4

LEMMA CourseInitial == InitCourse => CourseTypeOK
<1> SUFFICES ASSUME InitCourse PROVE CourseTypeOK
  OBVIOUS
<1>1. CountsTypeOK
  BY DEF InitCourse, CountsTypeOK
<1>2. IsFiniteSet(Students) /\ IsFiniteSet(Tasks) /\ MaxRecorded \in Nat
  BY CatalogueAssumption
<1>3. ASSUME NEW t \in Tasks PROVE Total(Students, t) = 0
  <2> DEFINE f == [u \in Students |-> right[u][t] + wrong[u][t]]
  <2>1. f \in [Students -> Int] /\ \A u \in Students : f[u] = 0
    BY DEF InitCourse
  <2> HIDE DEF f
  <2>2. SumFunction(f) = 0
    BY <1>2, <2>1, SumOfZeros
  <2> QED BY <2>2 DEF f, Total
<1> DEFINE totals == [t \in Tasks |-> Total(Students, t)]
<1>4. totals \in [Tasks -> Int] /\ \A t \in Tasks : totals[t] = 0
  BY <1>3
<1> HIDE DEF totals
<1>5. SumFunction(totals) = 0
  BY <1>2, <1>4, SumOfZeros
<1>6. Recorded = 0
  BY <1>5 DEF Recorded, totals
<1> QED BY <1>1, <1>2, <1>6 DEF CourseTypeOK, CountsTypeOK

-----------------------------------------------------------------------------
(* An answer is recorded. *)

\* An answer counts once, for its task, and as solved when it is right.
LEMMA AnswerCounted ==
  ASSUME CountsTypeOK, NEW u \in Students, NEW t \in Tasks, NEW correct \in BOOLEAN,
         RecordAnswer(u, t, correct)
  PROVE  /\ CountsTypeOK'
         /\ \A x \in Tasks :
              /\ Solved(Students, x)' = Solved(Students, x) + (IF x = t /\ correct THEN 1 ELSE 0)
              /\ Total(Students, x)' = Total(Students, x) + (IF x = t THEN 1 ELSE 0)
<1>1. /\ right' = IF correct THEN [right EXCEPT ![u][t] = @ + 1] ELSE right
      /\ wrong' = IF correct THEN wrong ELSE [wrong EXCEPT ![u][t] = @ + 1]
  BY DEF RecordAnswer
<1>2. IsFiniteSet(Students)
  BY CatalogueAssumption
<1>3. \A v \in Students : \A x \in Tasks : right[v][x] \in Nat /\ wrong[v][x] \in Nat
  BY DEF CountsTypeOK
<1>4. CountsTypeOK'
  <2>1. CASE correct
    BY <1>1, <1>3, <2>1 DEF CountsTypeOK
  <2>2. CASE ~correct
    BY <1>1, <1>3, <2>2 DEF CountsTypeOK
  <2> QED BY <2>1, <2>2
<1>5. \A v \in Students : \A x \in Tasks :
        /\ right'[v][x] = right[v][x] + (IF v = u /\ x = t /\ correct THEN 1 ELSE 0)
        /\ wrong'[v][x] = wrong[v][x] + (IF v = u /\ x = t /\ ~correct THEN 1 ELSE 0)
  <2>1. CASE correct
    BY <1>1, <1>3, <2>1 DEF CountsTypeOK
  <2>2. CASE ~correct
    BY <1>1, <1>3, <2>2 DEF CountsTypeOK
  <2> QED BY <2>1, <2>2
<1>6. ASSUME NEW x \in Tasks
      PROVE  /\ Solved(Students, x)' = Solved(Students, x) + (IF x = t /\ correct THEN 1 ELSE 0)
             /\ Total(Students, x)' = Total(Students, x) + (IF x = t THEN 1 ELSE 0)
  <2> DEFINE s == [v \in Students |-> right[v][x]]
             r == [v \in Students |-> right'[v][x]]
             a == [v \in Students |-> right[v][x] + wrong[v][x]]
             b == [v \in Students |-> right'[v][x] + wrong'[v][x]]
             more == IF x = t /\ correct THEN 1 ELSE 0
             one == IF x = t THEN 1 ELSE 0
  <2>1. s \in [Students -> Int] /\ r \in [Students -> Int] /\ a \in [Students -> Int] /\ b \in [Students -> Int]
    BY <1>3, <1>5
  <2>2. /\ \A v \in Students \ {u} : r[v] = s[v] /\ b[v] = a[v]
        /\ r[u] - s[u] = more /\ b[u] - a[u] = one
    BY <1>3, <1>5
  <2>3. /\ Solved(Students, x) = SumFunction(s) /\ Solved(Students, x)' = SumFunction(r)
        /\ Total(Students, x) = SumFunction(a) /\ Total(Students, x)' = SumFunction(b)
    BY DEF Solved, Total
  <2> HIDE DEF s, r, a, b
  <2>4. SumFunction(r) = SumFunction(s) + (r[u] - s[u])
    BY <1>2, <2>1, <2>2, SumUpdate
  <2>5. SumFunction(b) = SumFunction(a) + (b[u] - a[u])
    BY <1>2, <2>1, <2>2, SumUpdate
  <2> QED BY <2>2, <2>3, <2>4, <2>5
<1> QED BY <1>4, <1>6

LEMMA CourseStep == CourseTypeOK /\ [NextCourse]_course => CourseTypeOK'
<1> SUFFICES ASSUME CourseTypeOK, [NextCourse]_course PROVE CourseTypeOK'
  OBVIOUS
<1>1. CASE NextCourse
  <2>1. PICK u \in Students, t \in Tasks, correct \in BOOLEAN : RecordAnswer(u, t, correct)
    BY <1>1 DEF NextCourse
  <2>2. CountsTypeOK /\ IsFiniteSet(Tasks) /\ MaxRecorded \in Nat
    BY CatalogueAssumption DEF CourseTypeOK, CountsTypeOK
  <2>3. CountsTypeOK' /\ \A x \in Tasks : Total(Students, x)' = Total(Students, x) + (IF x = t THEN 1 ELSE 0)
    BY <2>1, <2>2, AnswerCounted
  <2>4. \A x \in Tasks : Total(Students, x) \in Nat
    BY <2>2, RateFacts
  <2> DEFINE f == [x \in Tasks |-> Total(Students, x)]
             g == [x \in Tasks |-> Total(Students, x)']
  <2>5. f \in [Tasks -> Int] /\ g \in [Tasks -> Int] /\ (\A x \in Tasks \ {t} : g[x] = f[x]) /\ g[t] - f[t] = 1
    BY <2>3, <2>4
  <2>6. Recorded = SumFunction(f) /\ Recorded' = SumFunction(g)
    BY DEF Recorded
  <2> HIDE DEF f, g
  <2>7. SumFunction(g) = SumFunction(f) + (g[t] - f[t]) /\ SumFunction(f) \in Int
    BY <2>2, <2>5, SumUpdate, SumFacts
  <2>8. SumFunction(f) < MaxRecorded
    BY <2>1, <2>6 DEF RecordAnswer
  <2>9. Recorded' <= MaxRecorded
    BY <2>2, <2>5, <2>6, <2>7, <2>8
  <2> QED BY <2>3, <2>9 DEF CourseTypeOK, CountsTypeOK
<1>2. CASE UNCHANGED course
  BY <1>2 DEF CourseTypeOK, course, Recorded, Total
<1> QED BY <1>1, <1>2

\* Type correctness, that weights are shares, and that from six attempts on
\* they come from the attempts alone (normalizeScores, discriminativeScore).
THEOREM CalibrationInvariant == CalibrationSpec => []CalibrationInv
<1>1. CourseTypeOK => CalibrationInv
  <2> SUFFICES ASSUME CourseTypeOK PROVE WeightsAreShares /\ EnoughAttemptsOverrideTeacher
    BY DEF CalibrationInv
  <2>1. CountsTypeOK /\ Tried \subseteq Tasks
    BY DEF CourseTypeOK, CountsTypeOK, Tried
  <2>2. WeightsAreShares
    BY <2>1, TopicWeightsAreShares, TagWeightFacts DEF WeightsAreShares
  <2>3. EnoughAttemptsOverrideTeacher
    BY <2>1, TagWeightFacts DEF EnoughAttemptsOverrideTeacher
  <2> QED BY <2>2, <2>3
<1> QED BY <1>1, CourseInitial, CourseStep, PTL DEF CalibrationSpec

\* The better a tag separates strong from weak students, the more it weighs
\* (discriminativeScore).
THEOREM SeparationDecides == CalibrationSpec => []SeparatingTagsWeighMore
<1>1. CourseTypeOK => SeparatingTagsWeighMore
  <2> SUFFICES ASSUME CourseTypeOK PROVE SeparatingTagsWeighMore
    OBVIOUS
  <2>1. CountsTypeOK /\ Tried \subseteq Tasks
    BY DEF CourseTypeOK, CountsTypeOK, Tried
  <2> QED BY <2>1, TagWeightFacts DEF SeparatingTagsWeighMore
<1> QED BY <1>1, CourseInitial, CourseStep, PTL DEF CalibrationSpec

-----------------------------------------------------------------------------
(* Difficulty. *)

\* Clamping keeps the order, and inside the limits loses nothing.
LEMMA ClampFacts ==
  ASSUME NEW d \in Nat \ {0}, NEW a \in Int, NEW one \in Nat \ {0}
  PROVE  /\ Clamp(d * a, one, 10 * one) \in one .. 10 * one
         /\ \A b \in Int : b <= a => Clamp(d * b, one, 10 * one) <= Clamp(d * a, one, 10 * one)
         /\ Clamp(d * a, one, 10 * one) \in one + 1 .. 10 * one - 1
              => Clamp(d * a, one, 10 * one) \div d = a
<1>1. d * a \in Int /\ 10 * one \in Nat /\ one <= 10 * one
  OBVIOUS
<1>2. ASSUME NEW b \in Int, b <= a PROVE d * b <= d * a /\ d * b \in Int
  <2>1. d * (a - b) = d * a - d * b /\ a - b \in Nat
    BY <1>2
  <2>2. d * (a - b) \in Nat
    BY <2>1
  <2> QED BY <1>1, <1>2, <2>1, <2>2
<1>3. (d * a) \div d = a
  <2> DEFINE p == d * a
  <2>1. p \in Int /\ d \in Nat \ {0} /\ d * a <= p /\ p < d * a + d
    BY <1>1
  <2> HIDE DEF p
  <2>2. a <= p \div d /\ p \div d <= a /\ p \div d \in Int
    BY <2>1, DivFacts
  <2> QED BY <2>2 DEF p
<1> DEFINE p == d * a
<1>4. p \in Int /\ p \div d = a
  BY <1>1, <1>3
<1> HIDE DEF p
<1>5. Clamp(p, one, 10 * one) \in one .. 10 * one
  BY <1>1, <1>4 DEF Clamp
<1>6. \A q \in Int : q <= p => Clamp(q, one, 10 * one) <= Clamp(p, one, 10 * one)
  BY <1>1, <1>4 DEF Clamp
<1>7. Clamp(p, one, 10 * one) \in one + 1 .. 10 * one - 1 => Clamp(p, one, 10 * one) = p
  BY <1>1, <1>4 DEF Clamp
<1>8. Clamp(p, one, 10 * one) \in one + 1 .. 10 * one - 1 => Clamp(p, one, 10 * one) \div d = a
  BY <1>4, <1>7
<1>9. ASSUME NEW b \in Int, b <= a
      PROVE  Clamp(d * b, one, 10 * one) <= Clamp(p, one, 10 * one)
  BY <1>2, <1>6, <1>9 DEF p
<1> QED BY <1>5, <1>8, <1>9 DEF p

\* The rates of the tasks that were tried.
LEMMA TriedFacts ==
  ASSUME CountsTypeOK
  PROVE  /\ Tried \subseteq Tasks /\ IsFiniteSet(Tried) /\ Cardinality(Tried) \in Nat
         /\ Tried # {} => Cardinality(Tried) > 0
         /\ Rates \in [Tried -> 0 .. One] /\ Rates \in [Tried -> Int]
         /\ \A t \in Tried : Rates[t] = RateOf(Students, t)
         /\ SumFunction(Rates) \in Int
<1>1. Tried \subseteq Tasks /\ IsFiniteSet(Tasks)
  BY CatalogueAssumption DEF Tried
<1>2. IsFiniteSet(Tried) /\ Cardinality(Tried) \in Nat
  BY <1>1, FS_Subset, FS_CardinalityType
<1>3. Tried # {} => Cardinality(Tried) > 0
  BY <1>2, FS_EmptySet
<1>4. \A t \in Tried : RateOf(Students, t) \in 0 .. One
  BY <1>1, RateFacts
<1>5. Rates \in [Tried -> 0 .. One] /\ \A t \in Tried : Rates[t] = RateOf(Students, t)
  BY <1>4 DEF Rates
<1>6. Rates \in [Tried -> Int]
  BY <1>5
<1>7. SumFunction(Rates) \in Int
  BY <1>2, <1>6, SumFacts
<1> QED BY <1>1, <1>2, <1>3, <1>5, <1>6, <1>7

\* Suggested difficulties share out the course's difficulty: factors average to
\* 1 while no suggestion hits a limit (CourseCalibration).
THEOREM DifficultyRedistributed == CalibrationSpec => []DifficultyIsRelative
<1>1. CourseTypeOK => DifficultyIsRelative
  <2> DEFINE n == Cardinality(Tried)
             A == AverageSuccess
             sum == SumFunction(Rates)
             factors == [t \in Tried |-> SuggestedDifficulty(t) \div Difficulty[t]]
  <2> SUFFICES ASSUME CourseTypeOK, Tried # {},
                      \A t \in Tried : SuggestedDifficulty(t) \in One + 1 .. 10 * One - 1
               PROVE  SumFunction(factors) \in n * (One - 1) .. n * One
    BY DEF DifficultyIsRelative
  <2>1. CountsTypeOK
    BY DEF CourseTypeOK, CountsTypeOK
  <2>2. /\ Tried \subseteq Tasks /\ IsFiniteSet(Tried) /\ n \in Nat \ {0} /\ sum \in Int
        /\ Rates \in [Tried -> Int] /\ \A t \in Tried : Rates[t] = RateOf(Students, t)
    BY <2>1, TriedFacts
  <2>3. One \in Nat \ {0}
    BY OneFacts
  <2>4. A \in Int /\ n * A <= sum /\ sum < n * A + n
    <3>1. A = sum \div n
      BY DEF AverageSuccess
    <3> HIDE DEF n, sum
    <3> QED BY <2>2, <3>1, DivFacts
  <2>5. ASSUME NEW t \in Tried
        PROVE  SuggestedDifficulty(t) \div Difficulty[t] = (-1) * Rates[t] + (One + A)
    <3> DEFINE d == Difficulty[t]
               a == One + A - Rates[t]
    <3>1. d \in Nat \ {0} /\ Rates[t] \in Int
      BY <2>2, CatalogueAssumption
    <3>2. a \in Int
      BY <2>3, <2>4, <3>1
    <3>3. SuggestedDifficulty(t) = Clamp(d * a, One, 10 * One)
      BY <2>2 DEF SuggestedDifficulty
    <3>4. SuggestedDifficulty(t) \in One + 1 .. 10 * One - 1
      OBVIOUS
    <3>5. a = (-1) * Rates[t] + (One + A)
      BY <2>3, <2>4, <3>1
    <3> HIDE DEF d, a
    <3>6. Clamp(d * a, One, 10 * One) \in One + 1 .. 10 * One - 1 => Clamp(d * a, One, 10 * One) \div d = a
      BY <2>3, <3>1, <3>2, ClampFacts
    <3>7. SuggestedDifficulty(t) \div d = a
      BY <3>3, <3>4, <3>6
    <3> QED BY <3>5, <3>7 DEF d
  <2>6. factors = [t \in Tried |-> (-1) * Rates[t] + (One + A)]
    BY <2>5
  <2>7. One + A \in Int
    BY <2>3, <2>4
  <2>8. SumFunction(factors) = (-1) * sum + (One + A) * n
    <3> HIDE DEF factors
    <3> DEFINE c == One + A
    <3>1. SumFunction([t \in Tried |-> (-1) * Rates[t] + c]) = (-1) * SumFunction(Rates) + c * Cardinality(Tried)
      <4> HIDE DEF c, A
      <4> QED BY <2>2, <2>7, SumAffine DEF c
    <3> QED BY <2>6, <3>1
  <2> HIDE DEF n, A, sum, factors
  <2>9. (One + A) * n = n * One + n * A
    BY <2>2, <2>3, <2>4
  <2>10. n * One \in Int /\ n * A \in Int /\ n * (One - 1) = n * One - n
    BY <2>2, <2>3, <2>4
  <2> QED BY <2>2, <2>4, <2>8, <2>9, <2>10
<1> QED BY <1>1, CourseInitial, CourseStep, PTL DEF CalibrationSpec

-----------------------------------------------------------------------------
(* The average when one rate changes or comes in. *)

Average(f) == SumFunction(f) \div Cardinality(DOMAIN f)

\* When one rate rises the average does, but by no more than the rate.
LEMMA AverageOfChanged ==
  ASSUME NEW D, IsFiniteSet(D), NEW f \in [D -> Int], NEW g \in [D -> Int],
         NEW x \in D, \A y \in D \ {x} : g[y] = f[y], f[x] <= g[x]
  PROVE  /\ Average(f) \in Int /\ Average(g) \in Int
         /\ Average(f) <= Average(g) /\ Average(g) - g[x] <= Average(f) - f[x]
<1> DEFINE n == Cardinality(D)
           s == SumFunction(f)
           r == SumFunction(g)
           d == g[x] - f[x]
<1>1. n \in Nat \ {0}
  BY FS_CardinalityType, FS_EmptySet
<1>2. s \in Int /\ r = s + d /\ d \in Nat /\ f[x] \in Int /\ g[x] \in Int
  BY SumFacts, SumUpdate
<1>3. Average(f) = s \div n /\ Average(g) = r \div n
  BY DEF Average
<1> HIDE DEF n, s, r
<1>4. s \div n \in Int /\ n * (s \div n) <= s /\ s < n * (s \div n) + n
  BY <1>1, <1>2, DivFacts
<1>5. r \in Int /\ s <= r
  BY <1>2
<1>6. s \div n <= r \div n /\ r \div n \in Int
  BY <1>1, <1>2, <1>5, DivMonotone, DivFacts
<1>7. r \div n <= (s \div n) + d
  <2> DEFINE q == s \div n
  <2>1. q \in Int /\ s < n * q + n
    BY <1>4
  <2> HIDE DEF q
  <2>2. n * (q + d) = n * q + n * d /\ d <= n * d
    BY <1>1, <1>2, <2>1
  <2>3. r < n * (q + d) + n /\ q + d \in Int
    BY <1>1, <1>2, <2>1, <2>2
  <2>4. r \div n <= q + d
    BY <1>1, <1>5, <2>3, DivFacts
  <2> QED BY <2>4 DEF q
<1> QED BY <1>2, <1>3, <1>4, <1>6, <1>7

\* A new rate of One does not lower the average, one of 0 does not raise it.
LEMMA AverageOfExtended ==
  ASSUME NEW D, IsFiniteSet(D), D # {}, NEW one \in Nat, NEW f \in [D -> 0 .. one], NEW x, x \notin D,
         NEW g \in [D \cup {x} -> 0 .. one], \A y \in D : g[y] = f[y]
  PROVE  /\ Average(f) \in Int /\ Average(g) \in Int
         /\ g[x] = one => Average(f) <= Average(g)
         /\ g[x] = 0 => Average(g) <= Average(f)
<1> DEFINE n == Cardinality(D)
           s == SumFunction(f)
           r == SumFunction(g)
<1>1. n \in Nat \ {0} /\ Cardinality(D \cup {x}) = n + 1
  BY FS_CardinalityType, FS_EmptySet, FS_AddElement
<1>2. f \in [D -> Int] /\ g \in [D \cup {x} -> Int] /\ f \in [D -> Nat] /\ g[x] \in 0 .. one
  OBVIOUS
<1>3. r = s + g[x]
  BY <1>2, SumExtend
<1>4. s \in Nat
  BY <1>2, SumOfNats
<1>5. s <= one * n
  <2> DEFINE high == [y \in D |-> 0 * f[y] + one]
  <2>1. high \in [D -> Int] /\ \A y \in D : f[y] <= high[y]
    BY <1>2
  <2>2. SumFunction(high) = 0 * s + one * n
    BY <1>2, SumAffine
  <2> HIDE DEF high
  <2>3. s <= SumFunction(high)
    BY <1>2, <2>1, SumMonotone
  <2>4. one * n \in Int
    BY <1>1
  <2> HIDE DEF s, n
  <2> QED BY <1>4, <2>2, <2>3, <2>4
<1>6. Average(f) = s \div n /\ Average(g) = r \div (n + 1)
  BY <1>1 DEF Average
<1> HIDE DEF n, s, r
<1> DEFINE q == s \div n
<1>7. q \in Int /\ n * q <= s /\ s < n * q + n
  BY <1>1, <1>4, DivFacts
<1>8. n * 0 <= s
  BY <1>1, <1>4
<1>9. 0 <= q
  BY <1>1, <1>4, <1>8, DivFacts
<1> HIDE DEF q
<1>10. q <= one
  <2> SUFFICES ASSUME one + 1 <= q PROVE FALSE
    BY <1>7
  <2>1. n * (one + 1) <= n * q
    BY <1>1, <1>7
  <2>2. n * (one + 1) = one * n + n
    BY <1>1
  <2>3. one * n \in Int /\ n * q \in Int
    BY <1>1, <1>7
  <2> QED BY <1>1, <1>4, <1>5, <1>7, <2>1, <2>2, <2>3
<1>11. (n + 1) * q = n * q + q /\ n * q \in Int
  BY <1>1, <1>7
<1>12. n + 1 \in Nat \ {0} /\ r \in Int
  BY <1>1, <1>2, <1>3, <1>4
<1>13. r \div (n + 1) \in Int
  BY <1>12, DivFacts
<1>14. ASSUME g[x] = one PROVE q <= r \div (n + 1)
  <2>1. (n + 1) * q <= r
    BY <1>2, <1>3, <1>4, <1>7, <1>10, <1>11, <1>14
  <2> QED BY <1>7, <1>12, <2>1, DivFacts
<1>15. ASSUME g[x] = 0 PROVE r \div (n + 1) <= q
  <2>1. r < (n + 1) * q + (n + 1)
    BY <1>1, <1>3, <1>4, <1>7, <1>9, <1>11, <1>15
  <2> QED BY <1>7, <1>12, <2>1, DivFacts
<1> QED BY <1>6, <1>7, <1>13, <1>14, <1>15 DEF q

\* How an answer moves the rates, of its task and of the others.
LEMMA RateMoves ==
  ASSUME CountsTypeOK, NEW u \in Students, NEW t \in Tasks, NEW correct \in BOOLEAN,
         RecordAnswer(u, t, correct)
  PROVE  /\ Tried' = Tried \cup {t}
         /\ \A x \in Tasks : RateOf(Students, x)' \in 0 .. One
         /\ \A x \in Tasks \ {t} : RateOf(Students, x)' = RateOf(Students, x)
         /\ t \in Tried /\ correct => RateOf(Students, t)' >= RateOf(Students, t)
         /\ t \in Tried /\ ~correct => RateOf(Students, t)' <= RateOf(Students, t)
         /\ t \notin Tried /\ correct => RateOf(Students, t)' = One
         /\ t \notin Tried /\ ~correct => RateOf(Students, t)' = 0
<1> DEFINE s == Solved(Students, t)
           n == Total(Students, t)
<1>1. \A x \in Tasks :
        /\ Solved(Students, x)' = Solved(Students, x) + (IF x = t /\ correct THEN 1 ELSE 0)
        /\ Total(Students, x)' = Total(Students, x) + (IF x = t THEN 1 ELSE 0)
  BY AnswerCounted
<1>2. \A x \in Tasks : /\ Solved(Students, x) \in Nat /\ Total(Students, x) \in Nat
                       /\ Solved(Students, x) <= Total(Students, x)
  BY RateFacts
<1>3. Tried' = Tried \cup {t}
  BY <1>1, <1>2 DEF Tried
<1>4. \A x : /\ RateOf(Students, x) = SafeRate(Solved(Students, x), Total(Students, x))
             /\ RateOf(Students, x)' = SafeRate(Solved(Students, x)', Total(Students, x)')
  BY DEF RateOf, SafeRate
<1>5. \A x \in Tasks \ {t} : RateOf(Students, x)' = RateOf(Students, x)
  <2> SUFFICES ASSUME NEW x \in Tasks \ {t} PROVE RateOf(Students, x)' = RateOf(Students, x)
    OBVIOUS
  <2>1. Solved(Students, x)' = Solved(Students, x) /\ Total(Students, x)' = Total(Students, x)
    BY <1>1, <1>2
  <2> QED BY <1>4, <2>1
<1>6. \A x \in Tasks : RateOf(Students, x) \in 0 .. One
  BY RateFacts
<1>7. s \in Nat /\ n \in Nat /\ s <= n
  BY <1>2
<1>8. RateOf(Students, t) = SafeRate(s, n)
  BY <1>4
<1>9. t \in Tried <=> n > 0
  BY DEF Tried
<1>10. correct => RateOf(Students, t)' = SafeRate(s + 1, n + 1)
  BY <1>1, <1>4
<1>11. ~correct => RateOf(Students, t)' = SafeRate(s, n + 1)
  <2>1. ~correct => Solved(Students, t)' = s /\ Total(Students, t)' = n + 1
    BY <1>1, <1>2
  <2> QED BY <1>4, <2>1
<1> HIDE DEF s, n
<1>12. /\ SafeRate(s + 1, n + 1) \in 0 .. One /\ SafeRate(s, n + 1) \in 0 .. One
       /\ n > 0 => SafeRate(s + 1, n + 1) >= SafeRate(s, n)
       /\ n > 0 => SafeRate(s, n + 1) <= SafeRate(s, n)
  <2>1. s + 1 \in Nat /\ n + 1 \in Nat /\ s + 1 <= n + 1 /\ s <= n + 1
    BY <1>7
  <2>2. SafeRate(s + 1, n + 1) \in 0 .. One
    BY <2>1, SafeRateFacts
  <2>3. SafeRate(s, n + 1) \in 0 .. One
    BY <1>7, <2>1, SafeRateFacts
  <2> QED BY <1>7, <2>2, <2>3, SafeRateFacts
<1>13. n = 0 => SafeRate(s + 1, n + 1) = One /\ SafeRate(s, n + 1) = 0
  <2> SUFFICES ASSUME n = 0 PROVE SafeRate(s + 1, n + 1) = One /\ SafeRate(s, n + 1) = 0
    OBVIOUS
  <2>1. s = 0
    BY <1>7
  <2>2. SafeRate(1, 1) = One
    BY SafeRateFacts
  <2>3. SafeRate(0, 1) = 0
    BY SafeRateFacts
  <2> QED BY <2>1, <2>2, <2>3
<1> QED BY <1>3, <1>5, <1>6, <1>7, <1>8, <1>9, <1>10, <1>11, <1>12, <1>13

\* How it moves the average they are measured against.
LEMMA AverageMoves ==
  ASSUME CountsTypeOK, NEW u \in Students, NEW t \in Tasks, NEW correct \in BOOLEAN,
         RecordAnswer(u, t, correct), Tried # {}
  PROVE  /\ AverageSuccess \in Int /\ AverageSuccess' \in Int
         /\ correct => AverageSuccess <= AverageSuccess'
         /\ ~correct => AverageSuccess' <= AverageSuccess
         /\ t \in Tried /\ correct =>
              AverageSuccess' - RateOf(Students, t)' <= AverageSuccess - RateOf(Students, t)
         /\ t \in Tried /\ ~correct =>
              AverageSuccess - RateOf(Students, t) <= AverageSuccess' - RateOf(Students, t)'
<1> DEFINE f == Rates
           g == Rates'
           D == Tried
<1>1. D \subseteq Tasks /\ IsFiniteSet(D) /\ f \in [D -> 0 .. One] /\ DOMAIN f = D
      /\ \A x \in D : f[x] = RateOf(Students, x)
  BY TriedFacts
<1>2. /\ Tried' = D \cup {t}
      /\ \A x \in Tasks : RateOf(Students, x)' \in 0 .. One
      /\ \A x \in Tasks \ {t} : RateOf(Students, x)' = RateOf(Students, x)
      /\ t \in D /\ correct => RateOf(Students, t)' >= RateOf(Students, t)
      /\ t \in D /\ ~correct => RateOf(Students, t)' <= RateOf(Students, t)
      /\ t \notin D /\ correct => RateOf(Students, t)' = One
      /\ t \notin D /\ ~correct => RateOf(Students, t)' = 0
  BY RateMoves
<1>3. g = [x \in D \cup {t} |-> RateOf(Students, x)']
  BY <1>2 DEF Rates
<1>4. g \in [D \cup {t} -> 0 .. One] /\ \A x \in D \cup {t} : g[x] = RateOf(Students, x)'
  BY <1>1, <1>2, <1>3
<1>5. AverageSuccess = Average(f) /\ AverageSuccess' = Average(g)
  <2>1. DOMAIN g = D \cup {t}
    BY <1>3
  <2>2. AverageSuccess' = SumFunction(g) \div Cardinality(Tried')
    BY DEF AverageSuccess
  <2>3. AverageSuccess = SumFunction(f) \div Cardinality(D)
    BY DEF AverageSuccess
  <2> QED BY <1>1, <1>2, <2>1, <2>2, <2>3 DEF Average
<1>6. One \in Nat /\ RateOf(Students, t)' \in Int
  BY <1>2, OneFacts
<1> HIDE DEF f, g, D
<1>7. CASE t \in D
  <2>1. D \cup {t} = D
    BY <1>7
  <2>2. f \in [D -> Int] /\ g \in [D -> Int]
    BY <1>1, <1>4, <2>1
  <2>3. (\A y \in D \ {t} : g[y] = f[y]) /\ g[t] = RateOf(Students, t)' /\ f[t] = RateOf(Students, t)
    BY <1>1, <1>2, <1>4, <1>7
  <2>4. CASE correct
    <3>1. f[t] <= g[t]
      BY <1>1, <1>2, <1>4, <1>7, <2>2, <2>3, <2>4
    <3>2. /\ Average(f) \in Int /\ Average(g) \in Int
          /\ Average(f) <= Average(g) /\ Average(g) - g[t] <= Average(f) - f[t]
      BY <1>1, <1>7, <2>2, <2>3, <3>1, AverageOfChanged
    <3> QED BY <1>5, <2>3, <2>4, <3>2
  <2>5. CASE ~correct
    <3>1. g[t] <= f[t]
      BY <1>1, <1>2, <1>4, <1>7, <2>2, <2>3, <2>5
    <3>2. /\ Average(f) \in Int /\ Average(g) \in Int
          /\ Average(g) <= Average(f) /\ Average(f) - f[t] <= Average(g) - g[t]
      BY <1>1, <1>7, <2>2, <2>3, <3>1, AverageOfChanged
    <3> QED BY <1>5, <2>3, <2>5, <3>2
  <2> QED BY <2>4, <2>5
<1>8. CASE t \notin D
  <2>1. (\A y \in D : g[y] = f[y]) /\ g[t] = RateOf(Students, t)'
    BY <1>1, <1>2, <1>4, <1>8
  <2>2. D # {}
    BY DEF D
  <2>3. /\ Average(f) \in Int /\ Average(g) \in Int
        /\ g[t] = One => Average(f) <= Average(g)
        /\ g[t] = 0 => Average(g) <= Average(f)
    BY <1>1, <1>4, <1>6, <1>8, <2>1, <2>2, AverageOfExtended
  <2> QED BY <1>2, <1>5, <1>8, <2>1, <2>3 DEF D
<1> QED BY <1>7, <1>8 DEF D

\* A right answer makes its task look easier and the others harder, a wrong one
\* the opposite (CourseCalibration).
THEOREM AnswersMoveDifficultyRightly == CalibrationSpec => AnswersMoveDifficulty
<1>1. CourseTypeOK /\ [NextCourse]_course => [AnswerMovesRightly]_course
  <2> SUFFICES ASSUME CourseTypeOK, NextCourse, NEW y \in Tried
               PROVE  LET before == SuggestedDifficulty(y)
                          after == SuggestedDifficulty(y)'
                          hit == \E u \in Students : right'[u][y] + wrong'[u][y] # right[u][y] + wrong[u][y]
                          answered == right' # right
                      IN  IF hit = answered THEN after <= before ELSE after >= before
    BY DEF AnswerMovesRightly
  <2> DEFINE A == AverageSuccess
             B == AverageSuccess'
             r == RateOf(Students, y)
             q == RateOf(Students, y)'
             d == Difficulty[y]
             before == SuggestedDifficulty(y)
             after == SuggestedDifficulty(y)'
             hit == \E u \in Students : right'[u][y] + wrong'[u][y] # right[u][y] + wrong[u][y]
             answered == right' # right
  <2>1. PICK u \in Students, t \in Tasks, correct \in BOOLEAN : RecordAnswer(u, t, correct)
    BY DEF NextCourse
  <2>2. CountsTypeOK /\ Tried \subseteq Tasks
    BY DEF CourseTypeOK, CountsTypeOK, Tried
  <2>3. /\ A \in Int /\ B \in Int
        /\ correct => A <= B
        /\ ~correct => B <= A
        /\ t \in Tried /\ correct => B - RateOf(Students, t)' <= A - RateOf(Students, t)
        /\ t \in Tried /\ ~correct => A - RateOf(Students, t) <= B - RateOf(Students, t)'
    BY <2>1, <2>2, AverageMoves
  <2>4. /\ q \in 0 .. One /\ (y # t => q = r)
    BY <2>1, <2>2, RateMoves
  <2>5. r \in 0 .. One /\ d \in Nat \ {0} /\ One \in Nat \ {0}
    BY <2>2, RateFacts, OneFacts, CatalogueAssumption
  <2>6. before = Clamp(d * (One + A - r), One, 10 * One) /\ after = Clamp(d * (One + B - q), One, 10 * One)
    BY DEF SuggestedDifficulty
  <2>7. (hit <=> y = t) /\ (answered <=> correct)
    <3>1. /\ right' = IF correct THEN [right EXCEPT ![u][t] = @ + 1] ELSE right
          /\ wrong' = IF correct THEN wrong ELSE [wrong EXCEPT ![u][t] = @ + 1]
      BY <2>1 DEF RecordAnswer
    <3>2. \A v \in Students : \A x \in Tasks : right[v][x] \in Nat /\ wrong[v][x] \in Nat
      BY <2>2 DEF CountsTypeOK
    <3>3. CASE correct
      BY <2>2, <3>1, <3>2, <3>3 DEF CountsTypeOK
    <3>4. CASE ~correct
      BY <2>2, <3>1, <3>2, <3>4 DEF CountsTypeOK
    <3> QED BY <3>3, <3>4
  <2> HIDE DEF A, B, r, q, d, before, after, hit, answered
  <2>8. before \in Int /\ after \in Int
    <3>1. One + A - r \in Int /\ One + B - q \in Int
      BY <2>3, <2>4, <2>5
    <3>2. before \in One .. 10 * One
      BY <2>5, <2>6, <3>1, ClampFacts
    <3>3. after \in One .. 10 * One
      BY <2>5, <2>6, <3>1, ClampFacts
    <3> QED BY <3>2, <3>3
  <2>9. ASSUME B - q <= A - r PROVE after <= before
    <3>1. One + A - r \in Int /\ One + B - q \in Int /\ One + B - q <= One + A - r
      BY <2>3, <2>4, <2>5, <2>9
    <3> QED BY <2>5, <2>6, <3>1, ClampFacts
  <2>10. ASSUME A - r <= B - q PROVE before <= after
    <3>1. One + A - r \in Int /\ One + B - q \in Int /\ One + A - r <= One + B - q
      BY <2>3, <2>4, <2>5, <2>10
    <3> QED BY <2>5, <2>6, <3>1, ClampFacts
  <2>11. CASE y = t
    <3>1. (correct => B - q <= A - r) /\ (~correct => A - r <= B - q)
      BY <2>3, <2>11 DEF q, r
    <3> QED BY <2>7, <2>8, <2>9, <2>10, <2>11, <3>1 DEF before, after, hit, answered
  <2>12. CASE y # t
    <3>1. (correct => A - r <= B - q) /\ (~correct => B - q <= A - r)
      BY <2>3, <2>4, <2>5, <2>12
    <3> QED BY <2>7, <2>8, <2>9, <2>10, <2>12, <3>1 DEF before, after, hit, answered
  <2> QED BY <2>11, <2>12
<1> QED BY <1>1, CourseInitial, CourseStep, PTL DEF CalibrationSpec, AnswersMoveDifficulty
=============================================================================
