------------------------ MODULE AttemptEvents_proofs ------------------------
(***************************************************************************)
(* Proofs about the attempt pipeline, for any set of answers, any number   *)
(* of partitions, any log and session bounds and any choice of faults.     *)
(***************************************************************************)
EXTENDS AttemptEvents, TLAPS

USE BoundsAssumption, NoMessageAssumption

\* What the accessors of a message are: used wherever an action builds one.
LEMMA MsgFields ==
  ASSUME NEW p \in Partitions, NEW o \in Offset
  PROVE  /\ Msg(p, o) \in Message
         /\ Msg(p, o).part = p
         /\ Msg(p, o).off = o
BY DEF Msg, Message

\* A message is determined by its partition and its offset.
LEMMA MessageParts ==
  ASSUME NEW m \in Message
  PROVE  /\ m.part \in Partitions
         /\ m.off \in Offset
         /\ m.off \in Nat
         /\ m.off # 0
         /\ m = Msg(m.part, m.off)
BY DEF Msg, Message, Offset

\* Appending an answer to a partition's log makes it one message longer.
LEMMA AppendLength ==
  ASSUME NEW a \in Answers, NEW s \in Seq(Answers)
  PROVE  Append(s, a) \in Seq(Answers) /\ Len(Append(s, a)) = Len(s) + 1
OBVIOUS

-----------------------------------------------------------------------------
(* Type correctness. *)

LEMMA TypeInit == Init => TypeOK
<1> SUFFICES ASSUME Init PROVE TypeOK
  OBVIOUS
<1>1. /\ \A p \in Partitions : Len(log[p]) \in 0 .. MaxLog
      /\ log \in [Partitions -> Seq(Answers)]
  BY DEF Init
<1>2. sessions \in 1 .. MaxSessions
  BY DEF Init
<1> QED
  BY <1>1, <1>2 DEF Init, TypeOK, Busy

LEMMA TypeNext == TypeOK /\ [Next]_vars => TypeOK'
<1> SUFFICES ASSUME TypeOK, [Next]_vars PROVE TypeOK'
  OBVIOUS
<1> USE DEF TypeOK, Busy, broker
<1>1. ASSUME NEW a \in Answers, Publish(a) PROVE TypeOK'
  BY <1>1 DEF Publish
<1>2. ASSUME NEW a \in Answers, PublishLost(a) PROVE TypeOK'
  BY <1>2 DEF PublishLost
<1>3. ASSUME NEW a \in Answers, NEW p \in Partitions, NEW acked \in BOOLEAN,
             BrokerAppend(a, p, acked)
      PROVE  TypeOK'
  <2>1. /\ Append(log[p], a) \in Seq(Answers)
        /\ Len(Append(log[p], a)) = Len(log[p]) + 1
    BY AppendLength
  <2>2. log' \in [Partitions -> Seq(Answers)]
    BY <1>3, <2>1 DEF BrokerAppend
  <2>3. \A q \in Partitions : Len(log'[q]) \in 0 .. MaxLog
    BY <1>3, <2>1 DEF BrokerAppend
  <2> QED
    BY <1>3, <2>2, <2>3 DEF BrokerAppend
<1>4. ASSUME NEW p \in Partitions, Fetch(p) PROVE TypeOK'
  <2>1. pos[p] + 1 \in Offset /\ pos[p] + 1 \in 0 .. MaxLog
    BY <1>4 DEF Fetch, Offset
  <2>2. cur' \in Message
    BY <1>4, <2>1, MsgFields DEF Fetch
  <2> QED
    BY <1>4, <2>1, <2>2 DEF Fetch
<1>5. CASE FetchError
  BY <1>5 DEF FetchError
<1>6. CASE ResolveTask
  BY <1>6 DEF ResolveTask
<1>7. CASE AddAttempt
  BY <1>7 DEF AddAttempt
<1>8. ASSUME NEW written \in BOOLEAN, HandlerError(written) PROVE TypeOK'
  BY <1>8 DEF HandlerError
<1>9. CASE CommitMessages
  BY <1>9 DEF CommitMessages, Message, Offset
<1>10. ASSUME NEW applied \in BOOLEAN, CommitError(applied) PROVE TypeOK'
  BY <1>10 DEF CommitError, Message, Offset
<1>11. CASE Crash
  BY <1>11 DEF Crash
<1>12. CASE Restart
  BY <1>12 DEF Restart
<1>13. CASE Rejoin
  BY <1>13 DEF Rejoin
<1>14. CASE UNCHANGED vars
  BY <1>14 DEF vars
<1>15. CASE Producer
  BY <1>1, <1>2, <1>3, <1>15 DEF Producer
<1>16. CASE Loop
  BY <1>4, <1>5, <1>6, <1>7, <1>8, <1>9, <1>10, <1>16 DEF Loop
<1>17. CASE Process
  BY <1>11, <1>12, <1>13, <1>17 DEF Process
<1> QED
  BY <1>14, <1>15, <1>16, <1>17 DEF Next

\* Every reachable state is well formed, whatever fails.
THEOREM TypeCorrect == Spec => []TypeOK
<1>1. Init => TypeOK
  BY TypeInit
<1>2. TypeOK /\ [Next]_vars => TypeOK'
  BY TypeNext
<1> QED
  BY <1>1, <1>2, PTL DEF Spec

-----------------------------------------------------------------------------
(* The inductive invariant: one lemma per action. *)

PipelineState == <<committed, pos, cpc, cur, rows, failed, sessions>>

LEMMA InvInit == Init => PipelineInv
<1> SUFFICES ASSUME Init PROVE PipelineInv
  OBVIOUS
<1>1. TypeOK
  BY TypeInit
<1>2. PointersInLog
  BY <1>1 DEF Init, PointersInLog, TypeOK, Busy
<1>3. PrefixHandled /\ CommittedIsHandled
  BY MessageParts DEF Init, PrefixHandled, CommittedIsHandled, Busy, Offset
<1>4. CommitFollowsRow /\ SessionsPayForRows /\ LastCommittedRecorded
  BY MessageParts
  DEF Init, CommitFollowsRow, SessionsPayForRows, LastCommittedRecorded,
      InHand, Unfetched
<1> QED
  BY <1>1, <1>2, <1>3, <1>4 DEF PipelineInv

\* The producer and the broker only make logs longer: the consumer's side of
\* the invariant does not notice.
LEMMA InvGrowingLog ==
  ASSUME PipelineInv, TypeOK', UNCHANGED PipelineState,
         \A p \in Partitions : Len(log[p]) <= Len(log'[p])
  PROVE  PipelineInv'
<1>1. PointersInLog'
  BY MessageParts
  DEF PipelineInv, PointersInLog, TypeOK, PipelineState, Busy, Published
<1>2. PrefixHandled' /\ CommitFollowsRow' /\ SessionsPayForRows'
  BY DEF PipelineInv, PipelineState, PrefixHandled, CommitFollowsRow,
         SessionsPayForRows, Busy, Handled, InHand, Unfetched
<1>3. CommittedIsHandled' /\ LastCommittedRecorded'
  BY DEF PipelineInv, PipelineState, CommittedIsHandled,
         LastCommittedRecorded, Handled
<1> QED
  BY <1>1, <1>2, <1>3 DEF PipelineInv

LEMMA InvProducer == PipelineInv /\ TypeOK' /\ Producer => PipelineInv'
<1> SUFFICES ASSUME PipelineInv, TypeOK', NEW a \in Answers,
                    \/ Publish(a)
                    \/ PublishLost(a)
                    \/ \E p \in Partitions, acked \in BOOLEAN :
                         BrokerAppend(a, p, acked)
             PROVE  PipelineInv'
  BY DEF Producer
<1>1. CASE Publish(a) \/ PublishLost(a)
  <2>1. UNCHANGED <<log, PipelineState>>
    BY <1>1 DEF Publish, PublishLost, PipelineState
  <2>2. \A p \in Partitions : Len(log[p]) <= Len(log'[p])
    BY <2>1 DEF PipelineInv, TypeOK
  <2> QED
    BY <2>1, <2>2, InvGrowingLog
<1>2. ASSUME NEW p \in Partitions, NEW acked \in BOOLEAN,
             BrokerAppend(a, p, acked)
      PROVE  PipelineInv'
  <2>1. UNCHANGED PipelineState
    BY <1>2 DEF BrokerAppend, PipelineState
  <2>2. Len(Append(log[p], a)) = Len(log[p]) + 1
    BY AppendLength DEF PipelineInv, TypeOK
  <2>3. \A q \in Partitions : Len(log[q]) <= Len(log'[q])
    BY <1>2, <2>2 DEF BrokerAppend, PipelineInv, TypeOK
  <2> QED
    BY <2>1, <2>3, InvGrowingLog
<1> QED
  BY <1>1, <1>2

\* Fetching moves the position to the message taken in hand.
LEMMA InvFetch ==
  ASSUME PipelineInv, TypeOK', NEW p \in Partitions, Fetch(p)
  PROVE  PipelineInv'
<1> DEFINE o == pos[p] + 1
<1> USE DEF PipelineInv
<1>1. /\ o \in Offset /\ pos[p] \in Nat
      /\ cur' = Msg(p, o) /\ cur' \in Message
      /\ cur'.part = p /\ cur'.off = o
  <2>1. o \in Offset /\ pos[p] \in Nat
    BY DEF Fetch, TypeOK, Offset
  <2> QED
    BY <2>1, MsgFields DEF Fetch
<1>2. PointersInLog'
  BY <1>1 DEF Fetch, PointersInLog, TypeOK, Busy, Published, broker
<1>3. \A m \in Message : m.off <= pos[m.part] => Handled(m)
  BY DEF Fetch, PrefixHandled, Busy
<1>4. \A m \in Message : Handled(m) => Handled(m)'
  BY DEF Fetch, Handled
<1>5. PrefixHandled'
  <2>1. ASSUME NEW m \in Message, m.off <= pos'[m.part]
        PROVE  Handled(m)' \/ m = cur'
    <3>1. CASE m.part = p /\ m.off = o
      BY <3>1, <1>1, MessageParts
    <3>2. CASE ~(m.part = p /\ m.off = o)
      <4>1. m.off <= pos[m.part]
        <5>1. m.part \in Partitions /\ m.off \in Nat
          BY MessageParts
        <5>2. pos' = [pos EXCEPT ![p] = o] /\ pos \in [Partitions -> Nat]
          BY DEF Fetch, TypeOK
        <5> QED
          BY <2>1, <3>2, <1>1, <5>1, <5>2
      <4> QED
        BY <4>1, <1>3, <1>4
    <3> QED
      BY <3>1, <3>2
  <2>2. ASSUME NEW m \in Message, m.part = cur'.part, m.off < cur'.off
        PROVE  Handled(m)'
    <3>1. m.off <= pos[m.part]
      BY <2>2, <1>1, MessageParts
    <3> QED
      BY <3>1, <1>3, <1>4
  <2>3. Busy'
    BY DEF Fetch, Busy
  <2> QED
    BY <2>1, <2>2, <2>3 DEF PrefixHandled
<1>6. CommitFollowsRow'
  BY DEF Fetch, CommitFollowsRow
<1>7. SessionsPayForRows'
  <2> SUFFICES ASSUME NEW m \in Message
               PROVE  rows'[m] + (IF InHand(m)' THEN 1 ELSE 0)
                        + (IF Unfetched(m)' THEN 1 ELSE 0) <= sessions'
    BY DEF SessionsPayForRows
  <2>1. /\ rows' = rows /\ sessions' = sessions
        /\ rows[m] \in Nat /\ sessions \in Nat
        /\ ~InHand(m)
        /\ rows[m] + (IF Unfetched(m) THEN 1 ELSE 0) <= sessions
    BY DEF Fetch, SessionsPayForRows, InHand, TypeOK
  <2>2. CASE m = cur'
    <3>1. Unfetched(m) /\ ~Unfetched(m)'
      BY <2>2, <1>1 DEF Fetch, Unfetched, TypeOK
    <3> QED
      BY <2>1, <3>1
  <2>3. CASE m # cur'
    <3>1. ~InHand(m)'
      BY <2>3 DEF InHand
    <3>2. Unfetched(m)' => Unfetched(m)
      BY <2>3, <1>1, MessageParts DEF Fetch, Unfetched, TypeOK
    <3> QED
      BY <2>1, <3>1, <3>2
  <2> QED
    BY <2>2, <2>3
<1>8. CommittedIsHandled' /\ LastCommittedRecorded'
  BY DEF Fetch, CommittedIsHandled, LastCommittedRecorded, Handled
<1> QED
  BY <1>2, <1>5, <1>6, <1>7, <1>8

LEMMA InvResolve ==
  ASSUME PipelineInv, TypeOK', ResolveTask
  PROVE  PipelineInv'
<1> USE DEF PipelineInv
<1>1. PointersInLog'
  BY DEF ResolveTask, PointersInLog, Busy, Published, broker
<1>2. PrefixHandled'
  BY DEF ResolveTask, PrefixHandled, Busy, Handled
<1>3. CommitFollowsRow'
  BY DEF ResolveTask, CommitFollowsRow
<1>4. SessionsPayForRows'
  BY DEF ResolveTask, SessionsPayForRows, InHand, Unfetched
<1>5. CommittedIsHandled' /\ LastCommittedRecorded'
  BY DEF ResolveTask, CommittedIsHandled, LastCommittedRecorded, Handled
<1> QED
  BY <1>1, <1>2, <1>3, <1>4, <1>5

\* The session that fetched the message pays for its row.
LEMMA InvAddAttempt ==
  ASSUME PipelineInv, TypeOK', AddAttempt
  PROVE  PipelineInv'
<1> USE DEF PipelineInv
<1>1. cur \in Message
  BY DEF AddAttempt, TypeOK, Busy
<1>2. \A m \in Message : /\ Handled(m) => Handled(m)'
                         /\ rows[m] > 0 => rows'[m] > 0
  <2>1. /\ \/ rows' = rows
           \/ cur \in Message /\ rows' = [rows EXCEPT ![cur] = @ + 1]
        /\ failed \subseteq failed'
    BY <1>1 DEF AddAttempt
  <2>2. rows \in [Message -> Nat]
    BY DEF TypeOK
  <2>3. \A m \in Message : rows[m] > 0 => rows'[m] > 0
    BY <2>1, <2>2
  <2> QED
    BY <2>1, <2>3 DEF Handled
<1>3. PointersInLog'
  BY DEF AddAttempt, PointersInLog, Busy, Published, broker
<1>4. PrefixHandled'
  BY <1>2 DEF AddAttempt, PrefixHandled, Busy
<1>5. CommitFollowsRow'
  BY <1>1 DEF AddAttempt, CommitFollowsRow, TypeOK
<1>6. SessionsPayForRows'
  <2> SUFFICES ASSUME NEW m \in Message
               PROVE  rows'[m] + (IF InHand(m)' THEN 1 ELSE 0)
                        + (IF Unfetched(m)' THEN 1 ELSE 0) <= sessions'
    BY DEF SessionsPayForRows
  <2>1. /\ rows[m] \in Nat /\ sessions \in Nat /\ sessions' = sessions
        /\ ~InHand(m)'
        /\ Unfetched(m)' <=> Unfetched(m)
        /\ rows[m] + (IF InHand(m) THEN 1 ELSE 0)
             + (IF Unfetched(m) THEN 1 ELSE 0) <= sessions
    BY DEF AddAttempt, SessionsPayForRows, InHand, Unfetched, TypeOK
  <2>2. CASE m = cur
    <3>1. InHand(m) /\ rows'[m] = rows[m] + 1
      BY <2>2, <1>1 DEF AddAttempt, InHand, TypeOK
    <3> QED
      BY <2>1, <3>1
  <2>3. CASE m # cur
    <3>1. rows'[m] = rows[m]
      BY <2>3, <1>1 DEF AddAttempt, TypeOK
    <3> QED
      BY <2>1, <3>1
  <2> QED
    BY <2>2, <2>3
<1>7. CommittedIsHandled'
  BY <1>2 DEF AddAttempt, CommittedIsHandled
<1>8. LastCommittedRecorded'
  <2> SUFFICES ASSUME NEW p \in Partitions, committed[p] > 0
               PROVE  rows'[Msg(p, committed[p])] > 0
    BY DEF AddAttempt, LastCommittedRecorded
  <2>1. committed[p] \in Offset
    BY DEF TypeOK, Offset
  <2> QED
    BY <2>1, <1>2, MsgFields DEF LastCommittedRecorded
<1> QED
  BY <1>3, <1>4, <1>5, <1>6, <1>7, <1>8

LEMMA InvHandlerError ==
  ASSUME PipelineInv, TypeOK', NEW written \in BOOLEAN, HandlerError(written)
  PROVE  PipelineInv'
<1> USE DEF PipelineInv
<1>1. cur \in Message /\ Busy /\ ~Busy' /\ cpc' = "fetch" /\ cpc # "down"
      /\ InHand(cur)
  BY DEF HandlerError, TypeOK, Busy, InHand
<1>2. \A m \in Message : /\ Handled(m) => Handled(m)'
                         /\ rows[m] > 0 => rows'[m] > 0
  <2>1. /\ \/ rows' = rows
           \/ cur \in Message /\ rows' = [rows EXCEPT ![cur] = @ + 1]
        /\ failed \subseteq failed'
    BY <1>1 DEF HandlerError
  <2>2. rows \in [Message -> Nat]
    BY DEF TypeOK
  <2>3. \A m \in Message : rows[m] > 0 => rows'[m] > 0
    BY <2>1, <2>2
  <2> QED
    BY <2>1, <2>3 DEF Handled
<1>3. PointersInLog'
  BY <1>1 DEF HandlerError, PointersInLog, broker
<1>4. PrefixHandled'
  <2>1. ASSUME NEW m \in Message, m.off <= pos'[m.part] PROVE Handled(m)'
    <3>1. Handled(m) \/ m = cur
      BY <2>1, <1>1 DEF PrefixHandled, HandlerError
    <3>2. cur \in failed'
      BY DEF HandlerError
    <3> QED
      BY <3>1, <3>2, <1>2 DEF Handled
  <2> QED
    BY <2>1, <1>1 DEF PrefixHandled
<1>5. CommitFollowsRow'
  BY DEF HandlerError, CommitFollowsRow
<1>6. SessionsPayForRows'
  <2> SUFFICES ASSUME NEW m \in Message
               PROVE  rows'[m] + (IF InHand(m)' THEN 1 ELSE 0)
                        + (IF Unfetched(m)' THEN 1 ELSE 0) <= sessions'
    BY DEF SessionsPayForRows
  <2>1. /\ rows[m] \in Nat /\ sessions \in Nat /\ sessions' = sessions
        /\ rows[m] + (IF InHand(m) THEN 1 ELSE 0)
             + (IF Unfetched(m) THEN 1 ELSE 0) <= sessions
    BY DEF HandlerError, SessionsPayForRows, TypeOK
  <2>2. ~InHand(m)' /\ (Unfetched(m)' <=> Unfetched(m))
    BY <1>1 DEF HandlerError, InHand, Unfetched
  <2>3. CASE m = cur
    <3>1. InHand(m) /\ rows'[m] \in {rows[m], rows[m] + 1}
      BY <2>3, <1>1 DEF HandlerError, TypeOK
    <3> QED
      BY <2>1, <2>2, <3>1
  <2>4. CASE m # cur
    <3>1. rows'[m] = rows[m]
      BY <2>4, <1>1 DEF HandlerError, TypeOK
    <3> QED
      BY <2>1, <2>2, <3>1
  <2> QED
    BY <2>3, <2>4
<1>7. CommittedIsHandled'
  BY <1>2 DEF HandlerError, CommittedIsHandled
<1>8. LastCommittedRecorded'
  <2> SUFFICES ASSUME NEW p \in Partitions, committed[p] > 0
               PROVE  rows'[Msg(p, committed[p])] > 0
    BY DEF HandlerError, LastCommittedRecorded
  <2>1. committed[p] \in Offset
    BY DEF TypeOK, Offset
  <2> QED
    BY <2>1, <1>2, MsgFields DEF LastCommittedRecorded
<1> QED
  BY <1>3, <1>4, <1>5, <1>6, <1>7, <1>8

\* Leaving the commit step, with the offset moved or not.
LEMMA InvCommit ==
  ASSUME PipelineInv, TypeOK', cpc = "commit", cpc' \in {"fetch", "stopped"},
         \/ committed' = committed
         \/ committed' = [committed EXCEPT ![cur.part] = cur.off],
         UNCHANGED <<broker, pos, rows, failed, sessions>>
  PROVE  PipelineInv'
<1> USE DEF PipelineInv
<1>1. /\ cur \in Message /\ Busy /\ ~Busy' /\ cpc' # "down" /\ cpc # "down"
      /\ rows[cur] > 0 /\ Handled(cur)
      /\ cur.part \in Partitions /\ cur.off \in Offset
      /\ cur.off <= Len(log[cur.part])
  BY DEF TypeOK, Busy, CommitFollowsRow, Handled, PointersInLog, Published,
         Message
<1>2. PointersInLog'
  BY <1>1 DEF PointersInLog, broker, TypeOK
<1>3. PrefixHandled'
  BY <1>1 DEF PrefixHandled, Handled
<1>4. CommitFollowsRow'
  BY DEF CommitFollowsRow
<1>5. SessionsPayForRows'
  <2>1. \A m \in Message : /\ ~InHand(m) /\ ~InHand(m)'
                           /\ Unfetched(m)' <=> Unfetched(m)
    BY <1>1 DEF InHand, Unfetched
  <2> QED
    BY <2>1 DEF SessionsPayForRows
<1>6. CommittedIsHandled'
  <2> SUFFICES ASSUME NEW m \in Message, m.off <= committed'[m.part]
               PROVE  Handled(m)
    BY DEF CommittedIsHandled, Handled
  <2>1. CASE m.off <= committed[m.part]
    BY <2>1 DEF CommittedIsHandled
  <2>2. CASE ~(m.off <= committed[m.part])
    <3>1. m.part = cur.part /\ m.off <= cur.off
      BY <2>2, <1>1, MessageParts DEF TypeOK
    <3>2. CASE m.off < cur.off
      BY <3>1, <3>2, <1>1 DEF PrefixHandled
    <3>3. CASE m.off = cur.off
      <4>1. m = cur
        BY <3>1, <3>3, <1>1, MessageParts
      <4> QED
        BY <4>1, <1>1
    <3> QED
      BY <3>1, <3>2, <3>3, <1>1, MessageParts DEF Offset
  <2> QED
    BY <2>1, <2>2
<1>7. LastCommittedRecorded'
  <2> SUFFICES ASSUME NEW p \in Partitions, committed'[p] > 0
               PROVE  rows[Msg(p, committed'[p])] > 0
    BY DEF LastCommittedRecorded
  <2>1. CASE committed'[p] = committed[p]
    BY <2>1 DEF LastCommittedRecorded
  <2>2. CASE committed'[p] # committed[p]
    <3>1. p = cur.part /\ committed'[p] = cur.off
      BY <2>2, <1>1 DEF TypeOK
    <3>2. cur = Msg(p, committed'[p])
      BY <3>1, <1>1, MessageParts
    <3> QED
      BY <3>2, <1>1
  <2> QED
    BY <2>1, <2>2
<1> QED
  BY <1>2, <1>3, <1>4, <1>5, <1>6, <1>7

\* Starting over from the committed offsets: a new session for every message.
LEMMA InvNewSession ==
  ASSUME PipelineInv, TypeOK', Restart \/ Rejoin
  PROVE  PipelineInv'
<1> USE DEF PipelineInv
<1>1. /\ UNCHANGED <<broker, committed, cur, rows, failed>>
      /\ pos' = committed
      /\ sessions' = sessions + 1
      /\ Busy' <=> Busy
      /\ \A m \in Message : InHand(m)' <=> InHand(m)
  BY DEF Restart, Rejoin, Busy, InHand
<1>2. PointersInLog'
  BY <1>1 DEF PointersInLog, broker, Published
<1>3. PrefixHandled'
  BY <1>1 DEF PrefixHandled, CommittedIsHandled, Handled
<1>4. CommitFollowsRow'
  BY DEF Restart, Rejoin, CommitFollowsRow
<1>5. SessionsPayForRows'
  <2> SUFFICES ASSUME NEW m \in Message
               PROVE  rows'[m] + (IF InHand(m)' THEN 1 ELSE 0)
                        + (IF Unfetched(m)' THEN 1 ELSE 0) <= sessions'
    BY DEF SessionsPayForRows
  <2>1. rows[m] \in Nat /\ sessions \in Nat
    BY DEF TypeOK
  <2>2. rows[m] + (IF InHand(m) THEN 1 ELSE 0)
          + (IF Unfetched(m) THEN 1 ELSE 0) <= sessions
    BY DEF SessionsPayForRows
  <2>3. rows[m] + (IF InHand(m) THEN 1 ELSE 0) <= sessions
    BY <2>1, <2>2
  <2> QED
    BY <1>1, <2>1, <2>3
<1>6. CommittedIsHandled' /\ LastCommittedRecorded'
  BY <1>1 DEF CommittedIsHandled, LastCommittedRecorded, Handled
<1> QED
  BY <1>2, <1>3, <1>4, <1>5, <1>6

\* The loop ends or the process dies, holding nothing that was promised.
LEMMA InvStop ==
  ASSUME PipelineInv, TypeOK', FetchError \/ Crash
  PROVE  PipelineInv'
<1> USE DEF PipelineInv
<1>1. /\ UNCHANGED <<broker, committed, pos, rows, failed, sessions>>
      /\ ~Busy' /\ cpc' \in {"stopped", "down"}
      /\ cpc' # "down" => cpc # "down" /\ ~Busy
  BY DEF FetchError, Crash, Busy
<1>2. PointersInLog'
  BY <1>1 DEF PointersInLog, broker
<1>3. PrefixHandled'
  BY <1>1 DEF PrefixHandled, Handled
<1>4. CommitFollowsRow'
  BY <1>1 DEF CommitFollowsRow
<1>5. SessionsPayForRows'
  <2>1. \A m \in Message : ~InHand(m)' /\ (Unfetched(m)' => Unfetched(m))
    BY <1>1 DEF InHand, Unfetched
  <2> SUFFICES ASSUME NEW m \in Message
               PROVE  rows[m] + (IF InHand(m)' THEN 1 ELSE 0)
                        + (IF Unfetched(m)' THEN 1 ELSE 0) <= sessions
    BY <1>1 DEF SessionsPayForRows
  <2>2. rows[m] \in Nat /\ sessions \in Nat
    BY DEF TypeOK
  <2>3. rows[m] + (IF InHand(m) THEN 1 ELSE 0)
          + (IF Unfetched(m) THEN 1 ELSE 0) <= sessions
    BY DEF SessionsPayForRows
  <2> QED
    BY <2>1, <2>2, <2>3
<1>6. CommittedIsHandled' /\ LastCommittedRecorded'
  BY <1>1 DEF CommittedIsHandled, LastCommittedRecorded, Handled
<1> QED
  BY <1>2, <1>3, <1>4, <1>5, <1>6

LEMMA InvNext == PipelineInv /\ [Next]_vars => PipelineInv'
<1> SUFFICES ASSUME PipelineInv, [Next]_vars PROVE PipelineInv'
  OBVIOUS
<1>1. TypeOK'
  BY TypeNext DEF PipelineInv
<1>2. CASE Producer
  BY <1>1, <1>2, InvProducer
<1>3. CASE \E p \in Partitions : Fetch(p)
  BY <1>1, <1>3, InvFetch
<1>4. CASE ResolveTask
  BY <1>1, <1>4, InvResolve
<1>5. CASE AddAttempt
  BY <1>1, <1>5, InvAddAttempt
<1>6. CASE \E written \in BOOLEAN : HandlerError(written)
  BY <1>1, <1>6, InvHandlerError
<1>7. CASE CommitMessages \/ \E applied \in BOOLEAN : CommitError(applied)
  <2>1. /\ cpc = "commit" /\ cpc' \in {"fetch", "stopped"}
        /\ \/ committed' = committed
           \/ committed' = [committed EXCEPT ![cur.part] = cur.off]
        /\ UNCHANGED <<broker, pos, rows, failed, sessions>>
    BY <1>7 DEF CommitMessages, CommitError
  <2> QED
    BY <1>1, <2>1, InvCommit
<1>8. CASE Restart \/ Rejoin
  BY <1>1, <1>8, InvNewSession
<1>9. CASE FetchError \/ Crash
  BY <1>1, <1>9, InvStop
<1>10. CASE UNCHANGED vars
  <2>1. /\ UNCHANGED PipelineState
        /\ \A p \in Partitions : Len(log[p]) <= Len(log'[p])
    BY <1>10 DEF vars, PipelineState, PipelineInv, TypeOK
  <2> QED
    BY <1>1, <2>1, InvGrowingLog
<1> QED
  BY <1>2, <1>3, <1>4, <1>5, <1>6, <1>7, <1>8, <1>9, <1>10
  DEF Next, Loop, Process

\* The inductive invariant holds in every reachable state.
THEOREM PipelineInvariant == Spec => []PipelineInv
<1> QED
  BY InvInit, InvNext, PTL DEF Spec

\* A committed offset never covers a message the service has not tried: what
\* a restart of the consumer skips was recorded or was refused.
THEOREM NothingSkippedUntried == Spec => []CommittedIsHandled
<1>1. PipelineInv => CommittedIsHandled
  BY DEF PipelineInv
<1> QED
  BY <1>1, PipelineInvariant, PTL

\* The message under a committed offset is in the attempts table.
THEOREM CommittedMessageRecorded == Spec => []LastCommittedRecorded
<1>1. PipelineInv => LastCommittedRecorded
  BY DEF PipelineInv
<1> QED
  BY <1>1, PipelineInvariant, PTL

\* Duplicate rows are bounded by the restarts and rejoins of the reader.
THEOREM DuplicatesBounded == Spec => []OneRowPerSession
<1>1. PipelineInv => OneRowPerSession
  <2> SUFFICES ASSUME PipelineInv, NEW m \in Message PROVE rows[m] <= sessions
    BY DEF OneRowPerSession
  <2>1. rows[m] \in Nat /\ sessions \in Nat
    BY DEF PipelineInv, TypeOK
  <2>2. rows[m] + (IF InHand(m) THEN 1 ELSE 0)
          + (IF Unfetched(m) THEN 1 ELSE 0) <= sessions
    BY DEF PipelineInv, SessionsPayForRows
  <2> QED
    BY <2>1, <2>2
<1> QED
  BY <1>1, PipelineInvariant, PTL

-----------------------------------------------------------------------------
(* The pipeline implements the ledger. *)

LEMMA LedgerPlaces == Ledger!Place = Message
BY DEF Ledger!Place, Message, Offset

\* A session that still has the message in hand pays for the row it adds.
LEMMA RowIsRecord ==
  ASSUME PipelineInv, cur \in Message, InHand(cur), Published(cur),
         rows' = [rows EXCEPT ![cur] = @ + 1],
         UNCHANGED <<log, committed, sessions>>
  PROVE  Ledger!Record(cur)
<1>1. rows[cur] \in Nat /\ sessions \in Nat /\ cur.part \in Partitions
  BY MessageParts DEF PipelineInv, TypeOK
<1>2. rows[cur] + (IF InHand(cur) THEN 1 ELSE 0)
        + (IF Unfetched(cur) THEN 1 ELSE 0) <= sessions
  BY DEF PipelineInv, SessionsPayForRows
<1>3. rows[cur] < sessions
  BY <1>1, <1>2
<1> QED
  BY <1>1, <1>3 DEF Ledger!Record, Published

LEMMA LedgerInit == Init => Ledger!Init
<1> SUFFICES ASSUME Init PROVE Ledger!Init
  OBVIOUS
<1>1. [p \in Partitions |-> Len(log[p])] = [p \in Partitions |-> 0]
  BY DEF Init
<1> QED
  BY <1>1, LedgerPlaces DEF Init, Ledger!Init

LEMMA LedgerNext ==
  PipelineInv /\ [Next]_vars => [Ledger!Next]_(Ledger!vars)
<1> SUFFICES ASSUME PipelineInv, [Next]_vars
             PROVE  Ledger!Next \/ UNCHANGED Ledger!vars
  OBVIOUS
<1> DEFINE Stutter == UNCHANGED <<log, rows, committed, sessions>>
<1>1. Stutter => UNCHANGED Ledger!vars
  BY DEF Ledger!vars
<1>2. ASSUME NEW a \in Answers, Publish(a) \/ PublishLost(a) PROVE Stutter
  BY <1>2 DEF Publish, PublishLost
<1>3. ASSUME NEW a \in Answers, NEW p \in Partitions, NEW acked \in BOOLEAN,
             BrokerAppend(a, p, acked)
      PROVE  Ledger!Accept(p)
  <2>1. log \in [Partitions -> Seq(Answers)]
    BY DEF PipelineInv, TypeOK
  <2>2. Len(Append(log[p], a)) = Len(log[p]) + 1
    BY <2>1, AppendLength
  <2>3. [q \in Partitions |-> Len(log'[q])]
          = [[q \in Partitions |-> Len(log[q])] EXCEPT ![p] = @ + 1]
    BY <1>3, <2>1, <2>2 DEF BrokerAppend
  <2> QED
    BY <1>3, <2>3 DEF BrokerAppend, Ledger!Accept
<1>4. CASE \/ \E p \in Partitions : Fetch(p)
           \/ FetchError \/ ResolveTask \/ Crash \/ UNCHANGED vars
  <2>1. Stutter
    BY <1>4 DEF Fetch, FetchError, ResolveTask, Crash, vars, broker
  <2> QED
    BY <1>1, <2>1
<1>5. CASE \/ AddAttempt
           \/ \E written \in BOOLEAN : HandlerError(written)
  <2>1. Busy /\ cur \in Message /\ InHand(cur) /\ Published(cur)
    BY <1>5 DEF AddAttempt, HandlerError, PipelineInv, TypeOK, Busy, InHand,
                PointersInLog
  <2>2. UNCHANGED <<log, committed, sessions>>
    BY <1>5 DEF AddAttempt, HandlerError, broker
  <2>3. rows' = rows \/ rows' = [rows EXCEPT ![cur] = @ + 1]
    BY <1>5 DEF AddAttempt, HandlerError
  <2>4. CASE rows' = rows
    BY <2>2, <2>4, <1>1
  <2>5. CASE rows' = [rows EXCEPT ![cur] = @ + 1]
    <3>1. Ledger!Record(cur)
      BY <2>1, <2>2, <2>5, RowIsRecord
    <3> QED
      BY <3>1, <2>1, LedgerPlaces DEF Ledger!Next
  <2> QED
    BY <2>3, <2>4, <2>5
<1>6. CASE \/ CommitMessages
           \/ \E applied \in BOOLEAN : CommitError(applied)
  <2>1. cur \in Message /\ rows[cur] > 0
    BY <1>6 DEF CommitMessages, CommitError, PipelineInv, TypeOK, Busy,
                CommitFollowsRow
  <2>2. UNCHANGED <<log, rows, sessions>>
    BY <1>6 DEF CommitMessages, CommitError, broker
  <2>3. \/ committed' = committed
        \/ committed' = [committed EXCEPT ![cur.part] = cur.off]
    BY <1>6 DEF CommitMessages, CommitError
  <2>4. CASE committed' = committed
    BY <2>2, <2>4, <1>1
  <2>5. CASE committed' = [committed EXCEPT ![cur.part] = cur.off]
    <3>1. Ledger!Acknowledge(cur)
      BY <2>1, <2>2, <2>5 DEF Ledger!Acknowledge
    <3> QED
      BY <3>1, <2>1, LedgerPlaces DEF Ledger!Next
  <2> QED
    BY <2>3, <2>4, <2>5
<1>7. CASE Restart \/ Rejoin
  <2>1. Ledger!NewSession
    BY <1>7 DEF Restart, Rejoin, Ledger!NewSession, broker
  <2> QED
    BY <2>1 DEF Ledger!Next
<1>8. CASE Producer
  <2>1. \/ \E a \in Answers : Publish(a) \/ PublishLost(a)
        \/ \E a \in Answers, p \in Partitions, acked \in BOOLEAN :
             BrokerAppend(a, p, acked)
    BY <1>8 DEF Producer
  <2> QED
    BY <2>1, <1>1, <1>2, <1>3 DEF Ledger!Next
<1> QED
  BY <1>4, <1>5, <1>6, <1>7, <1>8 DEF Next, Loop, Process

\* Every behaviour of the pipeline is one the ledger allows.
THEOREM ImplementsLedger == Spec => LedgerSpec
<1> QED
  BY LedgerInit, LedgerNext, PipelineInvariant, PTL
  DEF Spec, LedgerSpec, Ledger!Spec
=============================================================================
