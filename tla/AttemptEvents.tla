--------------------------- MODULE AttemptEvents ---------------------------
(***************************************************************************)
(* The attempt.evaluated pipeline: content-service publishes one event per *)
(* checked answer, the broker keeps them in a partitioned log, and the     *)
(* consumer goroutine of statistic-service turns each fetched message into *)
(* a row of the attempts table and then commits its offset.                *)
(*                                                                         *)
(* An answer is one call of publishAttempt; a message is a place of the    *)
(* log; "rows" counts the rows of the attempts table each message has      *)
(* produced (every delivery gets a fresh id, so nothing deduplicates).     *)
(***************************************************************************)
EXTENDS Naturals, Sequences

CONSTANTS
  Answers,      \* checked answers whose event the handler publishes
  Partitions,   \* partitions of the attempt-events topic
  Faults,       \* the failures the environment may inject, see FaultKinds
  NoMessage,    \* value of cur while the loop holds no message
  MaxLog,       \* bound: messages per partition
  MaxSessions   \* bound: reader sessions (first start, restarts, rejoins)

FaultKinds == {"publish", "resolve", "insert", "fetch", "commit", "crash", "rejoin"}

Offset == 1 .. MaxLog
Message == [part : Partitions, off : Offset]
Msg(p, o) == [part |-> p, off |-> o]

ASSUME BoundsAssumption == MaxLog \in Nat /\ MaxSessions \in Nat \ {0}
ASSUME NoMessageAssumption == NoMessage \notin Message
ASSUME FaultsAssumption == Faults \subseteq FaultKinds

VARIABLES
  pub,        \* per answer: "idle", "sending" (in the writer's batch), "done"
  log,        \* per partition: the answers of its messages, in log order
  committed,  \* per partition: messages the group's committed offset covers
  pos,        \* per partition: messages the current session has fetched
  cpc,        \* where the consume loop is
  cur,        \* the message the loop holds
  rows,       \* per message: rows of the attempts table it has produced
  failed,     \* messages whose handler returned an error at least once
  sessions    \* reader sessions so far

broker == <<pub, log>>
vars == <<pub, log, committed, pos, cpc, cur, rows, failed, sessions>>

Busy == cpc \in {"resolve", "insert", "commit"}
Published(m) == m.off <= Len(log[m.part])
Handled(m) == rows[m] > 0 \/ m \in failed

TypeOK ==
  /\ pub \in [Answers -> {"idle", "sending", "done"}]
  /\ log \in [Partitions -> Seq(Answers)]
  /\ \A p \in Partitions : Len(log[p]) \in 0 .. MaxLog
  /\ committed \in [Partitions -> 0 .. MaxLog]
  /\ pos \in [Partitions -> 0 .. MaxLog]
  /\ cpc \in {"fetch", "resolve", "insert", "commit", "stopped", "down"}
  /\ cur \in Message \cup {NoMessage}
  /\ Busy => cur \in Message
  /\ rows \in [Message -> Nat]
  /\ failed \subseteq Message
  /\ sessions \in 1 .. MaxSessions

Init ==
  /\ pub = [a \in Answers |-> "idle"]
  /\ log = [p \in Partitions |-> <<>>]
  /\ committed = [p \in Partitions |-> 0]
  /\ pos = [p \in Partitions |-> 0]
  /\ cpc = "fetch"
  /\ cur = NoMessage
  /\ rows = [m \in Message |-> 0]
  /\ failed = {}
  /\ sessions = 1

-----------------------------------------------------------------------------
(* content-service: publishAttempt hands the event to the writer. *)

Publish(a) ==
  /\ pub[a] = "idle"
  /\ pub' = [pub EXCEPT ![a] = "sending"]
  /\ UNCHANGED <<log, committed, pos, cpc, cur, rows, failed, sessions>>

\* The writer's batch reaches the partition LeastBytes picks.  A lost
\* acknowledgement keeps the batch in the writer, which then sends it again.
BrokerAppend(a, p, acked) ==
  /\ pub[a] = "sending"
  /\ acked \/ "publish" \in Faults
  /\ Len(log[p]) < MaxLog
  /\ log' = [log EXCEPT ![p] = Append(@, a)]
  /\ pub' = [pub EXCEPT ![a] = IF acked THEN "done" ELSE @]
  /\ UNCHANGED <<committed, pos, cpc, cur, rows, failed, sessions>>

\* The batch is given up: retries exhausted, or content-service died with it
\* in memory.  publishAttempt ignores the error, the answer stays checked.
PublishLost(a) ==
  /\ "publish" \in Faults
  /\ pub[a] = "sending"
  /\ pub' = [pub EXCEPT ![a] = "done"]
  /\ UNCHANGED <<log, committed, pos, cpc, cur, rows, failed, sessions>>

-----------------------------------------------------------------------------
(* statistic-service: the consume loop. *)

\* Faulty variant: the offset is committed as soon as the message is read.
FetchAutoCommit(p) ==
  /\ cpc = "fetch"
  /\ pos[p] < Len(log[p])
  /\ pos' = [pos EXCEPT ![p] = @ + 1]
  /\ committed' = [committed EXCEPT ![p] = pos[p] + 1]
  /\ cur' = Msg(p, pos[p] + 1)
  /\ cpc' = "resolve"
  /\ UNCHANGED <<broker, rows, failed, sessions>>

\* Faulty variant: the last message of a partition waits for a successor.
FetchLeavesLast(p) ==
  /\ cpc = "fetch"
  /\ pos[p] + 1 < Len(log[p])
  /\ pos' = [pos EXCEPT ![p] = @ + 1]
  /\ cur' = Msg(p, pos[p] + 1)
  /\ cpc' = "resolve"
  /\ UNCHANGED <<broker, committed, rows, failed, sessions>>

Fetch(p) ==
  /\ cpc = "fetch"
  /\ pos[p] < Len(log[p])
  /\ pos' = [pos EXCEPT ![p] = @ + 1]
  /\ cur' = Msg(p, pos[p] + 1)
  /\ cpc' = "resolve"
  /\ UNCHANGED <<broker, committed, rows, failed, sessions>>

\* FetchMessage returns an error: Consume returns, the goroutine ends.
FetchError ==
  /\ "fetch" \in Faults
  /\ cpc = "fetch"
  /\ cpc' = "stopped"
  /\ UNCHANGED <<broker, committed, pos, cur, rows, failed, sessions>>

ResolveTask ==
  /\ cpc = "resolve"
  /\ cpc' = "insert"
  /\ UNCHANGED <<broker, committed, pos, cur, rows, failed, sessions>>

AddAttempt ==
  /\ cpc = "insert"
  /\ rows' = [rows EXCEPT ![cur] = @ + 1]
  /\ cpc' = "commit"
  /\ UNCHANGED <<broker, committed, pos, cur, failed, sessions>>

\* Faulty variant: a message whose handler failed is committed all the same.
HandlerErrorCommits(written) ==
  /\ \/ cpc = "resolve" /\ "resolve" \in Faults /\ ~written
     \/ cpc = "insert" /\ "insert" \in Faults
  /\ rows' = IF written THEN [rows EXCEPT ![cur] = @ + 1] ELSE rows
  /\ failed' = failed \cup {cur}
  /\ cpc' = "commit"
  /\ UNCHANGED <<broker, committed, pos, cur, sessions>>

\* The handler returns an error: the loop goes on to the next message without
\* committing this one.  A failed insert may still have written its row (the
\* connection broke after the commit).
HandlerError(written) ==
  /\ \/ cpc = "resolve" /\ "resolve" \in Faults /\ ~written
     \/ cpc = "insert" /\ "insert" \in Faults
  /\ rows' = IF written THEN [rows EXCEPT ![cur] = @ + 1] ELSE rows
  /\ failed' = failed \cup {cur}
  /\ cpc' = "fetch"
  /\ cur' = NoMessage
  /\ UNCHANGED <<broker, committed, pos, sessions>>

\* Committing a message moves the group's offset past every earlier message
\* of its partition.
CommitMessages ==
  /\ cpc = "commit"
  /\ committed' = [committed EXCEPT ![cur.part] = cur.off]
  /\ cpc' = "fetch"
  /\ cur' = NoMessage
  /\ UNCHANGED <<broker, pos, rows, failed, sessions>>

\* CommitMessages returns an error, applied or not by the broker: Consume
\* returns it, main logs it, and nothing starts the goroutine again.
CommitError(applied) ==
  /\ "commit" \in Faults
  /\ cpc = "commit"
  /\ committed' = IF applied THEN [committed EXCEPT ![cur.part] = cur.off]
                             ELSE committed
  /\ cpc' = "stopped"
  /\ cur' = NoMessage
  /\ UNCHANGED <<broker, pos, rows, failed, sessions>>

-----------------------------------------------------------------------------
(* The process and its membership of the consumer group. *)

Crash ==
  /\ "crash" \in Faults
  /\ cpc # "down"
  /\ sessions < MaxSessions
  /\ cpc' = "down"
  /\ cur' = NoMessage
  /\ UNCHANGED <<broker, committed, pos, rows, failed, sessions>>

\* Faulty variant: a new session starts at the end of the log.
RestartAtEnd ==
  /\ cpc = "down"
  /\ sessions < MaxSessions
  /\ cpc' = "fetch"
  /\ pos' = [p \in Partitions |-> Len(log[p])]
  /\ sessions' = sessions + 1
  /\ UNCHANGED <<broker, committed, cur, rows, failed>>

\* A new session reads from the committed offsets.
Restart ==
  /\ cpc = "down"
  /\ sessions < MaxSessions
  /\ cpc' = "fetch"
  /\ pos' = committed
  /\ sessions' = sessions + 1
  /\ UNCHANGED <<broker, committed, cur, rows, failed>>

\* The reader loses and regains its membership while the loop may be inside
\* the handler: the message in hand stays in hand, fetching starts over.
Rejoin ==
  /\ "rejoin" \in Faults
  /\ cpc \notin {"down", "stopped"}
  /\ sessions < MaxSessions
  /\ pos' = committed
  /\ sessions' = sessions + 1
  /\ UNCHANGED <<broker, committed, cpc, cur, rows, failed>>

-----------------------------------------------------------------------------

Producer ==
  \E a \in Answers :
    \/ Publish(a)
    \/ PublishLost(a)
    \/ \E p \in Partitions, acked \in BOOLEAN : BrokerAppend(a, p, acked)

\* One turn of the loop, whatever its outcome.
Loop ==
  \/ \E p \in Partitions : Fetch(p)
  \/ FetchError
  \/ ResolveTask
  \/ AddAttempt
  \/ \E written \in BOOLEAN : HandlerError(written)
  \/ CommitMessages
  \/ \E applied \in BOOLEAN : CommitError(applied)

Process == Crash \/ Restart \/ Rejoin

Next == Producer \/ Loop \/ Process

\* A message in hand gets on, one way or the other, and the per-partition
\* readers that feed the loop queue on one Go channel, whose blocked senders are
\* served in turn.  No fetch has to fail: a loop without messages may wait.
Fairness ==
  /\ WF_vars(Busy /\ Loop)
  /\ \A p \in Partitions : SF_vars(Fetch(p))

Spec == Init /\ [][Next]_vars
FairSpec == Spec /\ Fairness

-----------------------------------------------------------------------------
(* Why it works: the inductive invariant. *)

InHand(m) == cpc \in {"resolve", "insert"} /\ cur = m
Unfetched(m) == cpc # "down" /\ pos[m.part] < m.off

\* Offsets point into the log, and so does the message in hand.
PointersInLog ==
  /\ \A p \in Partitions : committed[p] <= Len(log[p]) /\ pos[p] <= Len(log[p])
  /\ Busy => Published(cur)

\* Messages are fetched in order, so whatever lies before the fetch position
\* of the session or before the message in hand has been handled.
PrefixHandled ==
  /\ cpc # "down" =>
       \A m \in Message :
         m.off <= pos[m.part] => Handled(m) \/ (Busy /\ m = cur)
  /\ Busy => \A m \in Message :
               m.part = cur.part /\ m.off < cur.off => Handled(m)

\* Only a recorded message is committed.
CommitFollowsRow == cpc = "commit" => rows[cur] > 0

\* A row is paid for by a session that fetched the message: a message still
\* to be fetched, or in hand and not yet inserted, has a session to spare.
SessionsPayForRows ==
  \A m \in Message :
    rows[m] + (IF InHand(m) THEN 1 ELSE 0) + (IF Unfetched(m) THEN 1 ELSE 0)
      <= sessions

-----------------------------------------------------------------------------
(* What the pipeline guarantees. *)

\* The committed offset never covers a message the service has not tried:
\* whatever a restart skips was either recorded or refused by the handler.
CommittedIsHandled ==
  \A m \in Message : m.off <= committed[m.part] => Handled(m)

\* The message a committed offset points at is always in the attempts table,
\* so an offset is never advanced by a message that failed.
LastCommittedRecorded ==
  \A p \in Partitions : committed[p] > 0 => rows[Msg(p, committed[p])] > 0

\* A message produces at most one row per reader session: duplicates in the
\* statistics need a restart or a rejoin each.
OneRowPerSession == \A m \in Message : rows[m] <= sessions

\* The pipeline implements the ledger: messages of the log are accepted,
\* committed offsets are acknowledgements.
Ledger == INSTANCE AttemptLedger WITH
  accepted <- [p \in Partitions |-> Len(log[p])],
  acked <- committed

LedgerSpec == Ledger!Spec

\* Every published message is recorded or refused, unless the goroutine has
\* ended: a failing neighbour or a busy partition cannot starve it.
HandledEventually ==
  \A p \in Partitions, o \in Offset :
    (Published(Msg(p, o))) ~>
      (Handled(Msg(p, o)) \/ cpc \in {"stopped", "down"})

PipelineInv ==
  /\ TypeOK
  /\ PointersInLog
  /\ PrefixHandled
  /\ CommitFollowsRow
  /\ SessionsPayForRows
  /\ CommittedIsHandled
  /\ LastCommittedRecorded
=============================================================================
