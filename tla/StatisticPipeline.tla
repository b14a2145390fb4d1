-------------------------- MODULE StatisticPipeline --------------------------
(***************************************************************************)
(* statistic-service as a whole: the goroutine that consumes events, the   *)
(* requests that add attempts, and the requests that read, in one process, *)
(* around one table and one Redis.  The loop is AttemptEvents, the cache   *)
(* StatisticCache; CreateAttempt is where they meet.                       *)
(***************************************************************************)
EXTENDS StatisticCache, Sequences

CONSTANTS
  Answers, Partitions, NoMessage, MaxLog, MaxSessions,
  LoopFaults,  \* failures of the loop, see AttemptEvents
  UserOf,      \* per answer: who gave it
  CourseOf,    \* per answer: the course of the work, or NoCourse
  NoWriter,    \* the loop waits for nobody
  MaxPosts     \* bound: requests add no attempt of a user who has as many

ASSUME AnswersAssumption ==
  UserOf \in [Answers -> Users] /\ CourseOf \in [Answers -> Courses \cup {NoCourse}]
ASSUME NoWriterAssumption == NoWriter \notin Writers

VARIABLES
  pub, log, committed, pos, cpc, cur, rows, failed, sessions,
  awaited      \* the call of invalidateCaches the loop waits for

Events == INSTANCE AttemptEvents WITH Faults <- LoopFaults

events == <<pub, log, committed, pos, cpc, cur, rows, failed, sessions>>
loop == <<events, awaited>>
pipelineVars == <<vars, loop>>

AwaitedTypeOK ==
  /\ awaited \in Writers \cup {NoWriter}
  /\ awaited # NoWriter => cpc = "commit"

PipelineInit == Init /\ Events!Init /\ awaited = NoWriter

Alive == cpc # "down"

-----------------------------------------------------------------------------
(* The loop.  Its handler is CreateAttempt: insert, then invalidateCaches.  *)

Answer == log[cur.part][cur.off]

\* The broker, the group, and what the loop does outside CreateAttempt.
EventStep ==
  /\ \/ Events!Producer \/ Events!Restart \/ Events!Rejoin
     \/ Events!FetchError \/ Events!ResolveTask
  /\ UNCHANGED <<vars, awaited>>

FetchMessage(p) == Events!Fetch(p) /\ UNCHANGED <<vars, awaited>>

\* Faulty variant: the consumer writes to the repository, past the service.
RecordPastService(w) ==
  /\ Events!AddAttempt
  /\ w \in Writers /\ AddRow(UserOf[Answer], CourseOf[Answer])
  /\ UNCHANGED <<cache, dirty, want, got, tainted, awaited>>

RecordAttempt(w) ==
  /\ Events!AddAttempt
  /\ Insert(w, UserOf[Answer], CourseOf[Answer])
  /\ awaited' = w

\* The task cannot be resolved, or the insert reports an error.
RecordFails ==
  /\ \/ Events!HandlerError(FALSE) /\ UNCHANGED vars
     \/ /\ Events!HandlerError(TRUE)
        /\ \E w \in Writers : InsertErrorAfterWrite(w, UserOf[Answer], CourseOf[Answer])
  /\ UNCHANGED awaited

\* Two seconds without an answer from Redis, whose error is dropped: CreateAttempt
\* returns, and Redis may still carry the DEL out.
StopWaiting ==
  /\ awaited # NoWriter
  /\ awaited' = NoWriter
  /\ UNCHANGED <<vars, events>>

\* Faulty variant: the keys are deleted in a goroutine of their own.
CommitAtOnce ==
  /\ Events!CommitMessages \/ \E applied \in BOOLEAN : Events!CommitError(applied)
  /\ awaited' = NoWriter
  /\ UNCHANGED vars

\* The handler has returned.
Commit ==
  /\ awaited # NoWriter => dirty[awaited] = {}
  /\ Events!CommitMessages \/ \E applied \in BOOLEAN : Events!CommitError(applied)
  /\ awaited' = NoWriter
  /\ UNCHANGED vars

LoopStep ==
  \/ EventStep
  \/ \E p \in Partitions : FetchMessage(p)
  \/ \E w \in Writers : RecordAttempt(w)
  \/ RecordFails \/ StopWaiting \/ Commit

-----------------------------------------------------------------------------
(* Requests and Redis. *)

\* POST /attempts and gRPC RecordAttempt.
PostAttempt(w, u, c) ==
  /\ Alive /\ w # awaited
  /\ count[ProfileKey(u)] < MaxPosts
  /\ Insert(w, u, c) \/ InsertErrorAfterWrite(w, u, c)
  /\ UNCHANGED loop

\* A profile or a calibration is asked for.
Ask(r, k) == Alive /\ Miss(r, k) /\ UNCHANGED loop

Read(r) == ReaderFinish(r) /\ UNCHANGED loop

DeleteKeys(w) == (Invalidate(w) \/ InvalidateFails(w)) /\ UNCHANGED loop

EntryExpires(k) == Expire(k) /\ UNCHANGED loop

\* Goroutine, requests and servers are one process.
GoDown(fills, deletes) ==
  /\ Events!Crash
  /\ Crash(fills, deletes)
  /\ awaited' = NoWriter

PipelineNext ==
  \/ LoopStep
  \/ \E w \in Writers :
       \/ DeleteKeys(w)
       \/ \E u \in Users, c \in Courses \cup {NoCourse} : PostAttempt(w, u, c)
  \/ \E r \in Readers : Read(r) \/ \E k \in Keys : Ask(r, k)
  \/ \E k \in Keys : EntryExpires(k)
  \/ \E fills \in SUBSET Readers, deletes \in SUBSET Writers : GoDown(fills, deletes)

\* The fairness of both parts.  A loop that holds a message gets on, whether or
\* not Redis answers.
PipelineFairness ==
  /\ WF_pipelineVars(Events!Busy /\ LoopStep /\ cpc' # cpc)
  /\ \A p \in Partitions : SF_pipelineVars(FetchMessage(p))
  /\ \A w \in Writers : WF_pipelineVars(DeleteKeys(w))
  /\ \A r \in Readers : WF_pipelineVars(Read(r))
  /\ \A k \in Keys : WF_pipelineVars(EntryExpires(k))

PipelineSpec == PipelineInit /\ [][PipelineNext]_pipelineVars
FairPipelineSpec == PipelineSpec /\ PipelineFairness

-----------------------------------------------------------------------------
(* Properties. *)

\* The cache keeps its promises when the loop, whose messages may come twice, is
\* one of the writers.
StatisticsInv == AwaitedTypeOK /\ CacheInv

\* When the offset of a message is committed its attempt shows: whatever is stale
\* then is so because another delete is on its way, or one was lost or undone.
CommittedIsShown ==
  [][committed' # committed =>
       \A k \in Keys :
         Stale(k) => k \in tainted \/ \E w \in Writers \ {awaited} : k \in dirty[w]]_pipelineVars

\* From the checked answer to what a teacher and a student see: a message in the
\* log is in the end part of every cached profile and calibration for good,
\* unless it was refused or the loop has ended.  Nor do requests leave anything
\* stale for ever.
EventuallyShown ==
  /\ EventuallyFresh
  /\ \A m \in Events!Message :
       Events!Published(m) ~>
         \/ cpc \in {"stopped", "down"} \/ m \in failed
         \/ [](rows[m] > 0 /\ \A a \in Answers : \A k \in KeysOf(UserOf[a], CourseOf[a]) : ~Stale(k))
=============================================================================
