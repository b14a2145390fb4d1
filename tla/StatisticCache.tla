--------------------------- MODULE StatisticCache ---------------------------
(***************************************************************************)
(* statistic-service's Redis cache in front of the attempts table.         *)
(* CreateAttempt (called by the consumer goroutine, by POST /attempts and  *)
(* by gRPC RecordAttempt) inserts a row and then deletes the cached        *)
(* profile of the user and calibration of the course.  Profile and         *)
(* CourseCalibration answer from the cache, or else query the table and    *)
(* store what they computed.  Nothing locks, so the steps interleave.      *)
(*                                                                         *)
(* A cached value is abstracted to the number of rows it was computed      *)
(* from; a cache hit changes nothing and is not a step.                    *)
(***************************************************************************)
EXTENDS Naturals

CONSTANTS
  Users, Courses, NoCourse,
  Writers,      \* concurrent callers of CreateAttempt
  Readers,      \* concurrent callers of Profile and CourseCalibration
  Empty,        \* no value under a key
  Faults,       \* failures the environment may inject, see FaultKinds
  MaxAttempts   \* bound: attempts per user

FaultKinds == {"get", "set", "del", "insert", "query", "crash"}

ProfileKey(u) == <<"profile", u>>
CalibrationKey(c) == <<"course-calibration", c>>
Keys == {ProfileKey(u) : u \in Users} \cup {CalibrationKey(c) : c \in Courses}

\* The rows a value under each key is computed from include an attempt of
\* user u in course c exactly for these keys.
KeysOf(u, c) ==
  {ProfileKey(u)} \cup (IF c = NoCourse THEN {} ELSE {CalibrationKey(c)})

ASSUME MaxAttemptsAssumption == MaxAttempts \in Nat
ASSUME NoCourseAssumption == NoCourse \notin Courses
ASSUME EmptyAssumption == Empty \notin Nat
ASSUME CacheFaultsAssumption == Faults \subseteq FaultKinds

VARIABLES
  count,    \* per key: rows of the attempts table its value depends on
  cache,    \* per key: what Redis holds
  dirty,    \* per writer: keys of the row it inserted and has yet to delete
  want,     \* per reader: the key it is computing, or Empty when idle
  got,      \* per reader: what its query returned, or Empty before it
  crossed,  \* history: readers whose result a later insert has outdated
  tainted   \* history: keys whose invalidation was missed or undone

vars == <<count, cache, dirty, want, got, crossed, tainted>>

Value == Nat \cup {Empty}

TypeOK ==
  /\ count \in [Keys -> Nat]
  /\ cache \in [Keys -> Value]
  /\ dirty \in [Writers -> SUBSET Keys]
  /\ want \in [Readers -> Keys \cup {Empty}]
  /\ got \in [Readers -> Value]
  /\ crossed \subseteq Readers
  /\ tainted \subseteq Keys
  /\ \A r \in Readers : want[r] = Empty => got[r] = Empty

Init ==
  /\ count = [k \in Keys |-> 0]
  /\ cache = [k \in Keys |-> Empty]
  /\ dirty = [w \in Writers |-> {}]
  /\ want = [r \in Readers |-> Empty]
  /\ got = [r \in Readers |-> Empty]
  /\ crossed = {}
  /\ tainted = {}

-----------------------------------------------------------------------------
(* CreateAttempt: insert, then invalidateCaches. *)

AddRow(u, c) ==
  /\ count[ProfileKey(u)] < MaxAttempts
  /\ count' = [k \in Keys |-> IF k \in KeysOf(u, c) THEN count[k] + 1
                                                   ELSE count[k]]
  /\ crossed' = crossed \cup
       {r \in Readers : got[r] # Empty /\ want[r] \in KeysOf(u, c)}

Insert(w, u, c) ==
  /\ dirty[w] = {}
  /\ AddRow(u, c)
  /\ dirty' = [dirty EXCEPT ![w] = KeysOf(u, c)]
  /\ UNCHANGED <<cache, want, got, tainted>>

\* The row is written but AddAttempt reports an error, and CreateAttempt
\* returns before invalidateCaches.
InsertErrorAfterWrite(w, u, c) ==
  /\ "insert" \in Faults
  /\ dirty[w] = {}
  /\ AddRow(u, c)
  /\ tainted' = tainted \cup KeysOf(u, c)
  /\ UNCHANGED <<cache, dirty, want, got>>

\* Faulty variant: only the profile is dropped.
InvalidateProfileOnly(w) ==
  /\ dirty[w] # {}
  /\ cache' = [k \in Keys |-> IF k \in dirty[w] /\ k[1] = "profile"
                               THEN Empty ELSE cache[k]]
  /\ tainted' = tainted \ dirty[w]
  /\ dirty' = [dirty EXCEPT ![w] = {}]
  /\ UNCHANGED <<count, want, got, crossed>>

\* One DEL names both keys.
Invalidate(w) ==
  /\ dirty[w] # {}
  /\ cache' = [k \in Keys |-> IF k \in dirty[w] THEN Empty ELSE cache[k]]
  /\ tainted' = tainted \ dirty[w]
  /\ dirty' = [dirty EXCEPT ![w] = {}]
  /\ UNCHANGED <<count, want, got, crossed>>

\* Redis cannot be reached, or the request's context is already cancelled:
\* the error is ignored and the attempt is reported as created.
InvalidateFails(w) ==
  /\ "del" \in Faults
  /\ dirty[w] # {}
  /\ tainted' = tainted \cup dirty[w]
  /\ dirty' = [dirty EXCEPT ![w] = {}]
  /\ UNCHANGED <<count, cache, want, got, crossed>>

-----------------------------------------------------------------------------
(* Profile and CourseCalibration: get, query, set. *)

\* Get finds nothing, fails, or returns a value that does not decode.
Miss(r, k) ==
  /\ want[r] = Empty
  /\ cache[k] = Empty \/ "get" \in Faults
  /\ want' = [want EXCEPT ![r] = k]
  /\ UNCHANGED <<count, cache, dirty, got, crossed, tainted>>

\* Faulty variant: the row being inserted is counted before it is there.
QueryCountsPending(r) ==
  /\ want[r] # Empty /\ got[r] = Empty
  /\ got' = [got EXCEPT ![r] = count[want[r]] + 1]
  /\ UNCHANGED <<count, cache, dirty, want, crossed, tainted>>

Query(r) ==
  /\ want[r] # Empty /\ got[r] = Empty
  /\ got' = [got EXCEPT ![r] = count[want[r]]]
  /\ UNCHANGED <<count, cache, dirty, want, crossed, tainted>>

Return(r) ==
  /\ want' = [want EXCEPT ![r] = Empty]
  /\ got' = [got EXCEPT ![r] = Empty]
  /\ crossed' = crossed \ {r}

QueryError(r) ==
  /\ "query" \in Faults
  /\ want[r] # Empty /\ got[r] = Empty
  /\ Return(r)
  /\ UNCHANGED <<count, cache, dirty, tainted>>

\* SETEX overwrites whatever the key holds by now.
Fill(r) ==
  /\ got[r] # Empty
  /\ cache' = [cache EXCEPT ![want[r]] = got[r]]
  /\ tainted' = IF r \in crossed THEN tainted \cup {want[r]}
                                 ELSE tainted \ {want[r]}
  /\ Return(r)
  /\ UNCHANGED <<count, dirty>>

FillFails(r) ==
  /\ "set" \in Faults
  /\ got[r] # Empty
  /\ Return(r)
  /\ UNCHANGED <<count, cache, dirty, tainted>>

-----------------------------------------------------------------------------

\* Faulty variant: an entry is written without a TTL.
NeverExpires(k) ==
  /\ cache[k] # Empty
  /\ cache[k] = count[k]
  /\ cache' = [cache EXCEPT ![k] = Empty]
  /\ tainted' = tainted \ {k}
  /\ UNCHANGED <<count, dirty, want, got, crossed>>

\* The TTL runs out; a Redis restart, which keeps nothing, is several of these.
Expire(k) ==
  /\ cache[k] # Empty
  /\ cache' = [cache EXCEPT ![k] = Empty]
  /\ tainted' = tainted \ {k}
  /\ UNCHANGED <<count, dirty, want, got, crossed>>

\* statistic-service dies: requests are gone, Redis and the table stay.  What
\* some of them had sent to Redis is still on its way: Client flushes a command
\* and then waits for the answer, and it waits two seconds at most, so Redis may
\* carry out a SETEX or a DEL that nobody waits for any more.
Crash(fills, deletes) ==
  /\ "crash" \in Faults
  /\ \A r \in fills : got[r] # Empty
  /\ tainted' = tainted \cup UNION {dirty[w] : w \in Writers \ deletes}
  /\ dirty' = [w \in Writers |-> IF w \in deletes THEN dirty[w] ELSE {}]
  /\ want' = [r \in Readers |-> IF r \in fills THEN want[r] ELSE Empty]
  /\ got' = [r \in Readers |-> IF r \in fills THEN got[r] ELSE Empty]
  /\ crossed' = crossed \cap fills
  /\ UNCHANGED <<count, cache>>

WriterStep(w) ==
  \/ \E u \in Users, c \in Courses \cup {NoCourse} :
       Insert(w, u, c) \/ InsertErrorAfterWrite(w, u, c)
  \/ Invalidate(w)
  \/ InvalidateFails(w)

ReaderFinish(r) == Query(r) \/ QueryError(r) \/ Fill(r) \/ FillFails(r)

ReaderStep(r) ==
  \/ \E k \in Keys : Miss(r, k)
  \/ ReaderFinish(r)

Next ==
  \/ \E w \in Writers : WriterStep(w)
  \/ \E r \in Readers : ReaderStep(r)
  \/ \E k \in Keys : Expire(k)
  \/ \E fills \in SUBSET Readers, deletes \in SUBSET Writers : Crash(fills, deletes)

\* A request that is being served finishes, a command that was sent arrives or
\* is lost, and every entry has a TTL.
Fairness ==
  /\ \A w \in Writers : WF_vars(Invalidate(w) \/ InvalidateFails(w))
  /\ \A r \in Readers : WF_vars(ReaderFinish(r))
  /\ \A k \in Keys : WF_vars(Expire(k))

Spec == Init /\ [][Next]_vars
FairSpec == Spec /\ Fairness

-----------------------------------------------------------------------------
(* Properties. *)

Stale(k) == cache[k] # Empty /\ cache[k] # count[k]
BeingInvalidated(k) == \E w \in Writers : k \in dirty[w]

\* A cached value differs from the table only while the insert that outdated
\* it is still on its way to the delete, or after an invalidation that was
\* lost (failed delete, crash, unreported row) or undone by a fill that had
\* read the table before the insert.
StaleHasCause ==
  \A k \in Keys : Stale(k) => BeingInvalidated(k) \/ k \in tainted

\* Once the inserts stop the cache converges to the table: a stale value may
\* be put back by a late fill, but not for ever.
EventuallyFresh == <>[](\A k \in Keys : ~Stale(k))

\* What a reader holds is what the table said, unless an insert crossed it.
FillAccurate ==
  \A r \in Readers :
    got[r] # Empty => want[r] \in Keys /\ (got[r] = count[want[r]] \/ r \in crossed)

\* No cached or computed value ever counts a row the table does not have.
NeverAhead ==
  /\ \A k \in Keys : cache[k] # Empty => cache[k] <= count[k]
  /\ \A r \in Readers : got[r] # Empty => got[r] <= count[want[r]]

CacheInv == TypeOK /\ FillAccurate /\ NeverAhead /\ StaleHasCause
=============================================================================
