# A TLA+ model of ITMO LMS

ITMO LMS is a set of small services (Go and Python) around PostgreSQL, MongoDB,
Redis and Kafka. Most of what can go wrong in it goes wrong *between* statements:
a consumer that dies between an insert and a commit, a cache filled with what was
true a moment ago, two handlers that looked before they wrote, a request that
fails half way. The modules here model that control — every state change, guard,
early return and error path of the code they name — and abstract the data to what
the properties can tell apart. TLC checks small instances; TLAPS proves, for every
value of the constants, every invariant and action property that TLC checks, and the
refinements between modules. Only the three liveness properties rest on TLC alone.

Paths below are relative to the repository; `service.go:89` and the like name the
line of the service under discussion. Which definition models which lines is in
`PROJECT.json` under `map`.

## 1. Inventory

| component | state | operations | talks to | hard part |
|---|---|---|---|---|
| content-service: topics, tags, tasks, scopes | `topics`, `tags`, `tasks`, `task_tags` | CreateTopic, CreateTag, CreateTask, CreateTasksInScope; lists and reads over HTTP and gRPC | ai-evaluator (HTTP) | a scope is not one transaction; tags kept as JSON and as rows without foreign keys, read back from both; weights mixed from teacher, evaluator and defaults |
| content-service: works, checks | `theory_pages`, `work_templates` | CreateTheory, CreateWork, sections (LaTeX, document), CheckTask, CheckWork; lists and reads over HTTP and gRPC | Kafka (publishes `attempt.evaluated`), document-service (gRPC) | lookups before an insert; events published one by one with errors dropped; a compile that outlives its caller |
| pkg/kafka and the broker | a partitioned log, committed offsets, the reader's position | PublishJSON, Consume | | at-least-once, errors that skip or end the loop |
| statistic-service: attempt consumer | `attempts` | Consume → ResolveTask → AddAttempt → commit | content-service (gRPC) | duplicates, skipped messages, a goroutine nobody restarts |
| statistic-service: profile, calibration, cache | `attempts`, Redis | CreateAttempt, Profile, CourseCalibration | Redis | insert, delete, query and fill without a lock; invalidation errors dropped; commands that arrive late |
| statistic-service: calibration arithmetic | none of its own | userTopicRatings, userTagMasteries, discriminativeScore, normalizeScores | recommendation-service reads it | confidence and shares at their limits |
| recommendation-service: subject profiles | MongoDB: profiles, vectors | PUT tags, build_workbook (bootstrap, vector) | content, statistic (HTTP) | one thread per request, read-decide-write |
| recommendation-service: assembly | none | _select_tasks, _select_theory, _build_workbook_payload | | quotas and limits; where a task of two theories goes |
| document-service | `document_jobs`, a directory | Compile (HTTP, gRPC), Get, Download | pdflatex, which has no timeout of its own | files and rows change apart; every step may fail; clients leave and callers die while it runs |
| course-service | courses, members, assignments, submissions | five operations that write, four lists | | no foreign keys; update and select without a transaction; adding a member again changes the role |
| auth-service | `users`, tokens in the hands of users | SeedAdmin, Register, Login, Me, GetUser, ListUsers, ValidateToken | | unique phone, tokens that live a day and outlive the process that signed them |
| pkg/postgres | `schema_migrations` | RunMigrations | every Go service at start | processes starting together, death between statements |
| ai-evaluator-service | none | evaluate_task | a language model | its answer is an input of ContentTasks |
| pkg/platform | the process of each service | main's steps, RunHTTP, StartGRPC, JWT | every Go service | HTTP is drained on a signal, gRPC is neither drained nor stopped |
| gateway, compose, generated code, workbook-demo, memory repository | none | | | not modelled, see section 7 |

How they interact: the gateway forwards HTTP. A checked answer travels from
content-service through Kafka into `attempts`; inserting it drops two cache keys;
recommendation-service reads profile and calibration and writes a vector; a
workbook or a work goes to document-service. Everything else shares nothing but
ids, which no database checks.

What makes each correct, in one line:

* events: whatever a committed offset covers has been tried, the last of it is in
  the table, and duplicates cost a restart each;
* cache: stale only with a cause, never ahead of the table, fresh in the end;
* profiles: a teacher's PUT is lost only to a thread that decided before it;
* assembly: everything picked stands once, quotas yield only for want of choice;
* statistics as a whole: a committed event shows, and each event in the log shows in
  the end, for good;
* documents: a job that can be found is finished, can be downloaded whole and never
  changes; a compile nobody waits for ends;
* courses: what a list shows has its parents and can be read; an owner teaches until
  added again with another role;
* content: shares keep the teacher's proportions, and every reader is told the same
  tags of a task; a scope leaves exactly a prefix;
* works: lists, prints and replies cover the work in its order, the events of a check
  are published once or lost;
* calibration: weights follow the separation of strong from weak students,
  difficulty is redistributed and not inflated;
* accounts: a process serves when everything is in place and not before; tokens say
  the truth about their user for as long as they live.

## 2. Modules

| module | models | proofs |
|---|---|---|
| `AttemptEvents` | the pipeline from publishAttempt to the committed offset | `AttemptEvents_proofs` |
| `AttemptLedger` | what the pipeline promises, abstractly | refined by `AttemptEvents`, in `AttemptEvents_proofs` |
| `StatisticCache` | CreateAttempt, Profile, CourseCalibration around Redis | `Statistics_proofs` |
| `StatisticPipeline` | statistic-service as one process: the loop of `AttemptEvents` (INSTANCE) as a writer of `StatisticCache` (EXTENDS) | `Statistics_proofs` |
| `Calibration` | the arithmetic of CourseCalibration | `Statistics_proofs` |
| `SubjectPriors` | profiles, bootstrap and vectors | `Recommendation_proofs` |
| `WorkbookAssembly` | the loops that pick and lay out a workbook | `Recommendation_proofs` |
| `Lifecycle` | the process of a Go service: main's steps, serving, draining, dying | with the modules that extend it |
| `DocumentJobs` | Compile with its files and its row, Get and Download | `WorkDocuments_proofs` |
| `WorkDocuments` | document-service between its clients, content-service and the operating system (EXTENDS `DocumentJobs`, `Lifecycle`) | `WorkDocuments_proofs` |
| `Courses` | the five operations, statement by statement, and the lists | `Courses_proofs` |
| `ContentTasks` | topics, tags, tasks and scopes with the evaluator, lists and reads | `ContentTasks_proofs` |
| `AnswerCheck` | isCorrectAnswer, as operators | `WorkTemplates_proofs` |
| `WorkTemplates` | theory, works, sections, checks and their publications, lists and reads (EXTENDS `AnswerCheck`) | `WorkTemplates_proofs` |
| `Migrations` | RunMigrations by several processes (EXTENDS `Lifecycle`) | `Accounts_proofs` |
| `Accounts` | startup, seed, registration, login, tokens (EXTENDS `Migrations`) | `Accounts_proofs` |

`MC…` modules give the instances for TLC. Definitions commented *Faulty variant*
stand next to the definition they vary: each is a plausible bug, and each property
has been seen to fail when one of them takes the place of the original.

### AttemptEvents, AttemptLedger

State: `pub` (an answer on its way through the writer), `log` (per partition),
`committed`, `pos` (the reader), `cpc`/`cur` (the consume loop of
`kafka.go:56-69`), `rows` (rows each message has made), and the histories `failed`
and `sessions`. One action per outcome of a call: `Fetch`/`FetchError`,
`ResolveTask`, `AddAttempt`, `HandlerError` (with or without the row written),
`CommitMessages`/`CommitError` (applied or not), `Crash`, `Restart`, `Rejoin`,
and the producer's `Publish`, `BrokerAppend`, `PublishLost`.

Two facts of the code shape it. A handler error `continue`s without a commit
(`kafka.go:62`), but committing a later message of the partition moves the offset
past the failed one. A fetch or commit error *returns* (`kafka.go:58,65`), main
only logs it, and the process serves on without consuming: `cpc = "stopped"` has
no way back but a crash and a restart.

`AttemptLedger` says what a reader of the statistics may rely on: rows come from
accepted messages, at most one per message and session; an acknowledged place has
its row. `LedgerSpec` is the refinement (messages of the log are accepted,
committed offsets acknowledged).

### StatisticCache

A cached value is the number of rows it was computed from; `count` is the number
it would be computed from now. CreateAttempt is `Insert` followed by
`Invalidate` or `InvalidateFails` (`service.go:62, 358-370`); a reader is `Miss`,
`Query`, `Fill` or one of their failures. `crossed` and `tainted` are histories:
which reader's result an insert has outdated, and which key missed an
invalidation. A hit changes nothing and is no step. `Crash(fills, deletes)` leaves
some commands on their way: `rediscache` flushes a command and then waits two seconds
for the answer, so Redis may carry out what nobody waits for any more.

### StatisticPipeline

The composition: `RecordAttempt` is `AddAttempt` of the loop and `Insert` of the cache
in one step, because CreateAttempt is the consumer's handler; the loop then waits for
the delete (`awaited`) before it commits, but only as long as the client's deadline
(`StopWaiting`), after which the DEL may still arrive. Requests that add or read
attempts run in the same process; `GoDown` takes all of them down. Two theorems say
that the composition is each of its parts (`RunsEvents`, `RunsCache`), so what is
proved about either holds of the service.

### Calibration

State: how often each student solved and failed each task of a course (`right`,
`wrong`); `RecordAnswer` adds an attempt. Everything else is a function of it,
translated one by one from `service.go:89-338`; sums over maps are sums of functions
over finite sets. Fractions are integers in units of 1/`One`; `CatalogueAssumption`
demands that `One` is a multiple of every denominator the bound `MaxRecorded` allows,
so that divisions are exact where the code has floating point. Suggested difficulties
are not rounded to four digits; shares are. The content client is taken to be
configured, so that a recorded attempt carries the task's topics, tags and difficulty.
Of the weights of a task's tags it is only assumed that none exceeds 1, which is what
content-service makes of them when it divides by the sum of the positive ones
(`service.go:121-136` of content-service); zero and negative weights are allowed, and
stand for 1 in the calibration. Of a difficulty it is assumed that it is positive: both
services lift what is not to 1 (`service.go:118` there, `service.go:54` here), and neither
caps a teacher's value; only the suggestion is clamped to 1..10.

`AreShares` says what the weights sent to recommendation-service are worth after
rounding: each is off by at most half a ten-thousandth, and none becomes 0 as long as a
task has no more than 950 topics or tags. The limit is that of the arithmetic: the smallest score
is a twentieth and the largest one and a twentieth, and among more of them the smallest
share may round to nothing.

### SubjectPriors

State: the catalogue of tags, per subject the stored profile, the thread-local
values of each builder (`pc`, `asked`, `seen`, `held`), the stored vectors, and
histories (`put`, `everStored`, `overtaken`). `NormalizePriors` stores a negative
prior as 0; `DecodePriors` reads a 0 back as 1, as
`_decode_subject_tag_value` does. `Receive` drops the subject the request named,
as `server.py:38` does.

### WorkbookAssembly

The loops of `service.py:367-481`, one iteration a step, over every ranking of
tasks. Theory is ranked as the code ranks it: what each topic of the picked tasks has
gathered (`topic_scores`) is chosen freely among positive numbers, a theory scores the
sum over its `topic_ids`, and the best comes first; ids settle ties and are random, so a
tie may go either way. Theory that covers strictly more of the topics thus comes before
theory that names fewer of them, unless the latter names one of them twice, which
nothing prevents. `stage` is the loop the
request is in and `next` the place it has reached; `selected`, `candidates`, `theory`
and `items` are the lists the code builds. `WorkbookInv` is a conjunction of what each
loop keeps true of the lists, in the order of the loops.

### Lifecycle

`proc[p]` is the step of main a process is at; the mains of the five Go services are
given as their sequences of steps. gRPC answers from its step until the process is
gone (`AnswersRPC`), HTTP only while nothing has signalled (`AcceptsHTTP`). `Drained`
is Shutdown with nothing left to wait for, `Exit` everything else that ends a process:
a failing step, ten seconds, a kill.

### DocumentJobs

Per request: writing the source, typesetting, reading back, inserting the job;
each step has a failure that leaves nothing or a part of its file. `NewID` is
fresh, so `saveJob` always takes the insert branch. `Get` and `Download` are what
the handlers answer from the row and the disk.

### WorkDocuments

A teacher asks document-service over HTTP, or content-service for the document of a
work, which looks the sections up and calls document-service over gRPC. `client` and
`call` are the two waits, `cancelled` the contexts document-service has seen end: a
cancelled context kills the compiler and keeps statements from being sent, and it is
noticed some time after the client left. Both processes go through their `Lifecycle`;
a signal drains HTTP requests and cuts gRPC calls. Every step of document-service in
these surroundings is one of `DocumentJobs` (theorem `ServesDocumentJobs`), which is
how the invariants of the one are those of the other.

### Courses

Each worker runs one handler, each SQL statement is a step. CreateCourse is the
only transaction; its rows are visible with `CommitCourse`. ReviewSubmission is
an update and a select with other reviewers in between; reviews are numbered. The
lists are operators over the tables, and `RowsAreListed` is stated over what they
answer. `OwnerTeaches` is the property for AddMember's upsert: the one way an owner
stops being a teacher of the course is a request that adds him with another role.

### ContentTasks

A request walks through its tasks: tags looked up one by one, titles of topics,
the evaluator (if configured), the insert of task and rows in a transaction.
Weights are integers in 1/`Unit`, shares are fractions with one denominator per
task, Python's rounding of the evaluator is `Rounded`. Topics are rows of their own
that a task's prompt names if they are there (`TopicTitles`). Readers see a task as
`ScanTask` (the JSON column), as `AttachTaskTags` (the rows) or as `TaskReply` (gRPC).
`GetTask` has two outcomes: `repository.go:122` returns a variable together with the
result of a call that changes it, an order the language leaves open.

### WorkTemplates, AnswerCheck

Each request is made once and walks through CreateWork's lookups, a rendering, or
a check. A check looks at every item before anything is published, then publishes
one event after the other; each may fail, and the error is dropped
(`handler.go:200,239`). `brokers` says whether KAFKA_BROKERS is set: without it
the handler holds a nil publisher in a non-nil interface and the first
publication panics (`PublishPanics`). `ListTheory`, `ListWorks`, `GetWork` and
`WorkTemplateReply` are what HTTP and gRPC clients are told; `BuildWorkbookLatex`
numbers the tasks of a print, and theory between them gets none. The column `task_ids`
is written and never read, and is left out.

In `AnswerCheck` an answer is its tokens, what separates or follows them, and the number
each token parses to. `ParseFloat` accepts `NaN`, and no difference to a NaN exceeds
the tolerance, so NaN passes for any number: `Close` has that, and the property
about verdicts excludes it explicitly.

### Migrations, Accounts

`Migrate(p)` is RunMigrations of a process: look, run the statements, record the
version, commit; another process's uncommitted record blocks, a committed one
makes the insert fail and the process exit. `Exit` may happen anywhere, and a
commit may go through although its process dies. `Accounts` adds the seed, the
requests of serving processes, and tokens, which outlive them. A user is a phone with
its roles; `FindByID`, `ValidateToken`, `ListUsers` and the rest are what the handlers
answer, and the properties are stated over those answers.

## 3. Runs

Every run was completed by TLC without bounds on depth.

| run | instance | states | what it asks |
|---|---|---|---|
| `attempt_events` | 1 answer, 2 partitions of 2 messages, 2 sessions, every fault | 87,145 | `PipelineInv`, `CommittedIsHandled`; the ledger is implemented; every message in the log is handled in the end |
| `statistic_pipeline` | 1 user of 1 course, 1 message, 2 sessions, 2 writers, 1 reader, every fault of the cache and those of the loop but two | 164,534 | `StatisticsInv` (with everything `StatisticCache` promises), a committed message shows, and every message shows in the end |
| `subject_priors_safety` | 2 subjects, 2 tags, 2 threads, 2 PUTs | 295,682 | `PriorsInv`, `LostPutHasCause`; who may replace a filled profile |
| `workbook_assembly_safety` | up to 5 tasks, 2 topics, 3 theories, every limit | 204,392 | `WorkbookInv`, the quota, the ranking, the place of theory |
| `work_documents` | 2 requests, one over HTTP and one by way of content-service, both formats, document-service down once, content-service at will | 236,904 | `WorkDocumentsInv`, downloads are whole, jobs are final, requests end |
| `courses_safety` | 2 workers, 2 users, 2 courses, 1 assignment, 2 submissions, 3 reviews | 720,213 | `CoursesInv`, lists, owners, replies |
| `content_tasks_safety` | 2 requests, 1 topic, 2 tags, single tasks and scopes, evaluator on and off | 144,532 | `ContentInv`, proportions, low shares, what readers are told, prefixes |
| `calibration_safety` | 2 students, 3 tasks, 6 attempts | 9,324 | `CalibrationInv`, separation, difficulty |
| `work_templates_safety` | 2 requests, 2 tasks, 1 theory, brokers on and off | 72,394 | `WorksInv`, order of sections, prints and lists, events, replies, verdicts |
| `accounts_safety` | 2 processes, 2 versions, 2 registrations, 3 phones | 266,290 | `AccountsInv`, migrations, tokens, grantors |
| `workbook_assembly_order` | up to 3 tasks | – | the README's sentence on theory; violated |
| `subject_priors_put` | one PUT | – | a PUT survives; violated |

### Bounds, and why they are enough

* **AttemptEvents**. The consumer never looks at what a message says, and a lost
  acknowledgement lets one answer fill both partitions, so one answer is enough.
  Two messages per partition give a failed message followed by one that commits
  past it; two sessions give one crash or rejoin at any point, with the message in
  hand belonging to the old one. The safety properties are proved for all bounds.
* **StatisticPipeline**. The race needs a reader between query and fill and a writer
  between insert and delete: the loop is one writer, a request the other, and each
  may be late. One message is recorded twice when a crash or a rejoin comes between
  insert and commit; the user's profile and the course's calibration share every row.
  A second user, reader or message repeats what the first did; the safety properties
  are proved for any number of them. The faults of the loop that are left out
  (resolving a task, publishing) end a message before it is recorded or put it into
  the log twice, which the rejoin does as well; `attempt_events` has them.
  `MaxAttempts` is above what messages and `MaxPosts` allow and binds nothing.
* **SubjectPriors**. One thread that decided, one that decides later, and a PUT
  before and after. Lists with an ordinary prior, a 0, a negative one and none.
* **WorkbookAssembly**. A quota of two per topic is exceeded by three, the last
  slot is an exception, the refill takes a fourth: five tasks give every
  combination with `max_tasks` up to 4. Theory on each topic and on both makes
  overlaps; that on `A` names it twice and so may come before that on both. With scores
  of 1 and 2 per topic every order the sort can produce occurs. The run that shows the
  violation has one theory per topic and nothing else.
* **WorkDocuments**. Requests share nothing but the directory and the two processes,
  so one request on each way is enough; document-service goes down once while
  requests run (`MaxCrashes`), content-service any number of times.
* **Courses**. Two handlers cover every pair of interleaved operations; two
  reviewers of one submission cover the update–update–select order.
* **ContentTasks**. Two items make a prefix; one topic is there or not; the weights have given, mixed,
  missing, negative and repeated tags. `Unit` 4 makes the evaluator round to
  nothing and to even.
* **Calibration**. Six attempts is where full confidence begins; the catalogue is
  the one of the repository's calibration test, with a tag of weight 0 and a difficulty
  above 10.
* **WorkTemplates**. One request stores the work another renders or checks;
  contents appear in between. Item lists have numbered, unnumbered, mixed and
  repeated items; answers come in other orders, formats and separators, twice, not
  at all, and with NaN. Numbers are tenths, the tolerance is one of them.
* **Accounts**. Two processes race in every statement of two versions; two
  registrations race for a phone, one of them possibly granted by a token from a
  process that is gone.

Symmetry is used for interchangeable requests, threads, users, workers, processes
and phones, in runs without liveness properties only. Runs that say
`CHECK_DEADLOCK FALSE` model something that really ends (requests that are made
once, attempts up to the bound, a consumer that stopped); the statistics and the
accounts always have a step to take, and deadlock is checked there.

### Fairness

`AttemptEvents`: weak fairness of the loop while it holds a message (a goroutine
that runs keeps running; each call returns a result or an error, but a fetch
without messages may wait for ever) and strong fairness of `Fetch(p)` for each
partition, because kafka-go runs one reader goroutine per partition and all of
them queue on one Go channel, whose blocked senders are served in turn. Nothing is
assumed of restarts — compose has no restart policy — nor of the producer, so
`HandledEventually` excepts a stopped or dead consumer.

`StatisticPipeline`: the fairness of the loop as above; a request that is being served
finishes (with whatever result), a command that was sent to Redis is carried out or
lost, and every entry expires, since every SETEX carries a TTL. `EventuallyShown`
excepts a message that was refused and a loop that has stopped or died. It needs
attempts to stop; the bound on them supplies that.

`WorkDocuments`: weak fairness of each handler's own steps, of a call that is received
or fails, of a cancellation being noticed, of the kill, of a call being given up and
of an answer on its way. Nothing is assumed of pdflatex, of clients, who may wait for
ever or leave, or of processes, which need neither end nor start again. So
`RequestsEnd` excepts a compile that typesets for somebody who waits.

## 4. Proofs

Each proof module EXTENDS the modules of its components: `Statistics_proofs` those of
statistic-service, `Recommendation_proofs` those of recommendation-service,
`WorkDocuments_proofs` `DocumentJobs` and `WorkDocuments`, `Accounts_proofs`
`Migrations` and `Accounts`. Every theorem holds for all constants satisfying the
module's named assumptions: bounds are naturals, markers such as `NoMessage`, `Empty`
or `None` lie outside the sets they mark, fault sets are fault sets. Some assumptions
say more. In `WorkbookAssembly` topics score positive numbers. In `Calibration`
difficulties are positive, without an upper limit; what is assumed of the weights and of
`One` is said in section 2. In `AnswerCheck` a number is an integer or one of two markers, and the
tolerance is a natural; nothing is assumed of texts and separators but that a space is
one. In `ContentTasks` and `WorkTemplates` the requests are any lists of the right kind
that the handler does not refuse for being empty; ids in them need not exist.

**AttemptEvents.** `PipelineInv` is inductive: `PointersInLog` (offsets point into
the log), `PrefixHandled` (whatever lies before the fetch position, or before the
message in hand, was handled — the second half is what survives a rejoin that
resets the position), `CommitFollowsRow`, and `SessionsPayForRows` (rows plus
pending insertion plus a future fetch cost at most one session each). From it:
`CommittedIsHandled`, `LastCommittedRecorded`, `OneRowPerSession`, and
`ImplementsLedger`, the refinement of `AttemptLedger`, action by action.

**StatisticPipeline.** Two refinements: each step is one of `AttemptEvents` or leaves
its variables alone (`RunsEvents`), and one of `StatisticCache` or leaves those alone
(`RunsCache`; that the message in hand is the answer of a user needs the small
invariant `AnswerInHand`). `StatisticsInv` follows from the cache's theorem.
`CommittedIsShown` rests on `StaleHasCause` and on the loop having waited: a delete
that still keeps a key stale is not the one it waited for.

**StatisticCache.** `CacheInv`: what a reader holds is the count or the reader was
crossed; nothing is ahead of the count; a stale key is being invalidated or
tainted. A fill by a crossed reader taints, one by another reader stores the
truth: this is why `FillAccurate` has to be part of the invariant. Commands that
outlive their process keep their reader or writer, with what it holds.

**Calibration.** Sums over finite sets come first: a sum takes its summands in any
order, may be split, is monotone, and follows a summand that changes or is added. With
that, a score is a mixture of the signal and the weight given before (its confidence
weighs the one against the other), so it lies between a twentieth and one and a
twentieth, grows with both (`SeparationDecides`) and forgets the second at six
attempts; shares are off their exact value by the rounding and nothing else
(`CalibrationInvariant`). Difficulty: the factors of the tried tasks add up to their
number, but for the floor of the average (`DifficultyRedistributed`). An answer changes
one rate and the average by no more than that rate, in the same direction; a task tried
for the first time enters with a rate of 0 or 1, which no other exceeds
(`AnswersMoveDifficultyRightly`).

**SubjectPriors.** `PriorsInv`: no stored prior is negative, every profile a
thread may hold was stored, and a thread that bootstraps found nothing and has
something to write. The two action properties follow step by step, `LostPutHasCause`
with them.

**WorkbookAssembly.** `WorkbookInv` is inductive, loop by loop. Picking
(`PicksByRank`): the spread picks in the order of the ranking, passes only over tasks
with a full topic, and exceeds a quota with the last pick alone; the refill leaves no
gap behind and begins only when every task left has a full topic. Counting the picks
of a topic gives `QuotaYieldsLastAlways` and `BetterRankedFirstAlways`. Laying out
(`PlacesInTurn`): a theory brings the picked tasks that share a topic with it and stand
nowhere yet, so nothing is placed twice, every task directly under a theory belongs to
it, and what is left belongs to no theory placed so far; a related theory shares a
topic with a picked task, so the first one has a task under it
(`TheoryIntroducesTasksAlways`). The number of items is counted along, which is why
the workbook holds everything once when the last loop ends.

**DocumentJobs.** `JobsInv`: a handler that is about to save has its files whole
(`SaverHasFile`), so what it saves is. A stored job is final because its handler
is past every step that writes its files, and no other has its name.

**WorkDocuments.** `ServesDocumentJobs` maps every step to one of `DocumentJobs` or to
none, so `JobsInv` and `StoredJobIsFinal` carry over; what the clients know is added
(`told` only after `created`), which gives `DownloadsAreWhole`.

**Courses.** `CoursesInv`: a handler's target still exists when it inserts
(`TargetsExist`, because nothing is ever deleted), locals have the kind of their
statement, and reviews are numbered as they are written, so that a reviewer's
select cannot see an older one. `RowsAreListed` unfolds the lists over the parents;
`OwnersTeach` goes through the writers of a member's row: the commit that creates the
course and the upsert.

**ContentTasks.** `ContentIInv` joins `ContentInv` with three of the run's properties,
because each needs the others to be inductive: a handler keeps to the task it was
asked for and has found the tags it names (`DraftFollowsTask`), what is stored follows
a task that was asked for (`StoredFollowsTask`), and a scope's tasks name no tag twice
(`ScopesNameTagsOnce`), or their rows could not be inserted. The rest is about the
helpers: merging tag lists names each tag once (`MergedTagsOnce`), shares are those of
the whole and add up to it (`SharesOfWhole`, `NormalizedWeights`), and filling in
missing weights leaves the given ones (`FilledFills`). From these: stored tasks are
well formed (`StoredTasksWellFormed`), keep the teacher's proportions
(`ProportionsKept`) and are low only for a reason (`LowSharesCaused`); a scope inserts
its items in turn, and one that fails leaves the ones before it (`PrefixStored`).
Readers are told alike because a task's rows are those of its JSON column
(`ReadersAgree`).

**WorkTemplates.** `WorksInv`: typed; every item of a stored work exists
(`WorkItemsExist`, since nothing is deleted); and each request is on course
(`RequestsOnCourse`): it has found the items it passed, has graded the tasks among
those it has seen, and what it sent or lost are the first results, in order.
`EventsOncePerResult` and `RepliesCoverWork` follow. `SectionsInOrder` takes a sorting
of the sections and counts the numbered headings. `VerdictsPair` is about
`isCorrectAnswer`: sorting both lists and comparing place by place accepts exactly when
the numbers can be paired within the tolerance. Sorted lists that agree give a pairing
by their permutations; for the other direction, were the numbers at one place too far
apart, the places up to it, or from it on, would have to find their partners among
fewer places (`SortedPairing`, a pigeonhole argument).

**Accounts.** First the migrations alone: a process that is about to commit a version
has it for itself and nobody has recorded it (`CommitterAlone`, the primary key of
`schema_migrations`), and a process has passed recorded versions only
(`PassedRecorded`); with that, a version is applied once, in order, and whoever is
past the migrations has all of them. Then the accounts: the seed and the phone `admin`
come together (`SeededFirst`), requests wait only in processes that have seeded, and
no action changes a registered user, so `TokensTrue` and `GrantorsAdmins` survive
every insert. The theorems are stated over what handlers answer.

Only model-checked: liveness (`HandledEventually`, `EventuallyShown`, `RequestsEnd`),
whose proofs need ENABLED, out of the prover's reach. Inductions over data are done for
the sets at hand: a set of naturals, or of subsets of a finite set, that contains the
first and, with each, the next, contains all of them (`UpToInduction`,
`SubsetInduction`); folds are unfolded through the recursive functions that define
them. No module with a theorem uses a RECURSIVE operator.

## 5. Where the code and its documents differ

Two runs show violations.

* `workbook_assembly_order`. `README.md:576` puts theory before the tasks related
  to it. A task of two topics stands under the first theory that shares one of
  them, and so before the second (`service.py:453`): one task on `A` and `B`, one theory
  on each, in either order.
* `subject_priors_put`. `README.md:584` says of the PUT that it updates the
  priors. A thread that found the profile empty before the PUT writes neutral
  priors after it (`service.py:70`), and later requests read those.

Seen while modelling, without a run of their own:

* `kafka.go:62`: a message whose handler failed is skipped, not retried; the
  consumer's test checks that it is not committed, but the next commit covers it.
* `kafka.go:65`: one failed commit ends the consumer, while `README.md:265` lets
  one expect that statistics follow every published event.
* `server.py:38` does not hand the request's `subject` (`README.md:558`) on: every
  workbook is built for the default subject.
* `service.py:384`: tasks skipped for the quota and taken back are appended after
  worse ranked ones, while the rationale sent along calls the tasks sorted.
* document-service never stores a job with status `failed` (`README.md:507`): a
  failed compilation leaves no job.
* Registration with `roles` is refused without an administrator's token even for
  `["student"]`, which the README's example sends.
* `isCorrectAnswer` accepts NaN for any number; a decimal comma separates tokens,
  so the branch that replaces it by a point is never taken.
* Register trims the phone, Login does not.
* The LaTeX of a work numbers its tasks, while the document compiled of it lets
  LaTeX enumerate tasks and theory alike: numbers differ between the two.
* The reply to POST of a submission shows a `review` the client sent, which is not
  stored; a GET of one task or of one work answers 201.
* gRPC RecordAttempt carries no course, so an attempt recorded that way is in no
  calibration.
* The signal that drains the HTTP server leaves gRPC calls to be cut when main
  returns: content-service tells its teacher that the document failed.
* Without KAFKA_BROKERS a check with a user id panics.
* A difficulty above 10 is stored and calibrated, but suggested as 10 at most, even for a
  task solved as often as the others.
* `discriminativeScore` takes a task no weak student has tried for one that
  separates well, since a rate without attempts is 0.

## 6. Plan

Done, in this order: the pipeline and its ledger, the cache, profiles, assembly,
documents, courses, content, calibration, works and answers, migrations and accounts,
with the proofs of five modules; then the processes (`Lifecycle`), everything the
services answer over HTTP and gRPC, documents between services (`WorkDocuments`),
commands that outlive their process, statistic-service as a whole
(`StatisticPipeline`), and the proofs about these and about `Accounts`; then the proofs
about `ContentTasks`, `WorkTemplates`, `WorkbookAssembly` and `Calibration`, with which
every safety property of the runs is a theorem.

Next, by importance:

1. The suggested difficulties and the weights as recommendation-service uses them: what
   a change of the calibration may do to the ranking of tasks.
2. The aggregation of a profile in SQL and its agreement with the calibration's
   ratings; the ranking of tasks by similarity, as an order.
3. An abstract specification of `WorkbookAssembly` (what a workbook is, without the
   loops) that the loops refine.

## 7. Not modelled

Generated gRPC code (messages and stubs; the calls through them are steps of
`WorkDocuments`, `AttemptEvents` and `Accounts`), the gateway and compose
(configuration; it fixes what the models assume: one instance per service, no restart
policy, Redis without persistence, documents on a volume), the JSON and environment
helpers of pkg/platform (stateless), the workbook demo, the memory repository of
recommendation-service (tests only), LaTeX texts, the heuristics and prompts of
ai-evaluator-service (any answer is an input of `ContentTasks`), the similarity scores
that rank tasks (any ranking is an input of `WorkbookAssembly`, and so are the scores of
topics), the averages of a
profile (repository.go:62-111 of statistic-service; the cache counts the rows they are
computed from).

Assumed throughout: `NewID` draws twelve random bytes and its ids are fresh; a SQL
statement is atomic, and a call may fail without effect or after it; signatures
and password hashes are not forged.
