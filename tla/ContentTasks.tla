----------------------------- MODULE ContentTasks -----------------------------
(***************************************************************************)
(* Topics, tags and tasks in content-service, and who reads them.  Tasks   *)
(* are created one by one or a scope of them in one request.  For every    *)
(* task the handler looks its tags up, asks ai-evaluator-service for what  *)
(* the teacher left out, turns the weights into shares of their sum and    *)
(* stores the task with one row per tag in a transaction.  A scope is      *)
(* stored task by task: a failure leaves what was stored before it.        *)
(*                                                                         *)
(* Weights are integers in units of 1/Unit; a stored share is a fraction,  *)
(* its numerator per tag and one denominator per task.                     *)
(***************************************************************************)
EXTENDS Integers, SequencesExt

CONSTANTS
  Requests,      \* POST /tasks and POST /task-scopes requests
  Topics, Tags,  \* ids of topics and tags
  TopicIds,      \* ids a task may name as its topics, existing or not
  EveryTopic,    \* the topic a list of tasks names that is not filtered
  Plain,         \* tasks a POST /tasks may carry
  Scopes,        \* scopes a POST /task-scopes may carry
  Difficulties,  \* difficulties the evaluator may answer
  RawWeights,    \* weights its model may propose, 0 for a missing one
  Unit           \* the integer that stands for a weight of 1

ASSUME UnitAssumption == Unit \in Nat \ {0}
ASSUME TopicsAssumption == Topics \subseteq TopicIds /\ EveryTopic \notin TopicIds
ASSUME EvaluatorAssumption == Difficulties \subseteq 1 .. 10 /\ RawWeights \subseteq Int

Weighted == [tag : Tags, weight : Int]
Task == [difficulty : Int, topics : Seq(TopicIds), tags : Seq(Weighted)]
ScopeItem == [difficulty : Int, topicIDs : Seq(TopicIds), tagIDs : Seq(Tags), tags : Seq(Weighted)]
Scope == [topicIDs : Seq(TopicIds), tagIDs : Seq(Tags), items : Seq(ScopeItem) \ {<<>>}]

\* A scope without tasks is refused.
ASSUME RequestsAssumption == Plain \subseteq Task /\ Scopes \subseteq Scope

VARIABLES
  evaluator,  \* AI_EVALUATOR_URL is set
  topics,     \* topics
  catalogue,  \* tags
  pc,         \* per request: where its handler is, or how it ended
  todo,       \* per request: the tasks it creates, as asked
  at,         \* per request: which of them it is creating
  known,      \* per request: how many tags of that task it has looked up
  draft,      \* per request: that task with what the evaluator has added
  titled,     \* per request: the topics whose titles the evaluator is told
  nothing,    \* (history) per request: its tags the evaluator rounded to 0
  tasks,      \* tasks, in the order they were stored
  taskTags    \* task_tags

handler == <<pc, todo, at, known, draft, titled, nothing>>
vars == <<evaluator, topics, catalogue, handler, tasks, taskTags>>

NoTask == [difficulty |-> 0, topics |-> <<>>, tags |-> <<>>]
Running == {"tags", "topics", "evaluate", "save"}

\* by, item and nothing are history: whose task it is, which of the request,
\* and its tags the evaluator rounded to 0.
StoredTask ==
  [by : Requests, item : Nat \ {0}, difficulty : Nat \ {0}, topics : Seq(TopicIds),
   tags : Seq(Weighted), whole : Nat \ {0}, nothing : SUBSET Tags]

TypeOK ==
  /\ evaluator \in BOOLEAN
  /\ topics \subseteq Topics
  /\ catalogue \subseteq Tags
  /\ pc \in [Requests -> Running \cup {"idle", "created", "refused"}]
  /\ todo \in [Requests -> Seq(Task)]
  /\ at \in [Requests -> Nat \ {0}]
  /\ known \in [Requests -> Nat]
  /\ draft \in [Requests -> Task]
  /\ titled \in [Requests -> SUBSET Topics]
  /\ nothing \in [Requests -> SUBSET Tags]
  /\ tasks \in Seq(StoredTask)
  /\ taskTags \subseteq [task : DOMAIN tasks, tag : Tags, share : Int]
  /\ \A r \in Requests :
       /\ pc[r] # "idle" => at[r] \in DOMAIN todo[r]
       /\ pc[r] \in Running => known[r] \in 0 .. Len(draft[r].tags)

Init ==
  /\ evaluator \in BOOLEAN
  /\ topics = {}
  /\ catalogue = {}
  /\ pc = [r \in Requests |-> "idle"]
  /\ todo = [r \in Requests |-> <<>>]
  /\ at = [r \in Requests |-> 1]
  /\ known = [r \in Requests |-> 0]
  /\ draft = [r \in Requests |-> NoTask]
  /\ titled = [r \in Requests |-> {}]
  /\ nothing = [r \in Requests |-> {}]
  /\ tasks = <<>>
  /\ taskTags = {}

-----------------------------------------------------------------------------
(* What the service computes without a step of its own. *)

Including(out, v) == IF Contains(out, v) THEN out ELSE Append(out, v)

UniqueStrings(values) ==
  LET out[i \in 0 .. Len(values)] == IF i = 0 THEN <<>> ELSE Including(out[i - 1], values[i])
  IN  out[Len(values)]

TagIDs(tags) == [i \in DOMAIN tags |-> tags[i].tag]

\* Each tag once: those of the scope, then of the item, then the explicit
\* ones.  The last positive weight given to a tag counts.
MergeScopeTags(scopeIDs, itemIDs, explicit) ==
  LET bare == scopeIDs \o itemIDs
      ids == UniqueStrings(bare \o TagIDs(explicit))
      Given(t) == {k \in DOMAIN explicit : explicit[k].tag = t}
      Positive(t) == {k \in Given(t) : explicit[k].weight > 0}
      Weight(t) == IF Positive(t) # {} THEN explicit[Max(Positive(t))].weight
                   ELSE IF Contains(bare, t) THEN 0 ELSE explicit[Min(Given(t))].weight
  IN [i \in DOMAIN ids |-> [tag |-> ids[i], weight |-> Weight(ids[i])]]

TasksOf(scope) ==
  [i \in DOMAIN scope.items |->
     LET item == scope.items[i] IN
     [difficulty |-> item.difficulty,
      topics |-> UniqueStrings(scope.topicIDs \o item.topicIDs),
      tags |-> MergeScopeTags(scope.tagIDs, item.tagIDs, item.tags)]]

SumOf(numbers) ==
  LET sum[i \in 0 .. Len(numbers)] == IF i = 0 THEN 0 ELSE sum[i - 1] + numbers[i]
  IN  sum[Len(numbers)]

Total(tags) ==
  SumOf([i \in DOMAIN tags |-> IF tags[i].weight > 0 THEN tags[i].weight ELSE 0])

\* Python's round: to the nearest, a tie to the even neighbour.
Rounded(num, den) ==
  LET floor == num \div den
      twice == 2 * (num - floor * den)
  IN IF twice > den \/ (twice = den /\ floor % 2 = 1) THEN floor + 1 ELSE floor

\* _normalize_weights of ai-evaluator-service: a missing or non-positive
\* proposal counts as 1, then every tag gets its rounded share.
NormalizeWeights(tags, raw) ==
  LET weight == [t \in Tags |-> IF raw[t] <= 0 THEN Unit ELSE raw[t]]
      sum == SumOf([i \in DOMAIN tags |-> weight[tags[i].tag]])
  IN [t \in ToSet(TagIDs(tags)) |-> Rounded(weight[t] * Unit, sum)]

\* Faulty variant: only a missing difficulty is evaluated.
NeedsDifficulty(task) == task.difficulty <= 0

NeedsEvaluation(task) ==
  task.difficulty <= 0 \/ \E i \in DOMAIN task.tags : task.tags[i].weight <= 0

\* Faulty variant: the evaluator's answer replaces the teacher's weights.
FilledOverriding(task, difficulty, weights) ==
  [difficulty |-> difficulty, topics |-> task.topics,
   tags |-> [i \in DOMAIN task.tags |->
     [task.tags[i] EXCEPT !.weight = IF weights[task.tags[i].tag] > 0 THEN weights[task.tags[i].tag] ELSE @]]]

\* What the teacher gave stays; a gap takes the evaluator's positive answer.
Filled(task, difficulty, weights) ==
  [difficulty |-> IF task.difficulty <= 0 THEN difficulty ELSE task.difficulty,
   topics |-> task.topics,
   tags |-> [i \in DOMAIN task.tags |->
     [task.tags[i] EXCEPT !.weight =
        IF @ <= 0 /\ weights[task.tags[i].tag] > 0 THEN weights[task.tags[i].tag] ELSE @]]]

AtLeast1(n) == IF n <= 0 THEN 1 ELSE n

\* Faulty variant: the sum of the first pass is not reset.
SharesOnTop(asked, tags) ==
  IF Total(tags) > 0
    THEN [of |-> tags, whole |-> Total(asked) + Total(tags)]
    ELSE [of |-> [i \in DOMAIN tags |-> [tags[i] EXCEPT !.weight = 1]], whole |-> AtLeast1(Len(tags))]

\* Every weight is divided by the sum of the positive ones; without a
\* positive one the tags share equally.
Shares(asked, tags) ==
  IF Total(tags) > 0
    THEN [of |-> tags, whole |-> Total(tags)]
    ELSE [of |-> [i \in DOMAIN tags |-> [tags[i] EXCEPT !.weight = 1]], whole |-> AtLeast1(Len(tags))]

-----------------------------------------------------------------------------

CreateTopic(p) ==
  /\ p \notin topics
  /\ topics' = topics \cup {p}
  /\ UNCHANGED <<evaluator, catalogue, handler, tasks, taskTags>>

CreateTag(t) ==
  /\ t \notin catalogue
  /\ catalogue' = catalogue \cup {t}
  /\ UNCHANGED <<evaluator, topics, handler, tasks, taskTags>>

\* The handler turns to task i of the list.
Turn(r, list, i) ==
  /\ at' = [at EXCEPT ![r] = i]
  /\ known' = [known EXCEPT ![r] = 0]
  /\ draft' = [draft EXCEPT ![r] = list[i]]
  /\ titled' = [titled EXCEPT ![r] = {}]
  /\ nothing' = [nothing EXCEPT ![r] = {}]
  /\ pc' = [pc EXCEPT ![r] = "tags"]

Begin(r, list) ==
  /\ pc[r] = "idle"
  /\ todo' = [todo EXCEPT ![r] = list]
  /\ Turn(r, list, 1)
  /\ UNCHANGED <<evaluator, topics, catalogue, tasks, taskTags>>

\* Requests without a title, a body or a tag id are refused before this.
CreateTask(r, task) == Begin(r, <<task>>)

CreateTasksInScope(r, scope) == Begin(r, TasksOf(scope))

NextTag(r) == draft[r].tags[known[r] + 1].tag

GetTag(r) ==
  /\ pc[r] = "tags"
  /\ known[r] < Len(draft[r].tags)
  /\ NextTag(r) \in catalogue
  /\ known' = [known EXCEPT ![r] = @ + 1]
  /\ UNCHANGED <<evaluator, topics, catalogue, pc, todo, at, draft, titled, nothing, tasks, taskTags>>

Refuse(r) ==
  /\ pc' = [pc EXCEPT ![r] = "refused"]
  /\ UNCHANGED <<evaluator, topics, catalogue, todo, at, known, draft, titled, nothing>>

UnknownTag(r) ==
  /\ pc[r] = "tags"
  /\ known[r] < Len(draft[r].tags)
  /\ NextTag(r) \notin catalogue
  /\ Refuse(r)
  /\ UNCHANGED <<tasks, taskTags>>

TagsDone(r) ==
  /\ pc[r] = "tags"
  /\ known[r] = Len(draft[r].tags)
  /\ pc' = [pc EXCEPT ![r] = "topics"]
  /\ UNCHANGED <<evaluator, topics, catalogue, todo, at, known, draft, titled, nothing, tasks, taskTags>>

ListTopics == topics

\* The titles are for the evaluator only; a topic that does not exist is
\* passed over.
TopicTitles(r) ==
  /\ pc[r] = "topics"
  /\ titled' = [titled EXCEPT ![r] = ToSet(draft[r].topics) \cap ListTopics]
  /\ pc' = [pc EXCEPT ![r] = IF evaluator /\ NeedsEvaluation(draft[r]) THEN "evaluate" ELSE "save"]
  /\ UNCHANGED <<evaluator, topics, catalogue, todo, at, known, draft, nothing, tasks, taskTags>>

EvaluateTask(r, difficulty, raw) ==
  LET weights == NormalizeWeights(draft[r].tags, raw) IN
  /\ pc[r] = "evaluate"
  /\ draft' = [draft EXCEPT ![r] = Filled(@, difficulty, weights)]
  /\ nothing' = [nothing EXCEPT ![r] = {t \in DOMAIN weights : weights[t] = 0}]
  /\ pc' = [pc EXCEPT ![r] = "save"]
  /\ UNCHANGED <<evaluator, topics, catalogue, todo, at, known, titled, tasks, taskTags>>

\* The second row of a tag breaks the primary key of task_tags.
Insertable(r) == IsInjective(TagIDs(draft[r].tags))

Shared(r) == Shares(todo[r][at[r]].tags, draft[r].tags)

\* Faulty variant: no row for a tag without weight.
InsertTaskWeightedRows(r) ==
  LET shared == Shared(r) IN
  /\ Insertable(r)
  /\ tasks' = Append(tasks, [by |-> r, item |-> at[r], difficulty |-> AtLeast1(draft[r].difficulty),
                             topics |-> draft[r].topics, tags |-> shared.of, whole |-> shared.whole, nothing |-> nothing[r]])
  /\ taskTags' = taskTags \cup
       {[task |-> Len(tasks) + 1, tag |-> shared.of[i].tag, share |-> shared.of[i].weight] :
          i \in {j \in DOMAIN shared.of : shared.of[j].weight > 0}}

\* The transaction: the task with its tags as JSON, and a row per tag.
InsertTask(r) ==
  LET shared == Shared(r) IN
  /\ Insertable(r)
  /\ tasks' = Append(tasks, [by |-> r, item |-> at[r], difficulty |-> AtLeast1(draft[r].difficulty),
                             topics |-> draft[r].topics, tags |-> shared.of, whole |-> shared.whole, nothing |-> nothing[r]])
  /\ taskTags' = taskTags \cup
       {[task |-> Len(tasks) + 1, tag |-> shared.of[i].tag, share |-> shared.of[i].weight] :
          i \in DOMAIN shared.of}

SaveTask(r) ==
  /\ pc[r] = "save"
  /\ InsertTask(r)
  /\ IF at[r] < Len(todo[r])
       THEN Turn(r, todo[r], at[r] + 1)
       ELSE pc' = [pc EXCEPT ![r] = "created"] /\ UNCHANGED <<at, known, draft, titled, nothing>>
  /\ UNCHANGED <<evaluator, topics, catalogue, todo>>

\* The commit reports an error although the transaction went through.
SaveTaskFailsLate(r) ==
  /\ pc[r] = "save"
  /\ InsertTask(r)
  /\ Refuse(r)

\* Faulty variant: a scope goes on after a task that failed.
FailSkips(r) ==
  /\ pc[r] \in Running
  /\ IF at[r] < Len(todo[r])
       THEN Turn(r, todo[r], at[r] + 1)
       ELSE pc' = [pc EXCEPT ![r] = "refused"] /\ UNCHANGED <<at, known, draft, titled, nothing>>
  /\ UNCHANGED <<evaluator, topics, catalogue, todo, tasks, taskTags>>

\* A query or the evaluator fails, the transaction is rolled back, the client
\* goes away or the process dies: what was stored before stays.
Fail(r) ==
  /\ pc[r] \in Running
  /\ Refuse(r)
  /\ UNCHANGED <<tasks, taskTags>>

-----------------------------------------------------------------------------
(* What is answered about topics, tags and tasks. *)

ListTags == catalogue

ScanTask(n) ==
  [id |-> n, topics |-> tasks[n].topics, difficulty |-> tasks[n].difficulty,
   tags |-> ToSet(tasks[n].tags)]

ListTasks(topic) ==
  {ScanTask(n) : n \in {m \in DOMAIN tasks : topic = EveryTopic \/ Contains(tasks[m].topics, topic)}}

\* The join leaves out a row whose tag does not exist.
AttachTaskTags(task) ==
  [task EXCEPT !.tags =
     {[tag |-> row.tag, weight |-> row.share] :
        row \in {x \in taskTags : x.task = task.id /\ x.tag \in catalogue}}]

\* The task is returned by the statement that attaches the rows to it: Go
\* leaves open which comes first.
GetTask(n) == {ScanTask(n), AttachTaskTags(ScanTask(n))}

\* The gRPC answer, from which an attempt takes its topics, tags and difficulty.
TaskReply(n) ==
  {[topics |-> task.topics, difficulty |-> task.difficulty, tags |-> task.tags] :
     task \in GetTask(n)}

-----------------------------------------------------------------------------

Serve(r) ==
  \/ \E task \in Plain : CreateTask(r, task)
  \/ \E scope \in Scopes : CreateTasksInScope(r, scope)
  \/ GetTag(r)
  \/ UnknownTag(r)
  \/ TagsDone(r)
  \/ TopicTitles(r)
  \/ \E difficulty \in Difficulties, raw \in [Tags -> RawWeights] : EvaluateTask(r, difficulty, raw)
  \/ SaveTask(r)
  \/ SaveTaskFailsLate(r)
  \/ Fail(r)

Next ==
  \/ \E p \in Topics : CreateTopic(p)
  \/ \E t \in Tags : CreateTag(t)
  \/ \E r \in Requests : Serve(r)

Spec == Init /\ [][Next]_vars

-----------------------------------------------------------------------------

Asked(task) == todo[task.by][task.item]

\* The positive shares of a stored task add up to the whole, whichever of its
\* weights came from the teacher, from the evaluator or from neither.
SharesAddUp ==
  \A i \in DOMAIN tasks : tasks[i].tags # <<>> => Total(tasks[i].tags) = tasks[i].whole

\* Evaluation and normalisation keep what the teacher gave: the difficulty,
\* and the proportion between any two of the teacher's weights.
TeacherProportionsKept ==
  \A n \in DOMAIN tasks :
    LET task == tasks[n]
        asked == Asked(task)
    IN /\ asked.difficulty > 0 => task.difficulty = asked.difficulty
       /\ \A i, j \in DOMAIN asked.tags :
            asked.tags[i].weight > 0 /\ asked.tags[j].weight > 0 =>
              task.tags[i].weight * asked.tags[j].weight = task.tags[j].weight * asked.tags[i].weight

\* A tag is stored without a positive share only if the teacher gave it none,
\* another tag of the task has a positive one, and either no evaluator is
\* configured or its share of the tag was rounded to nothing.
LowShareHasCause ==
  \A n \in DOMAIN tasks : \A i \in DOMAIN tasks[n].tags :
    tasks[n].tags[i].weight <= 0 =>
      /\ Asked(tasks[n]).tags[i].weight <= 0
      /\ \E j \in DOMAIN tasks[n].tags : tasks[n].tags[j].weight > 0
      /\ evaluator => tasks[n].tags[i].tag \in tasks[n].nothing

\* A task is told alike to everybody: a student who finds it in the list of
\* one of its topics, existing or not, reads the JSON tags; a check, a work and
\* an attempt read it by its id, which may show the rows instead.  No row is
\* missing or refers to a tag that GET /tags does not show.
RowsMatchTask ==
  \A n \in DOMAIN tasks :
    /\ \A topic \in ToSet(tasks[n].topics) \cup {EveryTopic} : GetTask(n) \subseteq ListTasks(topic)
    /\ \A reply \in TaskReply(n) :
         /\ {tag.tag : tag \in reply.tags} \subseteq ListTags
         /\ \E task \in ListTasks(EveryTopic) :
              reply = [topics |-> task.topics, difficulty |-> task.difficulty, tags |-> task.tags]

StoredBy(r) == {n \in DOMAIN tasks : tasks[n].by = r}
ItemsStored(r) == {tasks[n].item : n \in StoredBy(r)}

\* Of a scope exactly the tasks before the first failure are stored, each
\* once and in order; all of them when the answer is a success.
ScopeStoresPrefix ==
  \A r \in Requests :
    /\ \A m, n \in StoredBy(r) : m < n => tasks[m].item < tasks[n].item
    /\ pc[r] \in Running => ItemsStored(r) = 1 .. at[r] - 1
    /\ pc[r] = "refused" => ItemsStored(r) \in {1 .. at[r] - 1, 1 .. at[r]}
    /\ pc[r] = "created" => ItemsStored(r) = DOMAIN todo[r]

\* A request of several tasks, which only a scope can be, is never refused
\* for naming a tag twice, however the lists of the scope and its items
\* overlap.
ScopesAreInsertable ==
  \A r \in Requests : pc[r] = "save" /\ Len(todo[r]) > 1 => Insertable(r)

\* A task that was asked for, with gaps filled and nothing else changed.
Fills(task, asked) ==
  /\ task.topics = asked.topics
  /\ asked.difficulty > 0 => task.difficulty = asked.difficulty
  /\ TagIDs(task.tags) = TagIDs(asked.tags)
  /\ \A i \in DOMAIN asked.tags :
       asked.tags[i].weight > 0 => task.tags[i].weight = asked.tags[i].weight

\* A handler works on the task it was asked for; it fills gaps only after all
\* tags were found, and an evaluator that was asked leaves only those it
\* rounded to nothing.
FollowsTask(r) ==
  pc[r] \in Running =>
    /\ Fills(draft[r], todo[r][at[r]])
    /\ pc[r] # "save" => draft[r] = todo[r][at[r]]
    /\ \A i \in DOMAIN draft[r].tags :
         /\ pc[r] # "tags" \/ i <= known[r] => draft[r].tags[i].tag \in catalogue
         /\ pc[r] = "save" /\ evaluator /\ draft[r].tags[i].weight <= 0 =>
              draft[r].tags[i].tag \in nothing[r]

DraftFollowsTask == \A r \in Requests : FollowsTask(r)

\* A stored task is one that was asked for, names existing tags, and has
\* exactly the rows of its tags.
StoredFollowsTask ==
  \A n \in DOMAIN tasks :
    /\ pc[tasks[n].by] # "idle"
    /\ tasks[n].item \in DOMAIN todo[tasks[n].by]
    /\ tasks[n].topics = Asked(tasks[n]).topics
    /\ TagIDs(tasks[n].tags) = TagIDs(Asked(tasks[n]).tags)
    /\ ToSet(TagIDs(tasks[n].tags)) \subseteq catalogue
    /\ {row \in taskTags : row.task = n} =
         {[task |-> n, tag |-> tag.tag, share |-> tag.weight] : tag \in ToSet(tasks[n].tags)}

\* The tasks of a scope name no tag twice.
ScopesNameTagsOnce ==
  \A r \in Requests : Len(todo[r]) > 1 =>
    \A i \in DOMAIN todo[r] : IsInjective(TagIDs(todo[r][i].tags))

\* Whatever was stored is well formed and weighs 1, and a scope's tags can be
\* inserted, because no handler strays from the tasks it was asked for.
ContentInv ==
  /\ TypeOK /\ SharesAddUp /\ ScopesAreInsertable
  /\ DraftFollowsTask /\ StoredFollowsTask /\ ScopesNameTagsOnce
=============================================================================
