--------------------------- MODULE WorkTemplates ---------------------------
(***************************************************************************)
(* content-service: work templates made of tasks and theory, the sections  *)
(* they are rendered in, and the checks of submitted answers with the      *)
(* events they publish.  Requests run concurrently, one lookup or one      *)
(* publication at a time, while tasks and theory are created; a list or a  *)
(* look at one entity changes nothing and is an operator.                  *)
(***************************************************************************)
EXTENDS AnswerCheck

CONSTANTS
  Requests,       \* requests that are made, each once
  TaskIds, TheoryIds, WorkIds,  \* ids NewID will draw
  Title,          \* per task and theory: its title, as its place in the alphabet
  TopicsOf,       \* per theory: its topics
  EveryTopic,     \* the topic a list of theory names that is not filtered
  CorrectAnswer,  \* per task: the stored answer
  ItemLists,      \* the item lists teachers send
  Submissions,    \* the answer lists students send
  NoWork          \* a work that does not exist

Contents == TaskIds \cup TheoryIds
Item == [content : Contents, order : Int]
Given == [task : TaskIds, answer : Answer]

\* A work without items is refused.
ASSUME ContentsAssumption == TaskIds \cap TheoryIds = {} /\ CorrectAnswer \in [TaskIds -> Answer]
ASSUME WorkAssumption == NoWork \notin WorkIds
ASSUME InputsAssumption ==
  ItemLists \subseteq Seq(Item) \ {<<>>} /\ Submissions \subseteq Seq(Given)

VARIABLES
  stored,   \* the tasks and theory that exist
  works,    \* per work: its items
  brokers,  \* whether KAFKA_BROKERS is set
  req       \* per request: what it is doing

vars == <<stored, works, brokers, req>>

Idle == [pc |-> "idle", work |-> NoWork, items |-> <<>>, next |-> 1, given |-> <<>>,
         user |-> FALSE, results |-> <<>>, sent |-> <<>>, lost |-> {}]

Heading == [content : Contents, number : Nat]
CheckResult == [task : TaskIds, answer : Answer, correct : BOOLEAN]

Request ==
  [pc : {"idle", "create", "check", "publish", "sections", "created", "replied", "failed", "aborted"},
   work : WorkIds \cup {NoWork}, items : Seq(Item), next : Nat \ {0}, given : Seq(Given),
   user : BOOLEAN, results : Seq(CheckResult) \cup Seq(Heading), sent : Seq(Nat), lost : SUBSET Nat]

TypeOK ==
  /\ stored \subseteq Contents
  /\ works \in [WorkIds -> Seq([content : Contents, order : Int \ {0}])]
  /\ brokers \in BOOLEAN
  /\ req \in [Requests -> Request]
  /\ \A r \in Requests : req[r].next \in 1 .. Len(req[r].items) + 1

Init ==
  /\ stored = {}
  /\ works = [w \in WorkIds |-> <<>>]
  /\ brokers \in BOOLEAN
  /\ req = [r \in Requests |-> Idle]

Exists(w) == works[w] # <<>>
End(r, pc) == req' = [req EXCEPT ![r].pc = pc]

Store(c) ==
  /\ c \notin stored
  /\ stored' = stored \cup {c}
  /\ UNCHANGED <<works, brokers, req>>

\* See ContentTasks; theory has a title, a body and topics but no tags.
CreateTask(t) == Store(t)
CreateTheory(h) == Store(h)

GetTask(c) == c \in stored \cap TaskIds
GetTheory(c) == c \in stored \cap TheoryIds

ListTheory(topic) ==
  {h \in TheoryIds : GetTheory(h) /\ (topic = EveryTopic \/ topic \in TopicsOf[h])}

ListWorks == {w \in WorkIds : Exists(w)}
GetWork(w) == [id |-> w, items |-> works[w]]

TasksAmong(items, n) ==
  LET tasks[i \in 0 .. Len(items)] ==
        IF i = 0 THEN <<>>
        ELSE IF items[i].content \in TaskIds THEN Append(tasks[i - 1], items[i].content)
        ELSE tasks[i - 1]
  IN  tasks[n]

\* The gRPC answer names the tasks of a work and leaves its theory out.
WorkTemplateReply(w) == TasksAmong(GetWork(w).items, Len(GetWork(w).items))

-----------------------------------------------------------------------------
(* POST /work-templates: every item is looked up and numbered, then the    *)
(* work is inserted.                                                       *)

CreateWork(r, w, items) ==
  /\ req[r].pc = "idle"
  /\ ~Exists(w) /\ \A q \in Requests : req[q].work # w
  /\ req' = [req EXCEPT ![r].pc = "create", ![r].work = w, ![r].items = items]
  /\ UNCHANGED <<stored, works, brokers>>

\* Faulty variant: items without a number stay without.
NumberedAsGiven(items) ==
  [i \in DOMAIN items |-> [content |-> items[i].content, order |-> items[i].order + 1]]

\* An item without a number takes its place.
Numbered(items) ==
  [i \in DOMAIN items |->
     [content |-> items[i].content, order |-> IF items[i].order = 0 THEN i ELSE items[i].order]]

\* Faulty variant: theory is not looked up.
LookUpTasksOnly(r) ==
  /\ req[r].pc = "create" /\ req[r].next <= Len(req[r].items)
  /\ IF req[r].items[req[r].next].content \in stored \cup TheoryIds
       THEN req' = [req EXCEPT ![r].next = @ + 1]
       ELSE End(r, "failed")
  /\ UNCHANGED <<stored, works, brokers>>

LookUp(r) ==
  /\ req[r].pc = "create" /\ req[r].next <= Len(req[r].items)
  /\ LET c == req[r].items[req[r].next].content IN
     IF GetTask(c) \/ GetTheory(c)
       THEN req' = [req EXCEPT ![r].next = @ + 1]
       ELSE End(r, "failed")
  /\ UNCHANGED <<stored, works, brokers>>

\* The row may be there although the insert reports an error.
InsertWork(r, told) ==
  /\ req[r].pc = "create" /\ req[r].next > Len(req[r].items)
  /\ works' = [works EXCEPT ![req[r].work] = Numbered(req[r].items)]
  /\ End(r, IF told THEN "created" ELSE "failed")
  /\ UNCHANGED <<stored, brokers>>

-----------------------------------------------------------------------------
(* GET /work-templates/{id}/latex, POST .../documents: the sections of a   *)
(* work by number, then title.  Works and contents are never changed or    *)
(* deleted, so the lookups come at one time.                               *)

Precedes(x, y) ==
  x.order < y.order \/ (x.order = y.order /\ Title[x.content] < Title[y.content])

\* sort.Slice leaves items that tie in any order.
Sections(items) ==
  {s \in Rearrangements(items) : \A i, j \in DOMAIN s : i < j => ~Precedes(s[j], s[i])}

\* The headings: tasks are numbered in the order they come in, theory is not.
BuildWorkbookLatex(sections) ==
  [i \in DOMAIN sections |->
     [content |-> sections[i].content,
      number |-> IF sections[i].content \in TheoryIds THEN 0
                 ELSE Cardinality({k \in 1 .. i : sections[k].content \in TaskIds})]]

WorkSections(r, w) ==
  /\ req[r].pc = "idle"
  /\ \/ /\ Exists(w)
        /\ \A i \in DOMAIN works[w] : GetTask(works[w][i].content) \/ GetTheory(works[w][i].content)
        /\ \E s \in Sections(works[w]) :
             req' = [req EXCEPT ![r].pc = "sections", ![r].work = w,
                                ![r].results = BuildWorkbookLatex(s)]
     \/ End(r, "failed")
  /\ UNCHANGED <<stored, works, brokers>>

-----------------------------------------------------------------------------
(* POST /tasks/{id}/check and /work-templates/{id}/check: all items are    *)
(* checked, then the results are published one after the other, then the   *)
(* request is answered.                                                    *)

CheckWork(r, w, given, user) ==
  /\ req[r].pc = "idle"
  /\ \/ /\ Exists(w)
        /\ req' = [req EXCEPT ![r].pc = "check", ![r].work = w, ![r].items = GetWork(w).items,
                              ![r].given = given, ![r].user = user]
     \/ End(r, "failed")
  /\ UNCHANGED <<stored, works, brokers>>

CheckTask(r, t, answer, user) ==
  /\ req[r].pc = "idle"
  /\ req' = [req EXCEPT ![r].pc = "check", ![r].items = <<[content |-> t, order |-> 1]>>,
                        ![r].given = <<[task |-> t, answer |-> answer]>>, ![r].user = user]
  /\ UNCHANGED <<stored, works, brokers>>

NoAnswer == [tokens |-> <<>>, separator |-> "space"]

AnswersTo(given, t) == {k \in DOMAIN given : given[k].task = t}

\* Faulty variant: the first of several answers to a task counts.
FirstAnswerByTask(given, t) ==
  IF AnswersTo(given, t) = {} THEN NoAnswer ELSE given[Min(AnswersTo(given, t))].answer

\* The last of several answers to a task counts, a missing one is empty.
AnswerByTask(given, t) ==
  IF AnswersTo(given, t) = {} THEN NoAnswer ELSE given[Max(AnswersTo(given, t))].answer

Result(r, t) ==
  LET answer == AnswerByTask(req[r].given, t)
  IN  [task |-> t, answer |-> answer,
       correct |-> IsCorrectAnswer(CorrectAnswer[t], answer)]

CheckItem(r) ==
  /\ req[r].pc = "check" /\ req[r].next <= Len(req[r].items)
  /\ LET c == req[r].items[req[r].next].content
     IN  CASE c \in TheoryIds -> req' = [req EXCEPT ![r].next = @ + 1]
           [] GetTask(c) ->
                req' = [req EXCEPT ![r].next = @ + 1, ![r].results = Append(@, Result(r, c))]
           [] OTHER -> End(r, "failed")
  /\ UNCHANGED <<stored, works, brokers>>

Checked(r) ==
  /\ req[r].pc = "check" /\ req[r].next > Len(req[r].items)
  /\ req' = [req EXCEPT ![r].pc = "publish", ![r].next = 1]
  /\ UNCHANGED <<stored, works, brokers>>

Done(r) == Len(req[r].sent) + Cardinality(req[r].lost)
Publishing(r) == req[r].pc = "publish" /\ req[r].user /\ Done(r) < Len(req[r].results)

\* Faulty variant: a publication that failed is made up for by the next ones.
PublishFirstMissing(r) ==
  /\ Publishing(r) /\ brokers
  /\ LET missing == {i \in DOMAIN req[r].results : i \notin Range(req[r].sent)}
     IN  req' = [req EXCEPT ![r].sent = Append(@, Min(missing))]
  /\ UNCHANGED <<stored, works, brokers>>

Publish(r) ==
  /\ Publishing(r) /\ brokers
  /\ req' = [req EXCEPT ![r].sent = Append(@, Done(r) + 1)]
  /\ UNCHANGED <<stored, works, brokers>>

\* The error of a publication is dropped; when the client is gone the context
\* is cancelled and every further one fails, too.
PublishFails(r) ==
  /\ Publishing(r) /\ brokers
  /\ req' = [req EXCEPT ![r].lost = @ \cup {Done(r) + 1}]
  /\ UNCHANGED <<stored, works, brokers>>

\* Without brokers the handler holds a nil publisher in an interface that is
\* not nil: the first publication panics and the connection is closed.
PublishPanics(r) ==
  /\ Publishing(r) /\ ~brokers
  /\ End(r, "aborted")
  /\ UNCHANGED <<stored, works, brokers>>

Reply(r) ==
  /\ req[r].pc = "publish" /\ ~Publishing(r)
  /\ End(r, "replied")
  /\ UNCHANGED <<stored, works, brokers>>

\* A lookup or the insert reports an error, or the client is gone.
Fail(r) ==
  /\ req[r].pc \in {"create", "check"}
  /\ End(r, "failed")
  /\ UNCHANGED <<stored, works, brokers>>

\* Every request is made once.
Next ==
  \/ \E t \in TaskIds : CreateTask(t)
  \/ \E h \in TheoryIds : CreateTheory(h)
  \/ \E r \in Requests :
       \/ \E w \in WorkIds, items \in ItemLists : CreateWork(r, w, items)
       \/ LookUp(r)
       \/ \E told \in BOOLEAN : InsertWork(r, told)
       \/ \E w \in WorkIds : WorkSections(r, w)
       \/ \E w \in WorkIds, given \in Submissions, user \in BOOLEAN : CheckWork(r, w, given, user)
       \/ \E given \in Submissions, user \in BOOLEAN :
            given # <<>> /\ CheckTask(r, given[1].task, given[1].answer, user)
       \/ CheckItem(r) \/ Checked(r)
       \/ Publish(r) \/ PublishFails(r) \/ PublishPanics(r) \/ Reply(r)
       \/ Fail(r)

Spec == Init /\ [][Next]_vars

-----------------------------------------------------------------------------
(* Properties. *)

\* Without foreign keys, every item of a listed work can be got: a check or a
\* rendering fails only when the database does.
WorkItemsExist ==
  \A w \in ListWorks : \A i \in DOMAIN GetWork(w).items :
    LET c == GetWork(w).items[i].content
    IN  GetTask(c) \/ (c \in ListTheory(EveryTopic) /\ \A p \in TopicsOf[c] : c \in ListTheory(p))

\* The order the teacher gave: items numbered by the teacher go by number,
\* items left without a number as they were listed.
ListedBefore(items, i, j) ==
  \/ items[i].order = 0 /\ items[j].order = 0 /\ i < j
  \/ items[i].order # 0 /\ items[j].order # 0 /\ items[i].order < items[j].order

ShownBefore(headings, c, d) ==
  \E k, l \in DOMAIN headings :
    /\ headings[k].content = c /\ headings[l].content = d /\ k < l
    /\ c \in TaskIds /\ d \in TaskIds => headings[k].number < headings[l].number

\* The sections of a work come in the order the teacher gave, whatever theory
\* stands between them; and the tasks count up in that order.
SectionsKeepOrder ==
  \A r, q \in Requests :
    req[r].pc = "sections" /\ req[q].pc = "created" /\ req[q].work = req[r].work =>
      \A i, j \in DOMAIN req[q].items :
        ListedBefore(req[q].items, i, j) =>
          ShownBefore(req[r].results, req[q].items[i].content, req[q].items[j].content)

\* Results are published for a named user only, each at most once and in the
\* order of the work; what a reply leaves unpublished was lost on the way.  A
\* check that is answered with an error has published nothing: its results are
\* not half counted, nor counted again with the student's next try.
OneEventPerResult ==
  \A r \in Requests :
    /\ req[r].pc = "failed" => req[r].sent = <<>>
    /\ req[r].sent # <<>> => req[r].user
    /\ \A i, j \in DOMAIN req[r].sent : i < j => req[r].sent[i] < req[r].sent[j]
    /\ req[r].pc = "replied" /\ req[r].user =>
         Range(req[r].sent) \cup req[r].lost = DOMAIN req[r].results

\* The reply to a check has one result for every task the work names over
\* gRPC, in its order, each for the answer that was given last: nothing the
\* student was shown is left ungraded, however long the check took.
ReplyCoversWork ==
  \A r \in Requests :
    req[r].pc = "replied" =>
      /\ req[r].work # NoWork =>
           [i \in DOMAIN req[r].results |-> req[r].results[i].task] = WorkTemplateReply(req[r].work)
      /\ \A i \in DOMAIN req[r].results, k \in DOMAIN req[r].given :
           /\ req[r].given[k].task = req[r].results[i].task
           /\ \A l \in DOMAIN req[r].given : l > k => req[r].given[l].task # req[r].given[k].task
           => req[r].results[i].answer = req[r].given[k].answer

\* A numeric answer counts exactly when its numbers can be paired with the
\* expected ones, whatever their order, format or separators.
VerdictIsPairing ==
  \A r \in Requests : req[r].pc # "sections" =>
    \A i \in DOMAIN req[r].results :
      LET x == req[r].results[i] expected == CorrectAnswer[x.task]
      IN  IsNumeric(expected) /\ IsNumeric(x.answer) /\ FreeOfNaN(expected) /\ FreeOfNaN(x.answer)
            => (x.correct <=> CanBePaired(expected, x.answer))

\* A work is inserted once, by the request that drew its id, after all its
\* items were found.
CreatesWork(r) ==
  /\ req[r].pc = "create" =>
       /\ req[r].work \in WorkIds /\ ~Exists(req[r].work)
       /\ \A q \in Requests \ {r} : req[q].work # req[r].work
       /\ req[r].items # <<>>
       /\ \A i \in 1 .. req[r].next - 1 : req[r].items[i].content \in stored
  /\ req[r].pc = "created" =>
       req[r].work \in WorkIds /\ works[req[r].work] = Numbered(req[r].items)

\* The sections shown are those of the work.
ShowsSections(r) ==
  req[r].pc = "sections" =>
    /\ req[r].work \in WorkIds /\ Exists(req[r].work)
    /\ \E s \in Sections(works[req[r].work]) : req[r].results = BuildWorkbookLatex(s)

ItemsSeen(r) == IF req[r].pc = "check" THEN req[r].next - 1 ELSE Len(req[r].items)

\* A check has graded the tasks among the items it has seen, each by the
\* answer given to it.
ChecksItems(r) ==
  /\ req[r].pc # "sections" =>
       \A i \in DOMAIN req[r].results : req[r].results[i] = Result(r, req[r].results[i].task)
  /\ req[r].pc \in {"check", "publish", "replied"} =>
       /\ req[r].work # NoWork => Exists(req[r].work) /\ req[r].items = works[req[r].work]
       /\ [i \in DOMAIN req[r].results |-> req[r].results[i].task] = TasksAmong(req[r].items, ItemsSeen(r))

\* What was sent or lost are the first results, for a named user only.
PublishesInOrder(r) ==
  /\ req[r].pc \in {"idle", "create", "check", "created", "failed"} \/ ~req[r].user =>
       req[r].sent = <<>> /\ req[r].lost = {}
  /\ \A i, j \in DOMAIN req[r].sent : i < j => req[r].sent[i] < req[r].sent[j]
  /\ IsFiniteSet(req[r].lost) /\ Range(req[r].sent) \cup req[r].lost = 1 .. Done(r)
  /\ Done(r) <= Len(req[r].results)
  /\ req[r].pc = "replied" /\ req[r].user => Done(r) = Len(req[r].results)

OnCourse(r) ==
  /\ req[r].pc = "idle" => req[r] = Idle
  /\ CreatesWork(r) /\ ShowsSections(r) /\ ChecksItems(r) /\ PublishesInOrder(r)

RequestsOnCourse == \A r \in Requests : OnCourse(r)

\* Stored works are well formed and refer to what exists, because requests do
\* what they were begun for.
WorksInv == TypeOK /\ WorkItemsExist /\ RequestsOnCourse
=============================================================================
