-------------------------- MODULE WorkbookAssembly --------------------------
(***************************************************************************)
(* How recommendation-service turns ranked tasks into a workbook: pick     *)
(* tasks with at most two of one primary topic while there is a choice,    *)
(* pick theory for the topics of the picked tasks, and lay both out so     *)
(* that a task stands under the first theory it belongs to.                *)
(*                                                                         *)
(* A task is its place in the ranking, any ranking being an input.  Theory *)
(* is ranked by the scores of its topics: what the topics of the picked    *)
(* tasks score is an input too, the sum per theory and the sort are not.   *)
(***************************************************************************)
EXTENDS Naturals, Sequences, FiniteSets, Functions

CONSTANTS
  Topics,      \* topic ids
  TopicLists,  \* topic_ids a task may have
  Theories,    \* per theory id: its topic_ids
  TopicScores, \* what a topic of the picked tasks may score
  MaxRanked,   \* bound: tasks in the ranking
  MaxTasks,    \* bound: max_tasks of a request
  MaxTheory    \* bound: max_theory_items of a request

Theory == DOMAIN Theories
TopicsOf(list) == {list[k] : k \in DOMAIN list}
TheoryTopics == [t \in Theory |-> TopicsOf(Theories[t])]

ASSUME TopicListsAssumption == TopicLists \subseteq Seq(Topics)
ASSUME TheoriesAssumption ==
  IsFiniteSet(Theory) /\ \A t \in Theory : Theories[t] \in Seq(Topics)
ASSUME TopicScoresAssumption == TopicScores # {} /\ TopicScores \subseteq Nat \ {0}
ASSUME WorkbookBoundsAssumption ==
  MaxRanked \in Nat /\ MaxTasks \in Nat \ {0} /\ MaxTheory \in Nat \ {0}

VARIABLES
  ranked,       \* topic_ids of each task, best task first
  max_tasks, max_theory,
  stage,           \* "spread", "refill", "rank", "theory", "layout", "done"
  next,         \* the place of the loop in the sequence it runs over
  selected,     \* _select_tasks: the ranks picked so far
  candidates,   \* _select_theory: theories with a score above 0, in order
  theory,       \* _select_theory: the theories picked so far
  items         \* _build_workbook_payload: the items placed so far

input == <<ranked, max_tasks, max_theory>>
workbookVars == <<input, stage, next, selected, candidates, theory, items>>

Tasks == DOMAIN ranked
Primary(i) == IF ranked[i] = <<>> THEN {} ELSE {ranked[i][1]}
TaskTopics(i) == TopicsOf(ranked[i])
Picked == {selected[k] : k \in DOMAIN selected}
PickedWith(t) == Cardinality({i \in Picked : Primary(i) = {t}})
PickedTheory == {theory[k] : k \in DOMAIN theory}

Item == [kind : {"task"}, id : 1 .. MaxRanked] \cup [kind : {"theory"}, id : Theory]
PlacedTasks == {items[k].id : k \in {j \in DOMAIN items : items[j].kind = "task"}}

WorkbookTypeOK ==
  /\ ranked \in Seq(TopicLists)
  /\ Len(ranked) <= MaxRanked
  /\ max_tasks \in 1 .. MaxTasks
  /\ max_theory \in 1 .. MaxTheory
  /\ stage \in {"spread", "refill", "rank", "theory", "layout", "done"}
  /\ next \in 1 .. Len(ranked) + Len(candidates) + 1
  /\ selected \in Seq(Tasks)
  /\ Len(selected) <= max_tasks
  /\ candidates \in Seq(Theory)
  /\ theory \in Seq(Theory)
  /\ Len(theory) <= max_theory
  /\ items \in Seq(Item)

\* do_POST takes a max_tasks or max_theory_items of 0 for a missing one.
InitWorkbook ==
  /\ \E n \in 0 .. MaxRanked : ranked \in [1 .. n -> TopicLists]
  /\ max_tasks \in 1 .. MaxTasks
  /\ max_theory \in 1 .. MaxTheory
  /\ stage = "spread"
  /\ next = 1
  /\ selected = <<>>
  /\ candidates = <<>>
  /\ theory = <<>>
  /\ items = <<>>

-----------------------------------------------------------------------------
(* _select_tasks *)

\* Faulty variant: no quota.
SkippedNever(i) == FALSE

\* The primary topic is full, unless this would be the last task to pick.
Skipped(i) ==
  /\ \E t \in Primary(i) : PickedWith(t) >= 2
  /\ Len(selected) < max_tasks - 1

Pick(i) == selected' = Append(selected, i)
Full == Len(selected) = max_tasks

\* First loop: one task of the ranking.
Spread ==
  /\ stage = "spread" /\ next \in Tasks /\ ~Full
  /\ IF Skipped(next) THEN UNCHANGED selected ELSE Pick(next)
  /\ next' = next + 1
  /\ UNCHANGED <<input, stage, candidates, theory, items>>

\* The first loop is over; the second runs when tasks are still wanted.
EndSpread ==
  /\ stage = "spread" /\ (Full \/ next \notin Tasks)
  /\ stage' = IF Full THEN "rank" ELSE "refill"
  /\ next' = 1
  /\ UNCHANGED <<input, selected, candidates, theory, items>>

\* Faulty variant: the second loop starts from the worst task.
RefillWorstFirst ==
  /\ stage = "refill" /\ next \in Tasks /\ ~Full
  /\ LET i == Len(ranked) + 1 - next
     IN IF i \in Picked THEN UNCHANGED selected ELSE Pick(i)
  /\ next' = next + 1
  /\ UNCHANGED <<input, stage, candidates, theory, items>>

\* Second loop: the skipped tasks, in the order of the ranking.
Refill ==
  /\ stage = "refill" /\ next \in Tasks /\ ~Full
  /\ IF next \in Picked THEN UNCHANGED selected ELSE Pick(next)
  /\ next' = next + 1
  /\ UNCHANGED <<input, stage, candidates, theory, items>>

EndRefill ==
  /\ stage = "refill" /\ (Full \/ next \notin Tasks)
  /\ stage' = "rank"
  /\ UNCHANGED <<input, next, selected, candidates, theory, items>>

-----------------------------------------------------------------------------
(* _select_theory *)

\* Faulty variant: theory is not matched with the picked tasks.
RelatedToAnything(t) == TheoryTopics[t] # {}

\* A theory scores above 0 when one of its topics weighs in a picked task.
Related(t) == \E i \in Picked : TheoryTopics[t] \cap TaskTopics(i) # {}
RelatedTheory == {t \in Theory : Related(t)}

Orders(S) == {f \in [1 .. Cardinality(S) -> S] : {f[k] : k \in DOMAIN f} = S}

\* topic_scores: what each topic of the picked tasks has gathered, always above
\* 0.  A theory scores the sum over its topic_ids, a repeated one repeatedly.
PickedTopics == UNION {TaskTopics(i) : i \in Picked}
Score(topic_scores, t) ==
  SumFunction([k \in DOMAIN Theories[t] |->
                 IF Theories[t][k] \in PickedTopics THEN topic_scores[Theories[t][k]] ELSE 0])

\* Best score first; the ids that settle a tie are random.
Rankings ==
  {f \in Orders(RelatedTheory) :
     \E topic_scores \in [PickedTopics -> TopicScores] :
       \A k, l \in DOMAIN f : k < l => Score(topic_scores, f[k]) >= Score(topic_scores, f[l])}

\* No theory is picked when none is asked for or no task was picked.
RankTheory ==
  /\ stage = "rank"
  /\ IF max_theory = 0 \/ selected = <<>>
       THEN candidates' = <<>>
       ELSE candidates' \in Rankings
  /\ stage' = "theory"
  /\ next' = 1
  /\ UNCHANGED <<input, selected, theory, items>>

Covered == UNION {TheoryTopics[t] : t \in PickedTheory}

SelectTheory ==
  /\ stage = "theory" /\ next <= Len(candidates) /\ Len(theory) < max_theory
  /\ theory' = IF Covered \cap TheoryTopics[candidates[next]] = {}
                 THEN Append(theory, candidates[next]) ELSE theory
  /\ next' = next + 1
  /\ UNCHANGED <<input, stage, selected, candidates, items>>

EndTheory ==
  /\ stage = "theory" /\ (next > Len(candidates) \/ Len(theory) = max_theory)
  /\ stage' = "layout"
  /\ next' = 1
  /\ UNCHANGED <<input, selected, candidates, theory, items>>

-----------------------------------------------------------------------------
(* _build_workbook_payload *)

TaskItem(i) == [kind |-> "task", id |-> i]
TheoryItem(t) == [kind |-> "theory", id |-> t]
TaskItems(ids) == [k \in DOMAIN ids |-> TaskItem(ids[k])]

\* What a loop over the first n elements of s keeps that is in S.
Kept(s, S, n) ==
  LET kept[k \in 0 .. Len(s)] ==
        IF k = 0 THEN <<>> ELSE IF s[k] \in S THEN Append(kept[k - 1], s[k]) ELSE kept[k - 1]
  IN  kept[n]

Among(s, S) == Kept(s, S, Len(s))

TasksOf(t) == {i \in Picked : TaskTopics(i) \cap TheoryTopics[t] # {}}

\* Faulty variant: a task is placed under every theory it belongs to.
PlaceTheoryAgain ==
  /\ stage = "layout" /\ next <= Len(theory)
  /\ items' = items \o <<TheoryItem(theory[next])>>
                    \o TaskItems(Among(selected, TasksOf(theory[next])))
  /\ next' = next + 1
  /\ UNCHANGED <<input, stage, selected, candidates, theory>>

\* One theory, followed by the tasks that belong to it and stand nowhere yet.
PlaceTheory ==
  /\ stage = "layout" /\ next <= Len(theory)
  /\ items' = items \o <<TheoryItem(theory[next])>>
                    \o TaskItems(Among(selected, TasksOf(theory[next]) \ PlacedTasks))
  /\ next' = next + 1
  /\ UNCHANGED <<input, stage, selected, candidates, theory>>

\* The remaining tasks close the workbook.
PlaceRest ==
  /\ stage = "layout" /\ next > Len(theory)
  /\ items' = items \o TaskItems(Among(selected, Picked \ PlacedTasks))
  /\ stage' = "done"
  /\ UNCHANGED <<input, next, selected, candidates, theory>>

NextWorkbook ==
  \/ Spread \/ EndSpread \/ Refill \/ EndRefill
  \/ RankTheory \/ SelectTheory \/ EndTheory
  \/ PlaceTheory \/ PlaceRest

WorkbookSpec == InitWorkbook /\ [][NextWorkbook]_workbookVars

-----------------------------------------------------------------------------

Done == stage = "done"
Places(item) == {k \in DOMAIN items : items[k] = item}
EarlierWith(t, i) == Cardinality({j \in Picked : Primary(j) = {t} /\ j < i})
OverQuota == {i \in Picked : \E t \in Primary(i) : EarlierWith(t, i) >= 2}

\* The workbook holds every picked task and theory once and nothing else, and
\* as many tasks as were asked for or exist.
EachPlacedOnce ==
  Done =>
    /\ \A i \in Picked : Cardinality(Places(TaskItem(i))) = 1
    /\ \A t \in PickedTheory : Cardinality(Places(TheoryItem(t))) = 1
    /\ Len(items) = Cardinality(Picked) + Len(theory)
    /\ Len(selected) = IF Len(ranked) < max_tasks THEN Len(ranked) ELSE max_tasks

\* A third task of one topic is picked for the last place or for want of any
\* other task: when two or more are over the quota, no task is left out whose
\* topic still had room.
QuotaYieldsLast ==
  Done /\ Cardinality(OverQuota) > 1 =>
    \A i \in Tasks \ Picked : \E t \in Primary(i) : PickedWith(t) >= 2

\* Among the tasks of one primary topic the better ranked ones are picked; only
\* the last place may go to a task although a better one of its topic was
\* skipped before.
BetterRankedFirst ==
  Done => \A i \in Picked, j \in Tasks \ Picked :
    Primary(i) = Primary(j) => i < j \/ i = selected[max_tasks]

\* Picked theories share no topic, and each is about some picked task.
TheoryCoversApart ==
  /\ \A k, l \in DOMAIN theory :
       k # l => TheoryTopics[theory[k]] \cap TheoryTopics[theory[l]] = {}
  /\ \A t \in PickedTheory : Related(t)

\* Place l of the workbook stands under the theory of place k.
Under(k, l) ==
  /\ items[k].kind = "theory" /\ items[l].kind = "task" /\ k < l
  /\ \A m \in k + 1 .. l : items[m].kind = "task"

BelongsTo(l, t) == TaskTopics(items[l].id) \cap TheoryTopics[t] # {}
BelongsToNone(l) == TaskTopics(items[l].id) \cap Covered = {}

Opened ==
  /\ Len(items) >= 2
  /\ items[1] = TheoryItem(theory[1])
  /\ items[2].kind = "task" /\ BelongsTo(2, theory[1])

\* A theory that opens the workbook is followed by a task of its topics, and a
\* task that follows a theory without a theory in between belongs to it or to
\* no theory of the workbook.
TheoryIntroducesTasks ==
  Done =>
    /\ theory # <<>> => Opened
    /\ \A k, l \in DOMAIN items :
         Under(k, l) => BelongsTo(l, items[k].id) \/ BelongsToNone(l)

\* The loops run one after the other over what the one before has left.
LoopsInTurn ==
  /\ stage \in {"spread", "refill", "rank"} =>
       next <= Len(ranked) + 1 /\ candidates = <<>> /\ theory = <<>>
  /\ stage = "theory" => next <= Len(candidates) + 1 /\ Len(theory) < next
  /\ stage \in {"layout", "done"} => next <= Len(theory) + 1 /\ Len(theory) <= Len(candidates)
  /\ stage = "done" => next = Len(theory) + 1
  /\ stage \notin {"layout", "done"} \/ (stage = "layout" /\ next = 1) => items = <<>>
  /\ \A k \in DOMAIN candidates : Related(candidates[k])

QuotaIsFull(i) == \E t \in Primary(i) : PickedWith(t) >= 2
QuotaWasFull(i) == \E t \in Primary(i) : EarlierWith(t, i) >= 2
PickedLast(i) == Full /\ i = selected[max_tasks]

\* The first loop passes over tasks whose topic is full and exceeds a quota
\* with the last pick only; the second leaves no gap behind.
PicksByRank ==
  /\ \A k, l \in DOMAIN selected : k # l => selected[k] # selected[l]
  /\ stage = "spread" =>
       /\ \A i \in Picked : i < next
       /\ \A i \in 1 .. next - 1 : i \in Picked \/ QuotaWasFull(i)
       /\ \A i \in OverQuota : PickedLast(i)
  /\ stage = "refill" =>
       /\ \A i \in 1 .. next - 1 : i \in Picked
       /\ \A i \in Tasks \ Picked : QuotaIsFull(i)
  /\ stage # "spread" =>
       /\ (\A i \in OverQuota : PickedLast(i)) \/ (\A i \in Tasks \ Picked : QuotaIsFull(i))
       /\ \A i \in Picked, j \in Tasks \ Picked :
            Primary(i) = Primary(j) => i < j \/ PickedLast(i)
  /\ stage \notin {"spread", "refill"} => Full \/ Picked = Tasks

\* Nothing is placed twice, and every item is a picked task or a theory the
\* layout has come to.
ItemsInTurn ==
  /\ \A k, l \in DOMAIN items : k # l => items[k] # items[l]
  /\ \A k \in DOMAIN items : \/ \E i \in Picked : items[k] = TaskItem(i)
                             \/ \E j \in 1 .. next - 1 : items[k] = TheoryItem(theory[j])
  /\ \A j \in 1 .. next - 1 : \E k \in DOMAIN items : items[k] = TheoryItem(theory[j])
  /\ Len(items) = next - 1 + Cardinality(PlacedTasks)

\* A task under a theory belongs to it until the remaining tasks are placed.
TasksUnderTheory ==
  \A k, l \in DOMAIN items :
    Under(k, l) => BelongsTo(l, items[k].id) \/ (Done /\ BelongsToNone(l))

\* Tasks that are left belong to no theory placed so far.
LeftBelongToNone ==
  \A i \in Picked \ PlacedTasks, j \in 1 .. next - 1 : TaskTopics(i) \cap TheoryTopics[theory[j]] = {}

PlacesInTurn ==
  stage \in {"layout", "done"} =>
    /\ ItemsInTurn /\ TasksUnderTheory /\ LeftBelongToNone
    /\ next > 1 => Opened
    /\ stage = "done" => PlacedTasks = Picked

\* Sound loops: what is picked and placed is well formed, complete, single and
\* within the limits, and no two theories repeat a topic.
WorkbookInv ==
  /\ WorkbookTypeOK /\ EachPlacedOnce /\ TheoryCoversApart
  /\ LoopsInTurn /\ PicksByRank /\ PlacesInTurn

(* What the repository says and the code does not do. *)

\* README: theory stands before the tasks related to it.
TheoryBeforeRelatedTasks ==
  Done => \A k, l \in DOMAIN items :
    /\ items[k].kind = "theory" /\ items[l].kind = "task"
    /\ TaskTopics(items[l].id) \cap TheoryTopics[items[k].id] # {}
    => k < l
=============================================================================
