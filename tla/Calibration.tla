---------------------------- MODULE Calibration ----------------------------
(***************************************************************************)
(* statistic-service: how the attempts of one course turn into task        *)
(* calibrations - a suggested difficulty relative to the course average    *)
(* and weights for the topics and tags of each task, by how well they      *)
(* separate strong students from weak ones.  Profiles rate topics and tags *)
(* by the same formulas.                                                   *)
(*                                                                         *)
(* Fractions are integers in units of 1 / One; One is a common multiple of *)
(* every denominator that occurs within MaxRecorded, so divisions by a     *)
(* number of attempts are exact where the code has floating point.         *)
(***************************************************************************)
EXTENDS Integers, FiniteSets, Functions, FiniteSetsExt

CONSTANTS
  Students, Tasks,  \* the students and the tasks of the course
  Difficulty,       \* per task: its difficulty, lifted to 1 and not capped
  TopicsOf,         \* per task: its topics
  TagWeights,       \* per task: the weight of each of its tags, in 1 / Unit
  Unit, One,        \* units of tag weights and of fractions
  MaxRecorded       \* bound: attempts recorded in the course

Topics == UNION {TopicsOf[t] : t \in Tasks}
TagsOf(t) == DOMAIN TagWeights[t]
Tags == UNION {TagsOf(t) : t \in Tasks}

MinSamples == 6
Divides(a, b) == b % a = 0

ASSUME CatalogueAssumption ==
  /\ IsFiniteSet(Students) /\ IsFiniteSet(Tasks)
  /\ Difficulty \in [Tasks -> Nat \ {0}]
  /\ \A t \in Tasks : IsFiniteSet(TopicsOf[t]) /\ IsFiniteSet(TagsOf(t))
  /\ \A t \in Tasks : \A g \in TagsOf(t) : TagWeights[t][g] \in Int /\ TagWeights[t][g] <= Unit
  /\ MaxRecorded \in Nat /\ Unit \in Nat \ {0} /\ One \in Nat \ {0}
  /\ Divides(20, One) /\ Divides(MinSamples * Unit, One)
  /\ \A m, n \in 1 .. MaxRecorded : m + n <= MaxRecorded => Divides(MinSamples * m * n, One)
  /\ \A m \in 1 .. MaxRecorded, n \in 1 .. Cardinality(Tasks) : Divides(m * n, One)

VARIABLES right, wrong  \* attempts of each student at each task of the course

course == <<right, wrong>>

Solved(S, t) == SumFunction([u \in S |-> right[u][t]])
Total(S, t) == SumFunction([u \in S |-> right[u][t] + wrong[u][t]])
Tried == {t \in Tasks : Total(Students, t) > 0}
Recorded == SumFunction([t \in Tasks |-> Total(Students, t)])

CourseTypeOK ==
  /\ right \in [Students -> [Tasks -> Nat]] /\ wrong \in [Students -> [Tasks -> Nat]]
  /\ Recorded <= MaxRecorded

InitCourse ==
  /\ right = [u \in Students |-> [t \in Tasks |-> 0]]
  /\ wrong = [u \in Students |-> [t \in Tasks |-> 0]]

\* An attempt is recorded with what the catalogue says of its task.
RecordAnswer(u, t, correct) ==
  /\ Recorded < MaxRecorded
  /\ right' = IF correct THEN [right EXCEPT ![u][t] = @ + 1] ELSE right
  /\ wrong' = IF correct THEN wrong ELSE [wrong EXCEPT ![u][t] = @ + 1]

NextCourse == \E u \in Students, t \in Tasks, correct \in BOOLEAN : RecordAnswer(u, t, correct)

CalibrationSpec == InitCourse /\ [][NextCourse]_course

-----------------------------------------------------------------------------
(* Who is strong: ratings and masteries over all attempts of the course.   *)

\* A topic counts by difficulty; a rating of 7 of 10 makes strong.
StrongInTopic(k) ==
  {u \in Students :
     LET with == {t \in Tasks : k \in TopicsOf[t]}
         attempts == SumFunction([t \in with |-> Difficulty[t] * (right[u][t] + wrong[u][t])])
         correct == SumFunction([t \in with |-> Difficulty[t] * right[u][t]])
     IN  attempts > 0 /\ 10 * correct >= 7 * attempts}

\* A tag counts by its weight in the task; a mastery of 0.65 makes strong.
StrongInTag(g) ==
  {u \in Students :
     LET with == {t \in Tasks : g \in TagsOf(t)}
         attempts == SumFunction([t \in with |-> TagWeights[t][g] * (right[u][t] + wrong[u][t])])
         correct == SumFunction([t \in with |-> TagWeights[t][g] * right[u][t]])
     IN  attempts > 0 /\ 100 * correct >= 65 * attempts}

-----------------------------------------------------------------------------
(* Weights: how much better the strong solve the task. *)

SafeRate(solved, total) == IF total = 0 THEN 0 ELSE (solved * One) \div total
RateOf(S, t) == SafeRate(Solved(S, t), Total(S, t))

\* Faulty variant: the weak are taken for the strong.
SignalSwapped(strong, t) ==
  LET gap == RateOf(Students \ strong, t) - RateOf(strong, t) IN IF gap < 0 THEN 0 ELSE gap

Signal(strong, t) ==
  LET gap == RateOf(strong, t) - RateOf(Students \ strong, t) IN IF gap < 0 THEN 0 ELSE gap

\* Faulty variant: one sample short of full confidence.
SamplesOf7(t) == (Min({Total(Students, t), MinSamples + 1}) * MinSamples) \div (MinSamples + 1)

\* Attempts that count towards full confidence.
Samples(t) == Min({Total(Students, t), MinSamples})

\* The fewer the attempts, the more the weight the teacher or the evaluator
\* gave stands in for the signal.
DiscriminativeScore(strong, t, base) ==
  LET n == Samples(t)
  IN  One \div 20 + (n * Signal(strong, t)) \div MinSamples
        + ((MinSamples - n) * base) \div MinSamples

Round4(x, unit) == (20000 * x + unit) \div (2 * unit)

\* Scores as shares of their sum, in ten-thousandths; none is 0, each has its
\* twentieth.
NormalizeScores(scores) ==
  LET total == SumFunction(scores)
  IN  [k \in DOMAIN scores |-> Round4(scores[k], total)]

BaseOf(t, g) == IF TagWeights[t][g] <= 0 THEN One ELSE TagWeights[t][g] * (One \div Unit)

CalibrationTopicWeights(t) ==
  NormalizeScores([k \in TopicsOf[t] |-> DiscriminativeScore(StrongInTopic(k), t, One)])
CalibrationTagWeights(t) ==
  NormalizeScores([g \in TagsOf(t) |-> DiscriminativeScore(StrongInTag(g), t, BaseOf(t, g))])

-----------------------------------------------------------------------------
(* Difficulty: relative to the average of the tasks that were tried. *)

Clamp(x, low, high) == IF x < low THEN low ELSE IF x > high THEN high ELSE x

\* Faulty variant: the average of the attempts, not of the tasks.
AverageOfAttempts ==
  (SumFunction([t \in Tried |-> Solved(Students, t)]) * One)
    \div SumFunction([t \in Tried |-> Total(Students, t)])

Rates == [t \in Tried |-> RateOf(Students, t)]
AverageSuccess == SumFunction(Rates) \div Cardinality(Tried)

\* Faulty variant: a task solved more often than the others gets harder.
SuggestedUpsideDown(t) ==
  Clamp(Difficulty[t] * (One + RateOf(Students, t) - AverageSuccess), One, 10 * One)

SuggestedDifficulty(t) ==
  Clamp(Difficulty[t] * (One + AverageSuccess - RateOf(Students, t)), One, 10 * One)

-----------------------------------------------------------------------------
(* Properties. *)

\* Shares add up but for the rounding, half a ten-thousandth each, and none
\* vanishes in it: with up to 950 of them even the smallest, a twentieth among
\* scores of one and a twentieth, rounds to more than nothing.
AreShares(w) ==
  LET n == Cardinality(DOMAIN w)
  IN  n > 0 => /\ 2 * SumFunction(w) \in 20000 - n .. 20000 + n
               /\ n <= 950 => \A k \in DOMAIN w : w[k] > 0

\* The weights the recommendation service multiplies with are shares.
WeightsAreShares ==
  \A t \in Tried : AreShares(CalibrationTopicWeights(t)) /\ AreShares(CalibrationTagWeights(t))

\* How much better the strong do than the weak, as the attempts show it.
Advantage(strong, t) ==
  IF Total(strong, t) = 0 THEN 0
  ELSE Max({0, (Solved(strong, t) * One) \div Total(strong, t) -
               (IF Total(Students \ strong, t) = 0 THEN 0
                ELSE (Solved(Students \ strong, t) * One) \div Total(Students \ strong, t))})

\* Of two tags the one that separates strong from weak students better, and
\* was not given less weight by the teacher, never gets the smaller weight.
SeparatingTagsWeighMore ==
  \A t \in Tried : \A g, h \in TagsOf(t) :
    /\ BaseOf(t, g) >= BaseOf(t, h)
    /\ Advantage(StrongInTag(g), t) >= Advantage(StrongInTag(h), t)
    => CalibrationTagWeights(t)[g] >= CalibrationTagWeights(t)[h]

\* From six attempts on the attempts alone decide: tags that separate equally
\* well weigh the same whatever the teacher gave them.
EnoughAttemptsOverrideTeacher ==
  \A t \in Tried : Total(Students, t) >= 6 => \A g, h \in TagsOf(t) :
    Advantage(StrongInTag(g), t) = Advantage(StrongInTag(h), t) =>
      CalibrationTagWeights(t)[g] = CalibrationTagWeights(t)[h]

\* The weights of every task that was tried are shares, and from six attempts
\* on they come from the attempts alone.
CalibrationInv == CourseTypeOK /\ WeightsAreShares /\ EnoughAttemptsOverrideTeacher

\* Calibration moves difficulty between tasks without inflating it: as long as
\* no suggestion hits a limit, the factors average to 1.
DifficultyIsRelative ==
  Tried # {} /\ (\A t \in Tried : SuggestedDifficulty(t) \in One + 1 .. 10 * One - 1) =>
    SumFunction([t \in Tried |-> SuggestedDifficulty(t) \div Difficulty[t]])
      \in Cardinality(Tried) * (One - 1) .. Cardinality(Tried) * One

\* A right answer never makes its own task look harder nor another one easier,
\* a wrong answer never the opposite - although every answer moves the average
\* that all tasks are measured against.
AnswerMovesRightly ==
  \A t \in Tried :
    LET before == SuggestedDifficulty(t)
        after == SuggestedDifficulty(t)'
        hit == \E u \in Students : right'[u][t] + wrong'[u][t] # right[u][t] + wrong[u][t]
        correct == right' # right
    IN  IF hit = correct THEN after <= before ELSE after >= before

AnswersMoveDifficulty == [][AnswerMovesRightly]_course
=============================================================================
