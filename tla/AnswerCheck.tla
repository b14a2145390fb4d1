---------------------------- MODULE AnswerCheck ----------------------------
(***************************************************************************)
(* content-service: isCorrectAnswer.  An answer is its tokens and what     *)
(* separates or follows them.  A token is its folded text and the number it      *)
(* parses to; numbers are integers in units of 1 / Resolution, and what    *)
(* differs by at most Epsilon passes for equal.                            *)
(***************************************************************************)
EXTENDS Integers, SequencesExt

CONSTANTS
  NoNumber,    \* the number of a token that is a word
  NotANumber,  \* the number of the token NaN, which ParseFloat accepts
  Epsilon,     \* the tolerance
  Texts,       \* folded texts of tokens
  Separators   \* what may separate or follow tokens; "space" is trimmed at the end

ASSUME NumbersAssumption == {NoNumber, NotANumber} \cap Int = {} /\ NoNumber # NotANumber
ASSUME EpsilonAssumption == Epsilon \in Nat
ASSUME SeparatorsAssumption == "space" \in Separators

Token == [text : Texts, number : Int \cup {NoNumber, NotANumber}]
Answer == [tokens : Seq(Token), separator : Separators]

\* TrimSpace leaves nothing: no tokens, and no separator but space.
Blank(a) == a.tokens = <<>> /\ a.separator = "space"

IsNumeric(a) ==
  a.tokens # <<>> /\ \A i \in DOMAIN a.tokens : a.tokens[i].number # NoNumber

Numbers(a) == [i \in DOMAIN a.tokens |-> a.tokens[i].number]

\* sort.Float64s: NaN comes before every number.
SortsBefore(x, y) ==
  IF NotANumber \in {x, y} THEN x = NotANumber /\ y # NotANumber ELSE x < y

Rearrangements(s) ==
  {[i \in DOMAIN s |-> s[f[i]]] : f \in Bijection(DOMAIN s, DOMAIN s)}

Sorted(xs) == \A i, j \in DOMAIN xs : i < j => ~SortsBefore(xs[j], xs[i])

ParseNumericAnswer(a) == CHOOSE xs \in Rearrangements(Numbers(a)) : Sorted(xs)

\* The code asks whether the difference exceeds Epsilon; that of a NaN never does.
Close(x, y) == NotANumber \in {x, y} \/ (x - y <= Epsilon /\ y - x <= Epsilon)

EqualNumericAnswers(xs, ys) ==
  Len(xs) = Len(ys) /\ \A i \in DOMAIN xs : Close(xs[i], ys[i])

\* Letters are folded and spaces collapsed; separators other than space stay,
\* after a single token too.
NormalizeTextAnswer(a) == <<[i \in DOMAIN a.tokens |-> a.tokens[i].text], a.separator>>

\* Faulty variant: the numbers are compared as they were typed.
IsCorrectInOrder(expected, actual) ==
  /\ ~Blank(expected) /\ ~Blank(actual)
  /\ IF IsNumeric(expected) /\ IsNumeric(actual)
       THEN EqualNumericAnswers(Numbers(expected), Numbers(actual))
       ELSE NormalizeTextAnswer(expected) = NormalizeTextAnswer(actual)

IsCorrectAnswer(expected, actual) ==
  /\ ~Blank(expected) /\ ~Blank(actual)
  /\ IF IsNumeric(expected) /\ IsNumeric(actual)
       THEN EqualNumericAnswers(ParseNumericAnswer(expected), ParseNumericAnswer(actual))
       ELSE NormalizeTextAnswer(expected) = NormalizeTextAnswer(actual)

-----------------------------------------------------------------------------

\* What the comparison is meant to decide: the numbers of the two answers can
\* be paired so that each pair is equal within the tolerance.
CanBePaired(expected, actual) ==
  LET xs == Numbers(expected) ys == Numbers(actual)
  IN  /\ Len(xs) = Len(ys)
      /\ \E f \in Bijection(DOMAIN xs, DOMAIN xs) : \A i \in DOMAIN xs : Close(xs[i], ys[f[i]])

FreeOfNaN(a) == \A i \in DOMAIN a.tokens : a.tokens[i].number # NotANumber
=============================================================================
