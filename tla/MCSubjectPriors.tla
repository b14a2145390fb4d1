--------------------------- MODULE MCSubjectPriors ---------------------------
(* Two subjects, two tags, two threads; PUT lists with a zero, a negative  *)
(* and an ordinary prior, and the empty list.                              *)
EXTENDS SubjectPriors, TLC
CONSTANTS math, physics, t1, t2, b1, b2

PriorValues == -1 .. 2

TeacherLists ==
  {NoTags, [t \in {t1} |-> 2], [t \in {t2} |-> -1], [t \in {t1, t2} |-> IF t = t1 THEN 0 ELSE 2]}
OneList == {[t \in {t1} |-> 2]}

ThreadSymmetry == Permutations(Builders)
=============================================================================
