------------------------------ MODULE MCCourses ------------------------------
EXTENDS Courses, TLC
CourseSymmetry == Permutations(Workers) \cup Permutations(Users)
=============================================================================
