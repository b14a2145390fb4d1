---------------------------- MODULE Courses_proofs ----------------------------
(***************************************************************************)
(* CoursesInv of Courses is inductive: without foreign keys, and whatever  *)
(* the handlers' statements interleave or fail, no row loses its parent.   *)
(***************************************************************************)
EXTENDS Courses, TLAPS

LEMMA InitCourses == Init => CoursesInv
<1> SUFFICES ASSUME Init PROVE CoursesInv
  OBVIOUS
<1>1. TypeOK
  BY ReviewBoundAssumption DEF Init, TypeOK, Handler, Rows
<1>2. LocalsTyped /\ TargetsExist /\ ReviewsNumbered /\ ReplyNotOlder
  BY DEF Init, LocalsTyped, TargetsExist, ReviewsNumbered, ReplyNotOlder
<1>3. RowsHaveParents /\ OwnerIsMember /\ ReviewedIffReview
  BY DEF Init, RowsHaveParents, OwnerIsMember, ReviewedIffReview
<1> QED BY <1>1, <1>2, <1>3 DEF CoursesInv

-----------------------------------------------------------------------------
(* The steps, by what they do to the tables. *)

\* A handler starts: nothing is written.
Starts(w) ==
  \/ \E c \in CourseIds, u \in Users : CreateCourse(w, c, u) \/ AddMember(w, c, u)
  \/ \E a \in AssignmentIds, c \in CourseIds : CreateAssignment(w, a, c)
  \/ \E s \in SubmissionIds, a \in AssignmentIds : CreateSubmission(w, s, a)
  \/ \E s \in SubmissionIds : ReviewSubmission(w, s)

\* A statement inside the transaction, or the end of a handler that failed.
Hidden(w) == InsertCourse(w) \/ InsertOwner(w) \/ Abort(w)

LEMMA Steps ==
  ASSUME [Next]_vars
  PROVE  \/ \E w \in Workers :
              \/ Starts(w) \/ Hidden(w) \/ CommitCourse(w)
              \/ \E role \in Roles : UpsertMember(w, role)
              \/ InsertAssignment(w) \/ InsertSubmission(w)
              \/ UpdateReview(w) \/ SelectReview(w)
         \/ UNCHANGED vars
  BY DEF Next, Starts, Hidden

\* What a start leaves behind.
Begun(w, next, x, ref) ==
  /\ pc' = [pc EXCEPT ![w] = next]
  /\ id' = [id EXCEPT ![w] = x]
  /\ target' = [target EXCEPT ![w] = ref]
  /\ mine' = [mine EXCEPT ![w] = 0]
  /\ reply' = [reply EXCEPT ![w] = 0]
  /\ next # "reread"
  /\ next \in {"courseRow", "ownerRow", "commit", "member"} => x \in CourseIds /\ ref \in Users
  /\ next = "member" => course[x] # None
  /\ next = "assignment" => x \in AssignmentIds /\ ref \in CourseIds /\ course[ref] # None
  /\ next = "submission" => x \in SubmissionIds /\ ref \in AssignmentIds /\ assignment[ref] # None
  /\ next = "review" => x \in SubmissionIds

LEMMA StartEffect ==
  ASSUME CoursesInv, NEW w \in Workers, Starts(w)
  PROVE  /\ UNCHANGED tables
         /\ \E next \in Handler \ {"idle"}, x \in Rows, ref \in Rows \cup Users \cup {None} :
              Begun(w, next, x, ref)
<1> DEFINE Effect ==
      /\ UNCHANGED tables
      /\ \E next \in Handler \ {"idle"}, x \in Rows, ref \in Rows \cup Users \cup {None} :
           Begun(w, next, x, ref)
<1>1. ASSUME NEW c \in CourseIds, NEW u \in Users, CreateCourse(w, c, u) PROVE Effect
  <2>1. UNCHANGED tables /\ Begun(w, "courseRow", c, u)
    BY <1>1 DEF CreateCourse, Begin, Step, Begun
  <2> QED BY <2>1 DEF Rows, Handler
<1>2. ASSUME NEW c \in CourseIds, NEW u \in Users, AddMember(w, c, u) PROVE Effect
  <2>1. UNCHANGED tables /\ Begun(w, "member", c, u)
    BY <1>2 DEF AddMember, CourseExists, Begin, Step, Begun
  <2> QED BY <2>1 DEF Rows, Handler
<1>3. ASSUME NEW a \in AssignmentIds, NEW c \in CourseIds, CreateAssignment(w, a, c) PROVE Effect
  <2>1. UNCHANGED tables /\ Begun(w, "assignment", a, c)
    BY <1>3 DEF CreateAssignment, CourseExists, Begin, Step, Begun
  <2> QED BY <2>1 DEF Rows, Handler
<1>4. ASSUME NEW s \in SubmissionIds, NEW a \in AssignmentIds, CreateSubmission(w, s, a) PROVE Effect
  <2>1. UNCHANGED tables /\ Begun(w, "submission", s, a)
    BY <1>4 DEF CreateSubmission, AssignmentExists, Begin, Step, Begun
  <2> QED BY <2>1 DEF Rows, Handler
<1>5. ASSUME NEW s \in SubmissionIds, ReviewSubmission(w, s) PROVE Effect
  <2>1. UNCHANGED tables /\ Begun(w, "review", s, None)
    BY <1>5 DEF ReviewSubmission, Begin, Step, Begun
  <2> QED BY <2>1 DEF Rows, Handler
<1> HIDE DEF Effect
<1>6. Effect
  BY <1>1, <1>2, <1>3, <1>4, <1>5 DEF Starts
<1> QED BY <1>6 DEF Effect

\* Facts of TypeOK the steps use.
LEMMA Types ==
  ASSUME CoursesInv
  PROVE  /\ course \in [CourseIds -> Users \cup {None}]
         /\ member \in [CourseIds \X Users -> Roles \cup {None}]
         /\ assignment \in [AssignmentIds -> CourseIds \cup {None}]
         /\ submission \in [SubmissionIds -> AssignmentIds \cup {None}]
         /\ review \in [SubmissionIds -> Nat]
         /\ status \in [SubmissionIds -> {"submitted", "reviewed"}]
         /\ reviews \in Nat
         /\ pc \in [Workers -> Handler]
         /\ id \in [Workers -> Rows \cup {None}]
         /\ target \in [Workers -> Rows \cup Users \cup {None}]
         /\ mine \in [Workers -> Nat]
         /\ reply \in [Workers -> Nat]
  BY ReviewBoundAssumption DEF CoursesInv, TypeOK, Review

\* A request begins with a row that exists, or is to be made.
LEMMA StartStep ==
  ASSUME CoursesInv, NEW w \in Workers, Starts(w)
  PROVE  CoursesInv'
<1>1. PICK next \in Handler \ {"idle"}, x \in Rows, ref \in Rows \cup Users \cup {None} :
        Begun(w, next, x, ref)
  BY StartEffect
<1>2. UNCHANGED tables
  BY StartEffect
<1> USE Types
<1>3. TypeOK'
  BY <1>1, <1>2 DEF Begun, CoursesInv, TypeOK, tables
<1>4. LocalsTyped'
  BY <1>1, <1>2 DEF Begun, CoursesInv, LocalsTyped, tables
<1>5. TargetsExist'
  BY <1>1, <1>2 DEF Begun, CoursesInv, TargetsExist, tables
<1>6. RowsHaveParents' /\ OwnerIsMember' /\ ReviewedIffReview'
  BY <1>2 DEF CoursesInv, RowsHaveParents, OwnerIsMember, ReviewedIffReview, tables
<1>7. ReviewsNumbered'
  BY <1>1, <1>2 DEF Begun, CoursesInv, ReviewsNumbered, tables
<1>8. ReplyNotOlder'
  BY <1>1, <1>2 DEF Begun, CoursesInv, ReplyNotOlder, tables
<1> QED BY <1>3, <1>4, <1>5, <1>6, <1>7, <1>8 DEF CoursesInv

\* The step of a handler in the middle leaves the locals of the others alone
\* and ends (or, inside the transaction and in a review, goes on).
LEMMA HiddenStep ==
  ASSUME CoursesInv, NEW w \in Workers, Hidden(w)
  PROVE  CoursesInv'
<1>1. UNCHANGED <<tables, mine>>
  BY DEF Hidden, InsertCourse, InsertOwner, Abort, Continue, End
<1>2. \/ \E next \in {"ownerRow", "commit"} :
           /\ pc[w] \in {"courseRow", "ownerRow"}
           /\ pc' = [pc EXCEPT ![w] = next]
           /\ UNCHANGED <<id, target, reply>>
      \/ /\ pc' = [pc EXCEPT ![w] = "idle"]
         /\ id' = [id EXCEPT ![w] = None]
         /\ target' = [target EXCEPT ![w] = None]
         /\ reply' = [reply EXCEPT ![w] = 0]
  BY DEF Hidden, InsertCourse, InsertOwner, Abort, Continue, End, Step
<1> USE Types
<1>3. TypeOK'
  BY <1>1, <1>2 DEF CoursesInv, TypeOK, tables, Handler
<1>4. LocalsTyped'
  BY <1>1, <1>2 DEF CoursesInv, LocalsTyped, tables
<1>5. TargetsExist'
  BY <1>1, <1>2 DEF CoursesInv, TargetsExist, tables
<1>6. RowsHaveParents' /\ OwnerIsMember' /\ ReviewedIffReview'
  BY <1>1 DEF CoursesInv, RowsHaveParents, OwnerIsMember, ReviewedIffReview, tables
<1>7. ReviewsNumbered'
  BY <1>1, <1>2 DEF CoursesInv, ReviewsNumbered, tables
<1>8. ReplyNotOlder'
  BY <1>1, <1>2 DEF CoursesInv, ReplyNotOlder, tables
<1> QED BY <1>3, <1>4, <1>5, <1>6, <1>7, <1>8 DEF CoursesInv

\* The last statement of a handler replies with review n or with none.
LEMMA EndKeepsLocals ==
  ASSUME CoursesInv, NEW w \in Workers, NEW n \in Nat, n # 0 => n >= mine[w],
         End(w, n), reviews' = reviews
  PROVE  /\ LocalsTyped' /\ ReplyNotOlder'
         /\ \A v \in Workers : mine'[v] <= reviews'
         /\ \A v \in Workers : pc'[v] # "idle" =>
              v # w /\ pc'[v] = pc[v] /\ id'[v] = id[v] /\ target'[v] = target[v] /\ mine'[v] = mine[v]
         /\ pc' \in [Workers -> Handler]
         /\ id' \in [Workers -> Rows \cup {None}]
         /\ target' \in [Workers -> Rows \cup Users \cup {None}]
         /\ UNCHANGED mine
         /\ reply' = [reply EXCEPT ![w] = n]
<1> USE Types
<1>1. /\ pc' = [pc EXCEPT ![w] = "idle"]
      /\ id' = [id EXCEPT ![w] = None]
      /\ target' = [target EXCEPT ![w] = None]
      /\ reply' = [reply EXCEPT ![w] = n]
      /\ mine' = mine
  BY DEF End, Step
<1>2. LocalsTyped'
  BY <1>1 DEF CoursesInv, LocalsTyped
<1>3. \A v \in Workers : mine'[v] <= reviews'
  BY <1>1 DEF CoursesInv, ReviewsNumbered
<1>4. ReplyNotOlder'
  BY <1>1 DEF CoursesInv, ReplyNotOlder
<1> QED BY <1>1, <1>2, <1>3, <1>4 DEF Handler

LEMMA CommitStep ==
  ASSUME CoursesInv, NEW w \in Workers, CommitCourse(w)
  PROVE  CoursesInv'
<1>1. /\ course' = [course EXCEPT ![id[w]] = target[w]]
      /\ member' = [member EXCEPT ![<<id[w], target[w]>>] = "teacher"]
      /\ End(w, 0)
      /\ UNCHANGED <<assignment, submission, review, status, reviews>>
  BY DEF CommitCourse
<1>2. id[w] \in CourseIds /\ target[w] \in Users /\ target[w] # None /\ "teacher" # None
  BY NoneAssumption DEF CommitCourse, CoursesInv, LocalsTyped, Roles
<1>3. /\ LocalsTyped' /\ ReplyNotOlder'
      /\ \A v \in Workers : mine'[v] <= reviews'
      /\ \A v \in Workers : pc'[v] # "idle" =>
           pc'[v] = pc[v] /\ id'[v] = id[v] /\ target'[v] = target[v] /\ mine'[v] = mine[v]
      /\ pc' \in [Workers -> Handler]
      /\ id' \in [Workers -> Rows \cup {None}]
      /\ target' \in [Workers -> Rows \cup Users \cup {None}]
      /\ UNCHANGED mine /\ reply' = [reply EXCEPT ![w] = 0]
  <2>1. End(w, 0) /\ reviews' = reviews
    BY <1>1
  <2> QED BY <2>1, EndKeepsLocals
<1> USE Types
<1>4. TypeOK'
  BY <1>1, <1>2, <1>3 DEF CoursesInv, TypeOK, Roles
<1>5. TargetsExist'
  BY <1>1, <1>2, <1>3 DEF CoursesInv, TargetsExist, LocalsTyped
<1>6. RowsHaveParents'
  BY <1>1, <1>2 DEF CoursesInv, RowsHaveParents
<1>7. OwnerIsMember'
  BY <1>1, <1>2 DEF CoursesInv, OwnerIsMember
<1>8. ReviewedIffReview' /\ ReviewsNumbered'
  BY <1>1, <1>3 DEF CoursesInv, ReviewedIffReview, ReviewsNumbered
<1> QED BY <1>3, <1>4, <1>5, <1>6, <1>7, <1>8 DEF CoursesInv

LEMMA MemberStep ==
  ASSUME CoursesInv, NEW w \in Workers, NEW role \in Roles, UpsertMember(w, role)
  PROVE  CoursesInv'
<1>1. /\ member' = [member EXCEPT ![<<id[w], target[w]>>] = role]
      /\ End(w, 0)
      /\ UNCHANGED <<course, assignment, submission, review, status, reviews>>
  BY DEF UpsertMember
<1>2. id[w] \in CourseIds /\ target[w] \in Users /\ course[id[w]] # None /\ role # None
  BY NoneAssumption DEF UpsertMember, CoursesInv, LocalsTyped, TargetsExist
<1>3. /\ LocalsTyped' /\ ReplyNotOlder'
      /\ \A v \in Workers : mine'[v] <= reviews'
      /\ \A v \in Workers : pc'[v] # "idle" =>
           pc'[v] = pc[v] /\ id'[v] = id[v] /\ target'[v] = target[v] /\ mine'[v] = mine[v]
      /\ pc' \in [Workers -> Handler]
      /\ id' \in [Workers -> Rows \cup {None}]
      /\ target' \in [Workers -> Rows \cup Users \cup {None}]
      /\ UNCHANGED mine /\ reply' = [reply EXCEPT ![w] = 0]
  <2>1. End(w, 0) /\ reviews' = reviews
    BY <1>1
  <2> QED BY <2>1, EndKeepsLocals
<1> USE Types
<1>4. TypeOK'
  BY <1>1, <1>2, <1>3 DEF CoursesInv, TypeOK
<1>5. TargetsExist'
  BY <1>1, <1>3 DEF CoursesInv, TargetsExist
<1>6. RowsHaveParents' /\ OwnerIsMember'
  BY <1>1, <1>2 DEF CoursesInv, RowsHaveParents, OwnerIsMember
<1>7. ReviewedIffReview' /\ ReviewsNumbered'
  BY <1>1, <1>3 DEF CoursesInv, ReviewedIffReview, ReviewsNumbered
<1> QED BY <1>3, <1>4, <1>5, <1>6, <1>7 DEF CoursesInv

LEMMA AssignmentStep ==
  ASSUME CoursesInv, NEW w \in Workers, InsertAssignment(w)
  PROVE  CoursesInv'
<1>1. /\ assignment' = [assignment EXCEPT ![id[w]] = target[w]]
      /\ End(w, 0)
      /\ UNCHANGED <<course, member, submission, review, status, reviews>>
  BY DEF InsertAssignment
<1>2. /\ id[w] \in AssignmentIds /\ target[w] \in CourseIds
      /\ course[target[w]] # None /\ target[w] # None
  BY NoneAssumption DEF InsertAssignment, CoursesInv, LocalsTyped, TargetsExist
<1>3. /\ LocalsTyped' /\ ReplyNotOlder'
      /\ \A v \in Workers : mine'[v] <= reviews'
      /\ \A v \in Workers : pc'[v] # "idle" =>
           pc'[v] = pc[v] /\ id'[v] = id[v] /\ target'[v] = target[v] /\ mine'[v] = mine[v]
      /\ pc' \in [Workers -> Handler]
      /\ id' \in [Workers -> Rows \cup {None}]
      /\ target' \in [Workers -> Rows \cup Users \cup {None}]
      /\ UNCHANGED mine /\ reply' = [reply EXCEPT ![w] = 0]
  <2>1. End(w, 0) /\ reviews' = reviews
    BY <1>1
  <2> QED BY <2>1, EndKeepsLocals
<1> USE Types
<1>4. TypeOK'
  BY <1>1, <1>2, <1>3 DEF CoursesInv, TypeOK
<1>5. TargetsExist'
  BY <1>1, <1>2, <1>3 DEF CoursesInv, TargetsExist, LocalsTyped
<1>6. RowsHaveParents' /\ OwnerIsMember'
  BY <1>1, <1>2 DEF CoursesInv, RowsHaveParents, OwnerIsMember
<1>7. ReviewedIffReview' /\ ReviewsNumbered'
  BY <1>1, <1>3 DEF CoursesInv, ReviewedIffReview, ReviewsNumbered
<1> QED BY <1>3, <1>4, <1>5, <1>6, <1>7 DEF CoursesInv

LEMMA SubmissionStep ==
  ASSUME CoursesInv, NEW w \in Workers, InsertSubmission(w)
  PROVE  CoursesInv'
<1>1. /\ submission' = [submission EXCEPT ![id[w]] = target[w]]
      /\ status' = [status EXCEPT ![id[w]] = "submitted"]
      /\ review' = [review EXCEPT ![id[w]] = 0]
      /\ End(w, 0)
      /\ UNCHANGED <<course, member, assignment, reviews>>
  BY DEF InsertSubmission
<1>2. /\ id[w] \in SubmissionIds /\ target[w] \in AssignmentIds
      /\ assignment[target[w]] # None /\ target[w] # None
  BY NoneAssumption DEF InsertSubmission, CoursesInv, LocalsTyped, TargetsExist
<1>3. /\ LocalsTyped' /\ ReplyNotOlder'
      /\ \A v \in Workers : mine'[v] <= reviews'
      /\ \A v \in Workers : pc'[v] # "idle" =>
           pc'[v] = pc[v] /\ id'[v] = id[v] /\ target'[v] = target[v] /\ mine'[v] = mine[v]
      /\ pc' \in [Workers -> Handler]
      /\ id' \in [Workers -> Rows \cup {None}]
      /\ target' \in [Workers -> Rows \cup Users \cup {None}]
      /\ UNCHANGED mine /\ reply' = [reply EXCEPT ![w] = 0]
  <2>1. End(w, 0) /\ reviews' = reviews
    BY <1>1
  <2> QED BY <2>1, EndKeepsLocals
<1> USE Types
<1>4. TypeOK'
  BY <1>1, <1>2, <1>3 DEF CoursesInv, TypeOK
<1>5. TargetsExist'
  BY <1>1, <1>3 DEF CoursesInv, TargetsExist
<1>6. RowsHaveParents' /\ OwnerIsMember'
  BY <1>1, <1>2 DEF CoursesInv, RowsHaveParents, OwnerIsMember
<1>7. ReviewedIffReview'
  BY <1>1, <1>2 DEF CoursesInv, ReviewedIffReview
<1>8. ReviewsNumbered'
  <2>1. \A s \in SubmissionIds : review'[s] = review[s] \/ review'[s] = 0
    BY <1>1, <1>2
  <2>2. \A v \in Workers : pc'[v] = "reread" => id[v] \in SubmissionIds
    BY <1>3 DEF CoursesInv, LocalsTyped
  <2> QED BY <1>1, <1>3, <2>1, <2>2 DEF CoursesInv, ReviewsNumbered
<1> QED BY <1>3, <1>4, <1>5, <1>6, <1>7, <1>8 DEF CoursesInv

LEMMA UpdateStep ==
  ASSUME CoursesInv, NEW w \in Workers, UpdateReview(w)
  PROVE  CoursesInv'
<1>1. /\ pc[w] = "review"
      /\ reviews < MaxReviews
      /\ reviews' = reviews + 1
      /\ mine' = [mine EXCEPT ![w] = reviews + 1]
      /\ pc' = [pc EXCEPT ![w] = "reread"]
      /\ UNCHANGED <<course, member, assignment, submission, id, target, reply>>
  BY DEF UpdateReview, Step
<1>2. \/ /\ submission[id[w]] # None
         /\ review' = [review EXCEPT ![id[w]] = reviews + 1]
         /\ status' = [status EXCEPT ![id[w]] = "reviewed"]
      \/ submission[id[w]] = None /\ UNCHANGED <<review, status>>
  BY DEF UpdateReview
<1>3. id[w] \in SubmissionIds /\ reply[w] = 0
  BY <1>1 DEF CoursesInv, LocalsTyped
<1> USE Types
<1>4. TypeOK'
  <2>1. reviews + 1 \in Review
    BY <1>1, ReviewBoundAssumption DEF Review
  <2>2. review' \in [SubmissionIds -> Review \cup {0}]
    BY <1>2, <1>3, <2>1 DEF CoursesInv, TypeOK
  <2>3. reviews' \in 0 .. MaxReviews
    BY <1>1, ReviewBoundAssumption
  <2>4. mine' \in [Workers -> Review \cup {0}] /\ pc' \in [Workers -> Handler]
    BY <1>1, <2>1 DEF CoursesInv, TypeOK, Handler
  <2>5. status' \in [SubmissionIds -> {"submitted", "reviewed"}]
    BY <1>2, <1>3
  <2>6. \A s \in SubmissionIds : submission'[s] = None => review'[s] = 0
    BY <1>1, <1>2, <1>3 DEF CoursesInv, TypeOK
  <2> QED BY <1>1, <2>2, <2>3, <2>4, <2>5, <2>6 DEF CoursesInv, TypeOK
<1>5. LocalsTyped'
  BY <1>1, <1>3 DEF CoursesInv, LocalsTyped
<1>6. TargetsExist' /\ RowsHaveParents' /\ OwnerIsMember'
  BY <1>1 DEF CoursesInv, TargetsExist, RowsHaveParents, OwnerIsMember
<1>7. ReviewedIffReview'
  BY <1>2, <1>3 DEF CoursesInv, ReviewedIffReview
<1>8. ReviewsNumbered'
  <2>1. \A s \in SubmissionIds : review'[s] = review[s] \/ review'[s] = reviews + 1
    BY <1>2, <1>3
  <2>2. \A s \in SubmissionIds : review[s] <= reviews
    BY DEF CoursesInv, ReviewsNumbered
  <2>3. \A s \in SubmissionIds : review'[s] <= reviews'
    BY <1>1, <2>1, <2>2
  <2>4. \A v \in Workers : mine'[v] <= reviews'
    BY <1>1 DEF CoursesInv, ReviewsNumbered
  <2>5. ASSUME NEW v \in Workers, pc'[v] = "reread", review'[id'[v]] # 0
        PROVE  review'[id'[v]] >= mine'[v]
    <3>1. CASE v = w
      <4>1. review'[id[w]] = reviews + 1
        <5>1. submission[id[w]] = None => review'[id[w]] = 0
          BY <1>2, <1>3 DEF CoursesInv, TypeOK
        <5> QED BY <1>1, <1>2, <1>3, <2>5, <3>1, <5>1
      <4> QED BY <1>1, <3>1, <4>1
    <3>2. CASE v # w
      <4>1. pc[v] = "reread" /\ id'[v] = id[v] /\ mine'[v] = mine[v] /\ id[v] \in SubmissionIds
        BY <1>1, <2>5, <3>2 DEF CoursesInv, LocalsTyped
      <4>2. review[id[v]] # 0 => review[id[v]] >= mine[v]
        BY <4>1 DEF CoursesInv, ReviewsNumbered
      <4>3. mine[v] <= reviews
        BY DEF CoursesInv, ReviewsNumbered
      <4> QED BY <2>1, <2>5, <4>1, <4>2, <4>3
    <3> QED BY <3>1, <3>2
  <2> QED BY <2>3, <2>4, <2>5 DEF ReviewsNumbered
<1>9. ReplyNotOlder'
  BY <1>1, <1>3 DEF CoursesInv, ReplyNotOlder
<1> QED BY <1>4, <1>5, <1>6, <1>7, <1>8, <1>9 DEF CoursesInv

LEMMA SelectStep ==
  ASSUME CoursesInv, NEW w \in Workers, SelectReview(w)
  PROVE  CoursesInv'
<1> USE Types
<1>1. /\ pc[w] = "reread"
      /\ End(w, review[id[w]])
      /\ UNCHANGED <<course, member, assignment, submission, review, status, reviews>>
  BY DEF SelectReview, ScanSubmission, tables
<1>2. /\ id[w] \in SubmissionIds /\ review[id[w]] \in Nat
      /\ review[id[w]] # 0 => review[id[w]] >= mine[w]
  BY <1>1 DEF CoursesInv, LocalsTyped, ReviewsNumbered
<1>3. /\ LocalsTyped' /\ ReplyNotOlder'
      /\ \A v \in Workers : mine'[v] <= reviews'
      /\ \A v \in Workers : pc'[v] # "idle" =>
           pc'[v] = pc[v] /\ id'[v] = id[v] /\ target'[v] = target[v] /\ mine'[v] = mine[v]
      /\ pc' \in [Workers -> Handler]
      /\ id' \in [Workers -> Rows \cup {None}]
      /\ target' \in [Workers -> Rows \cup Users \cup {None}]
      /\ UNCHANGED mine /\ reply' = [reply EXCEPT ![w] = review[id[w]]]
  <2>1. End(w, review[id[w]]) /\ reviews' = reviews
    BY <1>1
  <2> QED BY <1>2, <2>1, EndKeepsLocals
<1>4. TypeOK'
  <2>1. review[id[w]] \in Review \cup {0}
    BY <1>2 DEF CoursesInv, TypeOK
  <2>2. reply' \in [Workers -> Review \cup {0}]
    BY <1>3, <2>1 DEF CoursesInv, TypeOK
  <2> QED BY <1>1, <1>3, <2>2 DEF CoursesInv, TypeOK
<1>5. TargetsExist'
  BY <1>1, <1>3 DEF CoursesInv, TargetsExist
<1>6. RowsHaveParents' /\ OwnerIsMember' /\ ReviewedIffReview'
  BY <1>1 DEF CoursesInv, RowsHaveParents, OwnerIsMember, ReviewedIffReview
<1>7. ReviewsNumbered'
  BY <1>1, <1>3 DEF CoursesInv, ReviewsNumbered
<1> QED BY <1>3, <1>4, <1>5, <1>6, <1>7 DEF CoursesInv

-----------------------------------------------------------------------------

\* The invariant is inductive.
LEMMA KeepsCoursesInv ==
  ASSUME CoursesInv, [Next]_vars
  PROVE  CoursesInv'
<1>1. CASE UNCHANGED vars
  BY <1>1 DEF vars, tables, locals, CoursesInv, TypeOK, LocalsTyped, TargetsExist,
              RowsHaveParents, OwnerIsMember, ReviewedIffReview, ReviewsNumbered, ReplyNotOlder
<1> QED BY <1>1, Steps, StartStep, HiddenStep, CommitStep, MemberStep, AssignmentStep,
           SubmissionStep, UpdateStep, SelectStep

\* It holds in every reachable state.
THEOREM CoursesInvariant == Spec => []CoursesInv
<1>1. CoursesInv /\ [Next]_vars => CoursesInv'
  BY KeepsCoursesInv
<1> QED BY InitCourses, <1>1, PTL DEF Spec

\* Every row is found by following the lists.
LEMMA ParentsAreListed ==
  ASSUME CoursesInv
  PROVE  RowsAreListed
<1> DEFINE listed == UNION {ListAssignments(c) : c \in ListCourses}
           handedIn == UNION {ListSubmissions(row.id) : row \in listed}
<1> USE Types
<1>1. ASSUME NEW c \in CourseIds, ListMembers(c) # {} PROVE c \in ListCourses
  BY <1>1 DEF CoursesInv, RowsHaveParents, ListMembers, ListCourses, CourseExists
<1>2. ASSUME NEW a \in AssignmentIds, AssignmentExists(a) PROVE ScanAssignment(a) \in listed
  <2>1. assignment[a] \in CourseIds /\ assignment[a] \in ListCourses
    BY <1>2 DEF CoursesInv, RowsHaveParents, ListCourses, CourseExists, AssignmentExists
  <2>2. ScanAssignment(a) \in ListAssignments(assignment[a])
    BY <1>2 DEF ListAssignments, AssignmentExists
  <2> QED BY <2>1, <2>2
<1>3. ASSUME NEW s \in SubmissionIds, submission[s] # None PROVE ScanSubmission(s) \in handedIn
  <2>1. submission[s] \in AssignmentIds /\ AssignmentExists(submission[s])
    BY <1>3 DEF CoursesInv, RowsHaveParents, AssignmentExists
  <2>2. ScanAssignment(submission[s]) \in listed /\ ScanAssignment(submission[s]).id = submission[s]
    BY <1>2, <2>1 DEF ScanAssignment
  <2>3. ScanSubmission(s) \in ListSubmissions(submission[s])
    BY <1>3 DEF ListSubmissions
  <2> QED BY <2>2, <2>3
<1>4. ASSUME NEW row \in handedIn PROVE row.status = "reviewed" <=> row.review # 0
  <2>1. PICK s \in SubmissionIds : row = ScanSubmission(s)
    BY <1>4 DEF ListSubmissions
  <2> QED BY <2>1 DEF CoursesInv, ReviewedIffReview, ScanSubmission
<1> QED BY <1>1, <1>2, <1>3, <1>4 DEF RowsAreListed

\* What was stored stays reachable from GET /courses, although no foreign key
\* ties the tables.
THEOREM RowsReachable == Spec => []RowsAreListed
  BY CoursesInvariant, ParentsAreListed, PTL

\* What a list of members says of one user, whatever the roles are.
LEMMA RowInList ==
  ASSUME NEW f, NEW c, NEW o
  PROVE  [user |-> o, role |-> "teacher"] \in {[user |-> u, role |-> f[<<c, u>>]] : u \in {v \in Users : f[<<c, v>>] # None}}
           <=> o \in Users /\ f[<<c, o>>] = "teacher"
<1>1. "teacher" # None
  BY NoneAssumption DEF Roles
<1>2. ASSUME NEW u, [user |-> o, role |-> "teacher"] = [user |-> u, role |-> f[<<c, u>>]]
      PROVE  u = o /\ f[<<c, o>>] = "teacher"
  <2>1. [user |-> o, role |-> "teacher"].user = [user |-> u, role |-> f[<<c, u>>]].user
    BY <1>2
  <2>2. [user |-> o, role |-> "teacher"].role = [user |-> u, role |-> f[<<c, u>>]].role
    BY <1>2
  <2> QED BY <2>1, <2>2
<1> QED BY <1>1, <1>2

\* The owner of a new course teaches it, and goes on to unless he is added.
THEOREM OwnersTeach == Spec => OwnerTeaches
<1> DEFINE Kept(c) ==
      (CourseExists(c) /\ ~OwnerIsTeacher(c))' =>
         /\ CourseExists(c)
         /\ \/ ~OwnerIsTeacher(c)
            \/ \E w \in Workers : pc[w] = "member" /\ id[w] = c /\ target[w] = course[c]
<1>1. ASSUME CoursesInv, [Next]_vars, NEW c \in CourseIds PROVE Kept(c)
  <2> USE Types
  <2>1. OwnerIsTeacher(c) <=> course[c] \in Users /\ member[<<c, course[c]>>] = "teacher"
    BY RowInList DEF OwnerIsTeacher, ListMembers
  <2>2. /\ course' \in [CourseIds -> Users \cup {None}] /\ member' \in [CourseIds \X Users -> Roles \cup {None}]
    <3>1. CoursesInv'
      BY <1>1, KeepsCoursesInv
    <3> QED BY <3>1 DEF CoursesInv, TypeOK
  <2>3. OwnerIsTeacher(c)' <=> course'[c] \in Users /\ member'[<<c, course'[c]>>] = "teacher"
    BY RowInList DEF OwnerIsTeacher, ListMembers
  <2>4. ASSUME UNCHANGED <<course, member>> PROVE Kept(c)
    BY <2>1, <2>3, <2>4 DEF CourseExists
  <2>5. ASSUME NEW w \in Workers, CommitCourse(w) PROVE Kept(c)
    <3>1. /\ id[w] \in CourseIds /\ target[w] \in Users
          /\ course' = [course EXCEPT ![id[w]] = target[w]]
          /\ member' = [member EXCEPT ![<<id[w], target[w]>>] = "teacher"]
      BY <1>1, <2>5 DEF CommitCourse, CoursesInv, LocalsTyped
    <3>2. CASE c = id[w]
      BY <1>1, <2>3, <3>1, <3>2
    <3>3. CASE c # id[w]
      BY <1>1, <2>1, <2>3, <3>1, <3>3, NoneAssumption DEF CourseExists
    <3> QED BY <3>2, <3>3
  <2>6. ASSUME NEW w \in Workers, NEW role \in Roles, UpsertMember(w, role) PROVE Kept(c)
    <3>1. /\ id[w] \in CourseIds /\ target[w] \in Users /\ pc[w] = "member"
          /\ course' = course
          /\ member' = [member EXCEPT ![<<id[w], target[w]>>] = role]
      BY <1>1, <2>6 DEF UpsertMember, CoursesInv, LocalsTyped
    <3>2. CASE id[w] = c /\ target[w] = course[c]
      BY <2>6, <3>1, <3>2 DEF CourseExists
    <3>3. CASE ~(id[w] = c /\ target[w] = course[c])
      BY <1>1, <2>1, <2>3, <3>1, <3>3, NoneAssumption DEF CourseExists
    <3> QED BY <3>2, <3>3
  <2>7. ASSUME NEW w \in Workers,
               \/ Starts(w) \/ Hidden(w) \/ InsertAssignment(w) \/ InsertSubmission(w)
               \/ UpdateReview(w) \/ SelectReview(w)
        PROVE  UNCHANGED <<course, member>>
    BY <1>1, <2>7, StartEffect
       DEF Hidden, InsertCourse, InsertOwner, Abort, InsertAssignment, InsertSubmission,
           UpdateReview, SelectReview, tables
  <2>8. UNCHANGED vars => UNCHANGED <<course, member>>
    BY DEF vars, tables
  <2> QED BY <1>1, <2>4, <2>5, <2>6, <2>7, <2>8, Steps
<1>2. CoursesInv /\ [Next]_vars =>
        [\A c \in CourseIds : Kept(c)]_vars
  BY <1>1
<1> QED BY <1>2, CoursesInvariant, PTL DEF Spec, OwnerTeaches

\* A reviewer's reply is never older than the review it wrote.
THEOREM RepliesNotOlder == Spec => []ReplyNotOlder
<1>1. CoursesInv => ReplyNotOlder
  BY DEF CoursesInv
<1> QED BY <1>1, CoursesInvariant, PTL
=============================================================================
