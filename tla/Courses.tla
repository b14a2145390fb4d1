------------------------------ MODULE Courses ------------------------------
(***************************************************************************)
(* course-service: courses with their members, assignments, submissions    *)
(* and reviews.  Handlers run concurrently; each is a short sequence of    *)
(* statements on tables that have no foreign keys, and only the creation   *)
(* of a course is a transaction.  A statement that reports an error may    *)
(* still have been carried out.                                            *)
(***************************************************************************)
EXTENDS Naturals, FiniteSets

CONSTANTS
  Workers,      \* handlers that may run at the same time
  Users,
  CourseIds, AssignmentIds, SubmissionIds,  \* ids NewID will draw
  None,         \* a row that does not exist
  MaxReviews    \* bound: reviews written

Roles == {"teacher", "student"}
Handler == {"idle", "courseRow", "ownerRow", "commit", "member", "assignment",
            "submission", "review", "reread"}
Review == 1 .. MaxReviews

ASSUME NoneAssumption ==
  None \notin Users \cup CourseIds \cup AssignmentIds \cup SubmissionIds \cup Roles
ASSUME ReviewBoundAssumption == MaxReviews \in Nat

VARIABLES
  course,      \* courses: owner of each course
  member,      \* course_members: role by course and user
  assignment,  \* assignments: course of each assignment
  submission,  \* submissions: assignment of each submission
  review,      \* submissions: review_json, 0 when there is none
  status,      \* submissions: "submitted" or "reviewed"
  reviews,     \* reviews written so far; a review is its number
  pc,          \* per worker: the statement its handler runs next
  id,          \* per worker: the row the handler writes
  target,      \* per worker: the user it adds, the row the new one refers to
  mine,        \* per worker: the review it wrote
  reply        \* per worker: the review its last reply showed, 0 for none

tables == <<course, member, assignment, submission, review, status, reviews>>
locals == <<pc, id, target, mine, reply>>
vars == <<tables, locals>>

Rows == CourseIds \cup AssignmentIds \cup SubmissionIds

TypeOK ==
  /\ course \in [CourseIds -> Users \cup {None}]
  /\ member \in [CourseIds \X Users -> Roles \cup {None}]
  /\ assignment \in [AssignmentIds -> CourseIds \cup {None}]
  /\ submission \in [SubmissionIds -> AssignmentIds \cup {None}]
  /\ review \in [SubmissionIds -> Review \cup {0}]
  /\ status \in [SubmissionIds -> {"submitted", "reviewed"}]
  /\ reviews \in 0 .. MaxReviews
  /\ pc \in [Workers -> Handler]
  /\ id \in [Workers -> Rows \cup {None}]
  /\ target \in [Workers -> Rows \cup Users \cup {None}]
  /\ mine \in [Workers -> Review \cup {0}]
  /\ reply \in [Workers -> Review \cup {0}]
  /\ \A s \in SubmissionIds : submission[s] = None => review[s] = 0

Init ==
  /\ course = [c \in CourseIds |-> None]
  /\ member = [m \in CourseIds \X Users |-> None]
  /\ assignment = [a \in AssignmentIds |-> None]
  /\ submission = [s \in SubmissionIds |-> None]
  /\ review = [s \in SubmissionIds |-> 0]
  /\ status = [s \in SubmissionIds |-> "submitted"]
  /\ reviews = 0
  /\ pc = [w \in Workers |-> "idle"]
  /\ id = [w \in Workers |-> None]
  /\ target = [w \in Workers |-> None]
  /\ mine = [w \in Workers |-> 0]
  /\ reply = [w \in Workers |-> 0]

CourseExists(c) == course[c] # None
AssignmentExists(a) == assignment[a] # None

(* What the lists answer; one of an unknown course or assignment is empty. *)
ListCourses == {c \in CourseIds : CourseExists(c)}

ListMembers(c) ==
  {[user |-> u, role |-> member[<<c, u>>]] : u \in {v \in Users : member[<<c, v>>] # None}}

ScanAssignment(a) == [id |-> a, course |-> assignment[a]]
ListAssignments(c) ==
  {ScanAssignment(a) : a \in {b \in AssignmentIds : AssignmentExists(b) /\ assignment[b] = c}}

ScanSubmission(s) ==
  [id |-> s, assignment |-> submission[s], status |-> status[s], review |-> review[s]]
ListSubmissions(a) ==
  {ScanSubmission(s) : s \in {t \in SubmissionIds : submission[t] # None /\ submission[t] = a}}

-----------------------------------------------------------------------------

Fresh(x) == \A w \in Workers : id[w] # x
Step(w, next) == pc' = [pc EXCEPT ![w] = next]

Begin(w, next, x, ref) ==
  /\ pc[w] = "idle"
  /\ Step(w, next)
  /\ id' = [id EXCEPT ![w] = x]
  /\ target' = [target EXCEPT ![w] = ref]
  /\ mine' = [mine EXCEPT ![w] = 0]
  /\ reply' = [reply EXCEPT ![w] = 0]
  /\ UNCHANGED tables

\* The handler's last statement: it replies, with review n if that is what
\* it reports.
End(w, n) ==
  /\ Step(w, "idle")
  /\ id' = [id EXCEPT ![w] = None]
  /\ target' = [target EXCEPT ![w] = None]
  /\ reply' = [reply EXCEPT ![w] = n]
  /\ UNCHANGED mine

Continue(w, next) == Step(w, next) /\ UNCHANGED <<id, target, mine, reply>>

-----------------------------------------------------------------------------
(* POST /courses: one transaction inserts the course and its owner. *)

CreateCourse(w, c, owner) ==
  /\ course[c] = None /\ Fresh(c)
  /\ Begin(w, "courseRow", c, owner)

\* Faulty variant: there is no transaction, the course is there at once.
InsertCourseAutocommit(w) ==
  /\ pc[w] = "courseRow"
  /\ course' = [course EXCEPT ![id[w]] = target[w]]
  /\ Continue(w, "ownerRow")
  /\ UNCHANGED <<member, assignment, submission, review, status, reviews>>

InsertCourse(w) ==
  /\ pc[w] = "courseRow"
  /\ Continue(w, "ownerRow")
  /\ UNCHANGED tables

InsertOwner(w) ==
  /\ pc[w] = "ownerRow"
  /\ Continue(w, "commit")
  /\ UNCHANGED tables

\* The commit makes both rows visible; its error may come after the fact.
CommitCourse(w) ==
  /\ pc[w] = "commit"
  /\ course' = [course EXCEPT ![id[w]] = target[w]]
  /\ member' = [member EXCEPT ![<<id[w], target[w]>>] = "teacher"]
  /\ End(w, 0)
  /\ UNCHANGED <<assignment, submission, review, status, reviews>>

-----------------------------------------------------------------------------
(* POST /courses/{id}/members: the course is looked up, then the role of    *)
(* the user is inserted or replaced.                                        *)

\* Faulty variant: the course is not looked up.
AddMemberUnchecked(w, c, u) == Begin(w, "member", c, u)

AddMember(w, c, u) ==
  /\ CourseExists(c)
  /\ Begin(w, "member", c, u)

UpsertMember(w, role) ==
  /\ pc[w] = "member"
  /\ member' = [member EXCEPT ![<<id[w], target[w]>>] = role]
  /\ End(w, 0)
  /\ UNCHANGED <<course, assignment, submission, review, status, reviews>>

-----------------------------------------------------------------------------
(* POST /courses/{id}/assignments and POST /assignments/{id}/submissions *)

CreateAssignment(w, a, c) ==
  /\ CourseExists(c)
  /\ assignment[a] = None /\ Fresh(a)
  /\ Begin(w, "assignment", a, c)

InsertAssignment(w) ==
  /\ pc[w] = "assignment"
  /\ assignment' = [assignment EXCEPT ![id[w]] = target[w]]
  /\ End(w, 0)
  /\ UNCHANGED <<course, member, submission, review, status, reviews>>

\* Anyone signed in may submit, as often as they like.
CreateSubmission(w, s, a) ==
  /\ AssignmentExists(a)
  /\ submission[s] = None /\ Fresh(s)
  /\ Begin(w, "submission", s, a)

InsertSubmission(w) ==
  /\ pc[w] = "submission"
  /\ submission' = [submission EXCEPT ![id[w]] = target[w]]
  /\ status' = [status EXCEPT ![id[w]] = "submitted"]
  /\ review' = [review EXCEPT ![id[w]] = 0]
  /\ End(w, 0)
  /\ UNCHANGED <<course, member, assignment, reviews>>

-----------------------------------------------------------------------------
(* POST /submissions/{id}/review: an update by id, then a select by id.     *)

ReviewSubmission(w, s) == Begin(w, "review", s, None)

\* Faulty variant: the first review stands.
UpdateReviewOnce(w) ==
  /\ pc[w] = "review"
  /\ reviews < MaxReviews
  /\ reviews' = reviews + 1
  /\ mine' = [mine EXCEPT ![w] = reviews + 1]
  /\ IF submission[id[w]] # None /\ review[id[w]] = 0
       THEN /\ review' = [review EXCEPT ![id[w]] = reviews + 1]
            /\ status' = [status EXCEPT ![id[w]] = "reviewed"]
       ELSE UNCHANGED <<review, status>>
  /\ Step(w, "reread")
  /\ UNCHANGED <<course, member, assignment, submission, id, target, reply>>

\* Faulty variant: the status is left as it was.
UpdateReviewOnly(w) ==
  /\ pc[w] = "review"
  /\ reviews < MaxReviews
  /\ reviews' = reviews + 1
  /\ mine' = [mine EXCEPT ![w] = reviews + 1]
  /\ IF submission[id[w]] # None
       THEN review' = [review EXCEPT ![id[w]] = reviews + 1]
       ELSE UNCHANGED review
  /\ Step(w, "reread")
  /\ UNCHANGED <<course, member, assignment, submission, status, id, target, reply>>

\* An update of an id without a row changes nothing and is no error.
UpdateReview(w) ==
  /\ pc[w] = "review"
  /\ reviews < MaxReviews
  /\ reviews' = reviews + 1
  /\ mine' = [mine EXCEPT ![w] = reviews + 1]
  /\ IF submission[id[w]] # None
       THEN /\ review' = [review EXCEPT ![id[w]] = reviews + 1]
            /\ status' = [status EXCEPT ![id[w]] = "reviewed"]
       ELSE UNCHANGED <<review, status>>
  /\ Step(w, "reread")
  /\ UNCHANGED <<course, member, assignment, submission, id, target, reply>>

SelectReview(w) ==
  /\ pc[w] = "reread"
  /\ End(w, ScanSubmission(id[w]).review)
  /\ UNCHANGED tables

-----------------------------------------------------------------------------

\* A statement fails before it is carried out, the client goes away, or the
\* process dies: an open transaction is rolled back, the rest stays.
Abort(w) ==
  /\ pc[w] # "idle"
  /\ End(w, 0)
  /\ UNCHANGED tables

Next ==
  \E w \in Workers :
    \/ \E c \in CourseIds, u \in Users : CreateCourse(w, c, u) \/ AddMember(w, c, u)
    \/ InsertCourse(w) \/ InsertOwner(w) \/ CommitCourse(w)
    \/ \E role \in Roles : UpsertMember(w, role)
    \/ \E a \in AssignmentIds, c \in CourseIds : CreateAssignment(w, a, c)
    \/ InsertAssignment(w)
    \/ \E s \in SubmissionIds, a \in AssignmentIds : CreateSubmission(w, s, a)
    \/ InsertSubmission(w)
    \/ \E s \in SubmissionIds : ReviewSubmission(w, s)
    \/ UpdateReview(w) \/ SelectReview(w)
    \/ Abort(w)

Spec == Init /\ [][Next]_vars

-----------------------------------------------------------------------------

\* No row refers to a missing one.
RowsHaveParents ==
  /\ \A c \in CourseIds, u \in Users : member[<<c, u>>] # None => course[c] # None
  /\ \A a \in AssignmentIds : assignment[a] # None => course[assignment[a]] # None
  /\ \A s \in SubmissionIds : submission[s] # None => assignment[submission[s]] # None

\* No foreign key ties the tables, yet whatever was stored is found by somebody
\* who follows the lists from GET /courses on, and a submission is listed as
\* reviewed exactly when its review is: the lookups before the inserts are
\* enough because nothing is ever deleted.
RowsAreListed ==
  LET listed == UNION {ListAssignments(c) : c \in ListCourses}
      handedIn == UNION {ListSubmissions(row.id) : row \in listed}
  IN /\ \A c \in CourseIds : ListMembers(c) # {} => c \in ListCourses
     /\ \A a \in AssignmentIds : AssignmentExists(a) => ScanAssignment(a) \in listed
     /\ \A s \in SubmissionIds : submission[s] # None => ScanSubmission(s) \in handedIn
     /\ \A row \in handedIn : row.status = "reviewed" <=> row.review # 0

\* The owner of a course teaches it from the moment it is there, until a request
\* that adds him as a member gives him another role.
OwnerIsTeacher(c) == [user |-> course[c], role |-> "teacher"] \in ListMembers(c)

OwnerTeaches ==
  [][\A c \in CourseIds :
       (CourseExists(c) /\ ~OwnerIsTeacher(c))' =>
         /\ CourseExists(c)
         /\ \/ ~OwnerIsTeacher(c)
            \/ \E w \in Workers : pc[w] = "member" /\ id[w] = c /\ target[w] = course[c]]_vars

\* A course that exists has its owner among its members, whatever failed while
\* it was created; only the role may be changed later.
OwnerIsMember ==
  \A c \in CourseIds : course[c] # None => member[<<c, course[c]>>] # None

\* A submission is reviewed exactly when it carries a review.
ReviewedIffReview ==
  \A s \in SubmissionIds : status[s] = "reviewed" <=> review[s] # 0

\* A reviewer's reply shows the review just written or one written after it by
\* somebody else, never an older one.
ReplyNotOlder == \A w \in Workers : reply[w] # 0 => reply[w] >= mine[w]

\* What a handler found before its insert still holds when it inserts.
TargetsExist ==
  \A w \in Workers :
    /\ pc[w] = "member" => course[id[w]] # None
    /\ pc[w] = "assignment" => course[target[w]] # None
    /\ pc[w] = "submission" => assignment[target[w]] # None

(* Why it works: the inductive invariant. *)

\* The locals of a handler name rows of the kind its statement is about, and
\* it has not replied yet.
LocalsTyped ==
  \A w \in Workers :
    /\ pc[w] \in {"courseRow", "ownerRow", "commit", "member"} =>
         id[w] \in CourseIds /\ target[w] \in Users
    /\ pc[w] = "assignment" => id[w] \in AssignmentIds /\ target[w] \in CourseIds
    /\ pc[w] = "submission" => id[w] \in SubmissionIds /\ target[w] \in AssignmentIds
    /\ pc[w] \in {"review", "reread"} => id[w] \in SubmissionIds
    /\ pc[w] # "idle" => reply[w] = 0

\* Reviews are numbered as they are written, so what a reviewer is about to
\* read cannot be older than what it wrote.
ReviewsNumbered ==
  /\ \A s \in SubmissionIds : review[s] <= reviews
  /\ \A w \in Workers : mine[w] <= reviews
  /\ \A w \in Workers :
       pc[w] = "reread" /\ review[id[w]] # 0 => review[id[w]] >= mine[w]

CoursesInv ==
  /\ TypeOK
  /\ LocalsTyped
  /\ TargetsExist
  /\ RowsHaveParents
  /\ OwnerIsMember
  /\ ReviewedIffReview
  /\ ReviewsNumbered
  /\ ReplyNotOlder
=============================================================================
