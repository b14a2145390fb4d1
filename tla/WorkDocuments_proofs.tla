------------------------- MODULE WorkDocuments_proofs -------------------------
(***************************************************************************)
(* JobsInv of DocumentJobs is inductive; with it a stored job always has   *)
(* its whole file and no later step touches either.  document-service in   *)
(* its surroundings is document-service as it stands alone: every step of  *)
(* WorkDocuments is one of DocumentJobs or leaves it where it is, so what  *)
(* is proved about DocumentJobs carries over.                              *)
(***************************************************************************)
EXTENDS WorkDocuments, TLAPS

-----------------------------------------------------------------------------
(* DocumentJobs *)

\* A file belongs to one request and one extension.
LEMMA FilesDiffer ==
  ASSUME NEW r \in Requests, NEW e \in Exts, NEW q \in Requests, NEW d \in Exts
  PROVE  /\ FileOf(r, e) \in File
         /\ FileOf(r, e) = FileOf(q, d) <=> r = q /\ e = d
  BY DEF FileOf, File

LEMMA FormatIsExt ==
  ASSUME TypeOK, NEW r \in Requests
  PROVE  format[r] \in Exts
  BY FormatsAssumption DEF TypeOK

LEMMA InitJobs == Init => JobsInv
<1> SUFFICES ASSUME Init PROVE JobsInv
  OBVIOUS
<1>1. TypeOK
  BY CrashesAssumption DEF Init, TypeOK, Running
<1>2. SaverHasFile
  BY DEF Init, SaverHasFile, Stored
<1>3. StoredJobHasWholeFile /\ CreatedIsStored
  BY DEF Init, StoredJobHasWholeFile, CreatedIsStored, Stored
<1> QED BY <1>1, <1>2, <1>3 DEF JobsInv

LEMMA TypeStep ==
  ASSUME JobsInv, [Next]_vars
  PROVE  TypeOK'
<1> USE DEF JobsInv
<1>1. ASSUME NEW r \in Requests, Compile(r) PROVE TypeOK'
  BY <1>1 DEF TypeOK, Compile, Goto, Running
<1>2. ASSUME NEW r \in Requests, WriteSource(r) PROVE TypeOK'
  <2>1. FileOf(r, "tex") \in File
    BY FilesDiffer DEF Exts
  <2> QED BY <1>2, <2>1 DEF TypeOK, WriteSource, Goto, Running
<1>3. ASSUME NEW r \in Requests, NEW left \in Leftover, WriteSourceFails(r, left) PROVE TypeOK'
  BY <1>3 DEF TypeOK, WriteSourceFails, Goto, Running, Leftover
<1>4. ASSUME NEW r \in Requests, Typeset(r) PROVE TypeOK'
  BY <1>4 DEF TypeOK, Typeset, Goto, Running
<1>5. ASSUME NEW r \in Requests, NEW left \in Leftover, TypesetFails(r, left) PROVE TypeOK'
  BY <1>5 DEF TypeOK, TypesetFails, Goto, Running, Leftover
<1>6. ASSUME NEW r \in Requests, ReadBack(r) \/ ReadFails(r) PROVE TypeOK'
  BY <1>6 DEF TypeOK, ReadBack, ReadFails, Goto, Running
<1>7. ASSUME NEW r \in Requests, SaveJob(r) \/ \E applied \in BOOLEAN : SaveJobFails(r, applied)
      PROVE TypeOK'
  <2>1. Completed(r) \in Job
    BY FormatIsExt, FilesDiffer DEF Completed, Job
  <2> QED BY <1>7, <2>1 DEF TypeOK, SaveJob, SaveJobFails, Goto, Running
<1>8. ASSUME Crash PROVE TypeOK'
  <2>1. disk' \in [File -> {"absent", "partial", "whole"}]
    BY <1>8 DEF TypeOK, Crash
  <2>2. crashes' \in 0 .. MaxCrashes
    BY <1>8, CrashesAssumption DEF TypeOK, Crash
  <2>3. pc' \in [Requests -> {"idle", "created", "refused", "lost"} \cup Running]
    BY <1>8 DEF TypeOK, Crash
  <2>4. \A r \in Requests : pc'[r] \in {"typeset", "read"} => format'[r] = "pdf"
    BY <1>8 DEF TypeOK, Crash, Running
  <2> QED BY <1>8, <2>1, <2>2, <2>3, <2>4 DEF TypeOK, Crash
<1>9. CASE UNCHANGED vars
  BY <1>9 DEF TypeOK, vars
<1> QED BY <1>1, <1>2, <1>3, <1>4, <1>5, <1>6, <1>7, <1>8, <1>9 DEF Next

\* A step of one request leaves the files and the job of another one alone,
\* and a request changes files only before its job is stored.
LEMMA StepsKeepStoredJobs ==
  ASSUME JobsInv, [Next]_vars, NEW q \in Requests, Stored(q)
  PROVE  /\ jobs'[q] = jobs[q]
         /\ disk'[jobs[q].file] = disk[jobs[q].file]
         /\ format'[q] = format[q]
         /\ pc'[q] = "created" <=> pc[q] = "created"
<1> DEFINE Kept == /\ jobs'[q] = jobs[q]
                   /\ disk'[jobs[q].file] = disk[jobs[q].file]
                   /\ format'[q] = format[q]
                   /\ pc'[q] = "created" <=> pc[q] = "created"
<1>1. /\ jobs[q].file = FileOf(q, format[q])
      /\ pc[q] \notin {"idle", "source", "typeset", "read", "save"}
      /\ format[q] \in Exts
      /\ pc \in [Requests -> {"idle", "created", "refused", "lost"} \cup Running]
      /\ jobs \in [Requests -> Job \cup {NoJob}]
      /\ disk \in [File -> {"absent", "partial", "whole"}]
  BY FormatIsExt DEF JobsInv, StoredJobHasWholeFile, SaverHasFile, TypeOK
<1>2. ASSUME NEW r \in Requests, pc[r] \in {"idle", "source", "typeset", "read", "save"}
      PROVE  /\ r # q
             /\ \A e \in Exts : FileOf(r, e) # FileOf(q, format[q])
  BY <1>1, <1>2, FilesDiffer
<1>3. FileOf(q, format[q]) \in File /\ FileOf(q, format[q]).job = q
  BY <1>1, FilesDiffer DEF FileOf
<1>4. ASSUME NEW r \in Requests, Compile(r) \/ ReadBack(r) \/ ReadFails(r) PROVE Kept
  BY <1>1, <1>2, <1>4 DEF Compile, ReadBack, ReadFails, Goto
<1>5. ASSUME NEW r \in Requests,
             WriteSource(r) \/ \E left \in Leftover : WriteSourceFails(r, left)
      PROVE  Kept
  <2>1. r # q /\ FileOf(r, "tex") # FileOf(q, format[q])
    BY <1>2, <1>5 DEF WriteSource, WriteSourceFails, Exts
  <2> QED BY <1>1, <1>3, <1>5, <2>1 DEF WriteSource, WriteSourceFails, Goto
<1>6. ASSUME NEW r \in Requests,
             Typeset(r) \/ \E left \in Leftover : TypesetFails(r, left)
      PROVE  Kept
  <2>1. r # q /\ FileOf(r, "pdf") # FileOf(q, format[q])
    BY <1>2, <1>6 DEF Typeset, TypesetFails, Exts
  <2> QED BY <1>1, <1>3, <1>6, <2>1 DEF Typeset, TypesetFails, Goto
<1>7. ASSUME NEW r \in Requests, SaveJob(r) \/ \E applied \in BOOLEAN : SaveJobFails(r, applied)
      PROVE  Kept
  <2>1. r # q
    BY <1>2, <1>7 DEF SaveJob, SaveJobFails
  <2> QED BY <1>1, <1>7, <2>1 DEF SaveJob, SaveJobFails, Goto
<1>8. ASSUME Crash PROVE Kept
  <2>1. disk'[FileOf(q, format[q])] = disk[FileOf(q, format[q])]
    BY <1>1, <1>3, <1>8 DEF Crash
  <2>2. pc'[q] = "created" <=> pc[q] = "created"
    BY <1>1, <1>8 DEF Crash, Running
  <2> QED BY <1>1, <1>8, <2>1, <2>2 DEF Crash
<1>9. CASE UNCHANGED vars
  BY <1>9 DEF vars
<1> QED BY <1>4, <1>5, <1>6, <1>7, <1>8, <1>9 DEF Next

\* The files a request still needs are its own: only its own steps, and a
\* crash that ends it, change them.
LEMMA SaverStep ==
  ASSUME JobsInv, [Next]_vars
  PROVE  SaverHasFile'
<1>1. /\ pc \in [Requests -> {"idle", "created", "refused", "lost"} \cup Running]
      /\ jobs \in [Requests -> Job \cup {NoJob}]
      /\ disk \in [File -> {"absent", "partial", "whole"}]
      /\ \A r \in Requests : format[r] \in Exts
      /\ \A r \in Requests : pc[r] \in {"typeset", "read"} => format[r] = "pdf"
      /\ format' = format
  <2>1. format' = format
    BY DEF Next, vars, Compile, WriteSource, WriteSourceFails, Typeset, TypesetFails,
           ReadBack, ReadFails, SaveJob, SaveJobFails, Crash
  <2> QED BY <2>1, FormatIsExt DEF JobsInv, TypeOK
<1>2. SaverHasFile
  BY DEF JobsInv
<1>3. \A r \in Requests : \A e \in Exts : FileOf(r, e) \in File /\ FileOf(r, e).job = r /\ FileOf(r, e).ext = e
  BY FilesDiffer DEF FileOf
<1>4. \A r \in Requests, q \in Requests : \A e \in Exts, d \in Exts :
        FileOf(r, e) = FileOf(q, d) <=> r = q /\ e = d
  BY FilesDiffer
<1>5. "tex" \in Exts /\ "pdf" \in Exts
  BY DEF Exts
<1>6. ASSUME NEW r \in Requests, Compile(r) \/ ReadFails(r) PROVE SaverHasFile'
  BY <1>1, <1>2, <1>6 DEF Compile, ReadFails, Goto, SaverHasFile, Stored
<1>7. ASSUME NEW r \in Requests, WriteSource(r) PROVE SaverHasFile'
  <2>1. \A q \in Requests, e \in Exts :
          disk'[FileOf(q, e)] = IF q = r /\ e = "tex" THEN "whole" ELSE disk[FileOf(q, e)]
    BY <1>1, <1>3, <1>4, <1>5, <1>7 DEF WriteSource
  <2>2. format[r] = "pdf" \/ format[r] = "tex"
    BY <1>1 DEF Exts
  <2> QED BY <1>1, <1>2, <1>5, <1>7, <2>1, <2>2 DEF WriteSource, Goto, SaverHasFile, Stored
<1>8. ASSUME NEW r \in Requests, NEW left \in Leftover, WriteSourceFails(r, left) PROVE SaverHasFile'
  <2>1. \A q \in Requests, e \in Exts :
          disk'[FileOf(q, e)] = IF q = r /\ e = "tex" THEN left ELSE disk[FileOf(q, e)]
    BY <1>1, <1>3, <1>4, <1>5, <1>8 DEF WriteSourceFails
  <2> QED BY <1>1, <1>2, <1>5, <1>8, <2>1 DEF WriteSourceFails, Goto, SaverHasFile, Stored
<1>9. ASSUME NEW r \in Requests, Typeset(r) PROVE SaverHasFile'
  <2>1. \A q \in Requests, e \in Exts :
          disk'[FileOf(q, e)] = IF q = r /\ e = "pdf" THEN "whole" ELSE disk[FileOf(q, e)]
    BY <1>1, <1>3, <1>4, <1>5, <1>9 DEF Typeset
  <2> QED BY <1>1, <1>2, <1>5, <1>9, <2>1 DEF Typeset, Goto, SaverHasFile, Stored
<1>10. ASSUME NEW r \in Requests, NEW left \in Leftover, TypesetFails(r, left) PROVE SaverHasFile'
  <2>1. \A q \in Requests, e \in Exts :
          disk'[FileOf(q, e)] = IF q = r /\ e = "pdf" THEN left ELSE disk[FileOf(q, e)]
    BY <1>1, <1>3, <1>4, <1>5, <1>10 DEF TypesetFails
  <2> QED BY <1>1, <1>2, <1>5, <1>10, <2>1 DEF TypesetFails, Goto, SaverHasFile, Stored
<1>11. ASSUME NEW r \in Requests, ReadBack(r) PROVE SaverHasFile'
  BY <1>1, <1>2, <1>11 DEF ReadBack, Goto, SaverHasFile, Stored
<1>12. ASSUME NEW r \in Requests, SaveJob(r) \/ \E applied \in BOOLEAN : SaveJobFails(r, applied)
       PROVE SaverHasFile'
  BY <1>1, <1>2, <1>12 DEF SaveJob, SaveJobFails, Goto, SaverHasFile, Stored
<1>13. ASSUME Crash PROVE SaverHasFile'
  <2>1. \A q \in Requests : pc'[q] \notin Running /\ (pc'[q] = "idle" => pc[q] = "idle")
    BY <1>1, <1>13 DEF Crash, Running
  <2> QED BY <1>2, <1>13, <2>1 DEF Crash, SaverHasFile, Stored, Running
<1>14. CASE UNCHANGED vars
  BY <1>2, <1>14 DEF vars, SaverHasFile, Stored
<1> QED BY <1>6, <1>7, <1>8, <1>9, <1>10, <1>11, <1>12, <1>13, <1>14 DEF Next

\* A job appears only for a request about to save it, whose file is whole.
LEMMA StoredStep ==
  ASSUME JobsInv, [Next]_vars
  PROVE  StoredJobHasWholeFile' /\ CreatedIsStored'
<1> SUFFICES ASSUME NEW q \in Requests
             PROVE  /\ Stored(q)' => jobs'[q].file = FileOf(q, format'[q]) /\ disk'[jobs'[q].file] = "whole"
                    /\ pc'[q] = "created" => Stored(q)'
  BY DEF StoredJobHasWholeFile, CreatedIsStored, Stored, FileOf
<1>1. CASE Stored(q)
  BY <1>1, StepsKeepStoredJobs DEF JobsInv, StoredJobHasWholeFile, Stored
<1>2. CASE ~Stored(q)
  <2>1. pc[q] # "created"
    BY <1>2 DEF JobsInv, CreatedIsStored
  <2>2. jobs \in [Requests -> Job \cup {NoJob}]
        /\ pc \in [Requests -> {"idle", "created", "refused", "lost"} \cup Running]
    BY DEF JobsInv, TypeOK
  <2>3. ASSUME NEW r \in Requests, SaveJob(r) \/ \E applied \in BOOLEAN : SaveJobFails(r, applied)
        PROVE  /\ Stored(q)' => jobs'[q].file = FileOf(q, format'[q]) /\ disk'[jobs'[q].file] = "whole"
               /\ pc'[q] = "created" => Stored(q)'
    <3>1. Completed(r) \in Job /\ Completed(r).file = FileOf(r, format[r])
      BY FormatIsExt, FilesDiffer DEF JobsInv, Completed, Job
    <3>2. Completed(r) # NoJob
      BY <3>1, NoJobAssumption
    <3>3. disk[FileOf(r, format[r])] = "whole"
      BY <2>3 DEF JobsInv, SaverHasFile, SaveJob, SaveJobFails
    <3> QED BY <1>2, <2>1, <2>2, <2>3, <3>1, <3>2, <3>3 DEF SaveJob, SaveJobFails, Goto, Stored
  <2>4. ASSUME UNCHANGED jobs, pc'[q] # "created"
        PROVE  /\ Stored(q)' => jobs'[q].file = FileOf(q, format'[q]) /\ disk'[jobs'[q].file] = "whole"
               /\ pc'[q] = "created" => Stored(q)'
    BY <1>2, <2>4 DEF Stored
  <2>5. ASSUME NEW r \in Requests,
               \/ Compile(r) \/ WriteSource(r) \/ Typeset(r) \/ ReadBack(r) \/ ReadFails(r)
               \/ \E left \in Leftover : WriteSourceFails(r, left) \/ TypesetFails(r, left)
        PROVE  UNCHANGED jobs /\ pc'[q] # "created"
    BY <2>1, <2>2, <2>5 DEF Compile, WriteSource, WriteSourceFails, Typeset, TypesetFails, ReadBack, ReadFails, Goto
  <2>6. ASSUME Crash PROVE UNCHANGED jobs /\ pc'[q] # "created"
    BY <2>1, <2>2, <2>6 DEF Crash
  <2>7. CASE UNCHANGED vars
    BY <2>1, <2>4, <2>7 DEF vars
  <2> QED BY <2>3, <2>4, <2>5, <2>6, <2>7 DEF Next
<1> QED BY <1>1, <1>2

\* The inductive invariant holds in every reachable state: whatever fails or
\* crashes, the handlers, the disk and the table fit together.
THEOREM JobsInvariant == Spec => []JobsInv
<1>1. JobsInv /\ [Next]_vars => JobsInv'
  <2> SUFFICES ASSUME JobsInv, [Next]_vars PROVE JobsInv'
    OBVIOUS
  <2>1. TypeOK' BY TypeStep
  <2>2. SaverHasFile' BY SaverStep
  <2>3. StoredJobHasWholeFile' /\ CreatedIsStored' BY StoredStep
  <2> QED BY <2>1, <2>2, <2>3 DEF JobsInv
<1> QED BY InitJobs, <1>1, PTL DEF Spec

\* The file of a stored job (GET and download, Service.Get) is whole.
THEOREM StoredJobsAreWhole == Spec => []StoredJobHasWholeFile
<1>1. JobsInv => StoredJobHasWholeFile
  BY DEF JobsInv
<1> QED BY <1>1, JobsInvariant, PTL

\* A job the service answered with is stored (completeCompile).
THEOREM CreatedJobsAreStored == Spec => []CreatedIsStored
<1>1. JobsInv => CreatedIsStored
  BY DEF JobsInv
<1> QED BY <1>1, JobsInvariant, PTL

\* No step changes a stored job or its file.
THEOREM StoredJobsAreFinal == Spec => StoredJobIsFinal
<1>1. JobsInv /\ [Next]_vars =>
        [\A r \in Requests : Stored(r) =>
           /\ jobs'[r] = jobs[r]
           /\ disk'[jobs[r].file] = disk[jobs[r].file]]_vars
  BY StepsKeepStoredJobs
<1> QED BY <1>1, JobsInvariant, PTL DEF Spec, StoredJobIsFinal

-----------------------------------------------------------------------------
(* WorkDocuments *)

\* Steps outside the handlers of document-service.
LEMMA OutsideSteps ==
  ASSUME NEW r \in Requests,
         \/ AskWork(r) \/ LookUpSections(r) \/ CallFails(r) \/ NoticeGone(r)
         \/ Answer(r) \/ Leave(r) \/ GiveUpCall(r)
  PROVE  UNCHANGED vars
  BY DEF AskWork, LookUpSections, CallFails, NoticeGone, Answer, Leave, GiveUpCall

\* Steps of its handlers.
LEMMA HandlerSteps ==
  ASSUME NEW r \in Requests,
         AskDocument(r) \/ ReceiveCall(r) \/ HandlerStep(r) \/ CompilePDF(r) \/ KillCompiler(r)
  PROVE  Next
<1>1. AskDocument(r) \/ ReceiveCall(r) => Next
  BY DEF AskDocument, ReceiveCall, Next
<1>2. HandlerStep(r) => Next
  BY DEF HandlerStep, Save, Next
<1>3. CompilePDF(r) \/ KillCompiler(r) => Next
  BY DEF CompilePDF, KillCompiler, Next
<1> QED BY <1>1, <1>2, <1>3

\* The refinement: what happens to document-service is what DocumentJobs allows.
THEOREM ServesDocumentJobs == ServeSpec => Spec
<1>1. ServeInit => Init
  BY DEF ServeInit
<1>2. [ServeNext]_serveVars => [Next]_vars
  <2> SUFFICES ASSUME [ServeNext]_serveVars PROVE [Next]_vars
    OBVIOUS
  <2>1. ASSUME NEW p \in Processes, BootStep(p) \/ SignalStep(p) PROVE UNCHANGED vars
    BY <2>1 DEF BootStep, SignalStep
  <2>2. CASE DocumentGoesDown
    BY <2>2 DEF DocumentGoesDown, Next
  <2>3. CASE ContentGoesDown
    BY <2>3 DEF ContentGoesDown
  <2>4. CASE UNCHANGED serveVars
    BY <2>4 DEF serveVars
  <2> QED BY <2>1, <2>2, <2>3, <2>4, OutsideSteps, HandlerSteps DEF ServeNext
<1> QED BY <1>1, <1>2, PTL DEF ServeSpec, Spec

-----------------------------------------------------------------------------
(* Types of the surroundings. *)

LEMMA StepsOfMains ==
  ASSUME NEW p \in Processes
  PROVE  /\ Main[p][1] \in StepsOf(p)
         /\ \A i \in DOMAIN Main[p] : i # Len(Main[p]) => Main[p][i + 1] \in StepsOf(p)
<1> DEFINE Steps == {"open", "migrate", "seed", "consume", "rpc", "publisher", "http"}
<1>1. \A m \in Mains :
        /\ 1 \in DOMAIN m
        /\ \A i \in DOMAIN m : i # Len(m) => i + 1 \in DOMAIN m
  <2>1. \A m \in Mains : m \in Seq(Steps) /\ Len(m) > 0
    <3>1. AuthMain \in Seq(Steps) /\ Len(AuthMain) > 0
      BY DEF AuthMain
    <3>2. ContentMain \in Seq(Steps) /\ Len(ContentMain) > 0
      BY DEF ContentMain
    <3>3. CourseMain \in Seq(Steps) /\ Len(CourseMain) > 0
      BY DEF CourseMain
    <3>4. DocumentMain \in Seq(Steps) /\ Len(DocumentMain) > 0
      BY DEF DocumentMain
    <3>5. StatisticMain \in Seq(Steps) /\ Len(StatisticMain) > 0
      BY DEF StatisticMain
    <3> QED BY <3>1, <3>2, <3>3, <3>4, <3>5 DEF Mains
  <2> SUFFICES ASSUME NEW m \in Mains PROVE 1 \in DOMAIN m /\ \A i \in DOMAIN m : i # Len(m) => i + 1 \in DOMAIN m
    OBVIOUS
  <2>2. DOMAIN m = 1 .. Len(m) /\ Len(m) \in Nat /\ Len(m) > 0
    BY <2>1
  <2> QED BY <2>2
<1>2. Main[p] \in Mains
  BY MainAssumption
<1> QED BY <1>1, <1>2 DEF StepsOf

LEMMA BootKeepsLifecycle ==
  ASSUME LifecycleTypeOK, NEW p \in Processes, NEW there \in {"down", "serving", "stopping"} \cup StepsOf(p),
         Move(p, there)
  PROVE  LifecycleTypeOK'
  BY DEF LifecycleTypeOK, Move, StepsOf

LEMMA LifecycleStep ==
  ASSUME LifecycleTypeOK, [ServeNext]_serveVars
  PROVE  LifecycleTypeOK'
<1>1. ASSUME UNCHANGED proc PROVE LifecycleTypeOK'
  BY <1>1 DEF LifecycleTypeOK, StepsOf
<1>2. ASSUME NEW p \in Processes, BootStep(p) PROVE LifecycleTypeOK'
  <2>1. CASE Start(p)
    BY <2>1, StepsOfMains, BootKeepsLifecycle DEF Start
  <2>2. ASSUME NEW step, Proceed(p, step) PROVE LifecycleTypeOK'
    BY <2>2, StepsOfMains, BootKeepsLifecycle DEF Proceed
  <2> QED BY <1>2, <2>1, <2>2 DEF BootStep
<1>3. ASSUME NEW p \in Processes, SignalStep(p) PROVE LifecycleTypeOK'
  BY <1>3, BootKeepsLifecycle DEF SignalStep, Signal
<1>4. CASE DocumentGoesDown
  BY <1>4, ServicesAssumption, BootKeepsLifecycle DEF DocumentGoesDown, Exit, Drained
<1>5. CASE ContentGoesDown
  BY <1>5, ServicesAssumption, BootKeepsLifecycle DEF ContentGoesDown, Exit, Drained
<1>6. ASSUME NEW r \in Requests,
             \/ AskDocument(r) \/ AskWork(r) \/ LookUpSections(r) \/ ReceiveCall(r) \/ CallFails(r)
             \/ HandlerStep(r) \/ CompilePDF(r) \/ KillCompiler(r) \/ NoticeGone(r)
             \/ Answer(r) \/ Leave(r) \/ GiveUpCall(r)
      PROVE  UNCHANGED proc
  BY <1>6 DEF AskDocument, AskWork, LookUpSections, ReceiveCall, CallFails, HandlerStep, CompilePDF,
              KillCompiler, NoticeGone, Answer, Leave, GiveUpCall, calls
<1> QED BY <1>1, <1>2, <1>3, <1>4, <1>5, <1>6 DEF ServeNext, serveVars

LEMMA CallsStep ==
  ASSUME CallsTypeOK, [ServeNext]_serveVars
  PROVE  CallsTypeOK'
<1>1. ASSUME UNCHANGED calls PROVE CallsTypeOK'
  BY <1>1 DEF CallsTypeOK, calls
<1>2. ASSUME NEW r \in Requests, AskDocument(r) \/ AskWork(r) \/ LookUpSections(r) PROVE CallsTypeOK'
  BY <1>2 DEF CallsTypeOK, AskDocument, AskWork, LookUpSections, Client, Call
<1>3. ASSUME NEW r \in Requests, CallFails(r) \/ NoticeGone(r) \/ GiveUpCall(r) PROVE CallsTypeOK'
  BY <1>3 DEF CallsTypeOK, CallFails, NoticeGone, GiveUpCall, Client, Call
<1>4. ASSUME NEW r \in Requests, Answer(r) \/ Leave(r) PROVE CallsTypeOK'
  BY <1>4 DEF CallsTypeOK, Answer, Leave, Client
<1>5. CASE DocumentGoesDown
  BY <1>5 DEF CallsTypeOK, DocumentGoesDown
<1>6. CASE ContentGoesDown
  BY <1>6 DEF CallsTypeOK, ContentGoesDown
<1>7. ASSUME NEW r \in Requests, ReceiveCall(r) \/ HandlerStep(r) \/ CompilePDF(r) \/ KillCompiler(r)
      PROVE  UNCHANGED calls
  BY <1>7 DEF ReceiveCall, HandlerStep, CompilePDF, KillCompiler
<1>8. ASSUME NEW p \in Processes, BootStep(p) \/ SignalStep(p) PROVE UNCHANGED calls
  BY <1>8 DEF BootStep, SignalStep
<1> QED BY <1>1, <1>2, <1>3, <1>4, <1>5, <1>6, <1>7, <1>8 DEF ServeNext, serveVars

\* Whoever goes down, the handlers of document-service, the disk and the table
\* fit together.
THEOREM WorkDocumentsInvariant == ServeSpec => []WorkDocumentsInv
<1>1. ServeInit => LifecycleTypeOK /\ CallsTypeOK
  BY DEF ServeInit, LifecycleInit, LifecycleTypeOK, CallsTypeOK
<1>2. LifecycleTypeOK /\ CallsTypeOK /\ [ServeNext]_serveVars => LifecycleTypeOK' /\ CallsTypeOK'
  BY LifecycleStep, CallsStep
<1> QED BY <1>1, <1>2, ServesDocumentJobs, JobsInvariant, PTL DEF ServeSpec, WorkDocumentsInv

\* No step of either service changes a stored job or its file.
THEOREM ServedJobsAreFinal == ServeSpec => StoredJobIsFinal
  BY ServesDocumentJobs, StoredJobsAreFinal, PTL

-----------------------------------------------------------------------------
(* What teachers are told. *)

ToldIsCreated == \A r \in Requests : client[r] = "told" => pc[r] = "created"

\* Nobody is told of a job before the handler is done, and it stays done.
LEMMA ToldStep ==
  ASSUME WorkDocumentsInv, ToldIsCreated, [ServeNext]_serveVars
  PROVE  ToldIsCreated'
<1> SUFFICES ASSUME NEW q \in Requests, client'[q] = "told" PROVE pc'[q] = "created"
  BY DEF ToldIsCreated
<1>1. pc[q] = "created" => pc'[q] = "created"
  <2> SUFFICES ASSUME pc[q] = "created" PROVE pc'[q] = "created"
    OBVIOUS
  <2>1. Stored(q)
    BY DEF WorkDocumentsInv, JobsInv, CreatedIsStored
  <2>2. [Next]_vars
    <3>1. ASSUME NEW p \in Processes, BootStep(p) \/ SignalStep(p) PROVE UNCHANGED vars
      BY <3>1 DEF BootStep, SignalStep
    <3>2. DocumentGoesDown => Next
      BY DEF DocumentGoesDown, Next
    <3>3. ContentGoesDown \/ UNCHANGED serveVars => UNCHANGED vars
      BY DEF ContentGoesDown, serveVars
    <3> QED BY <3>1, <3>2, <3>3, OutsideSteps, HandlerSteps DEF ServeNext
  <2> QED BY <2>1, <2>2, StepsKeepStoredJobs DEF WorkDocumentsInv
<1>2. CASE client[q] = "told"
  BY <1>1, <1>2 DEF ToldIsCreated
<1>3. CASE client[q] # "told"
  <2>1. client \in [Requests -> {"none", "waiting", "told", "failed", "gone"}]
    BY DEF WorkDocumentsInv, CallsTypeOK
  <2>2. ASSUME NEW r \in Requests, Answer(r) PROVE pc'[q] = "created"
    BY <1>3, <2>1, <2>2 DEF Answer, Client, vars
  <2>3. ASSUME NEW r \in Requests,
               \/ AskDocument(r) \/ AskWork(r) \/ LookUpSections(r) \/ ReceiveCall(r) \/ CallFails(r)
               \/ HandlerStep(r) \/ CompilePDF(r) \/ KillCompiler(r) \/ NoticeGone(r)
               \/ Leave(r) \/ GiveUpCall(r)
        PROVE  client'[q] # "told"
    BY <1>3, <2>1, <2>3 DEF AskDocument, AskWork, LookUpSections, ReceiveCall, CallFails, HandlerStep,
       CompilePDF, KillCompiler, NoticeGone, Leave, GiveUpCall, Client, calls
  <2>4. ASSUME NEW p \in Processes, BootStep(p) \/ SignalStep(p) PROVE client'[q] # "told"
    BY <1>3, <2>4 DEF BootStep, SignalStep, calls
  <2>5. DocumentGoesDown \/ ContentGoesDown => client'[q] # "told"
    BY <1>3, <2>1 DEF DocumentGoesDown, ContentGoesDown
  <2>6. UNCHANGED serveVars => client'[q] # "told"
    BY <1>3 DEF serveVars, calls
  <2> QED BY <2>2, <2>3, <2>4, <2>5, <2>6 DEF ServeNext
<1> QED BY <1>2, <1>3

\* A download hands out a whole file, and whoever was told of a job gets one.
THEOREM ServedDownloadsAreWhole == ServeSpec => []DownloadsAreWhole
<1>1. ServeInit => ToldIsCreated
  BY DEF ServeInit, ToldIsCreated
<1>2. WorkDocumentsInv /\ ToldIsCreated => DownloadsAreWhole
  BY DEF WorkDocumentsInv, JobsInv, StoredJobHasWholeFile, CreatedIsStored, ToldIsCreated,
         DownloadsAreWhole, Download, Get, FilePath, Stored
<1>3. WorkDocumentsInv /\ ToldIsCreated /\ [ServeNext]_serveVars => ToldIsCreated'
  BY ToldStep
<1> QED BY <1>1, <1>2, <1>3, WorkDocumentsInvariant, PTL DEF ServeSpec
=============================================================================
