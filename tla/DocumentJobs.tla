---------------------------- MODULE DocumentJobs ----------------------------
(***************************************************************************)
(* document-service compiles a document within the request: it writes the  *)
(* LaTeX source into a directory shared by all requests, runs pdflatex for *)
(* the pdf format, and only then inserts the job.  Requests come from      *)
(* teachers over HTTP and from content-service over gRPC; every one gets a *)
(* fresh random job id, so a request stands for its job.                   *)
(***************************************************************************)
EXTENDS Naturals, FiniteSets

CONSTANTS
  Requests,   \* compile requests, and the ids of their jobs
  Formats,    \* formats a request may ask for
  NoJob,      \* value of jobs where nothing is stored
  MaxCrashes  \* bound: crashes of the service

Exts == {"tex", "pdf"}
File == [job : Requests, ext : Exts]
FileOf(r, e) == [job |-> r, ext |-> e]
Job == [status : {"completed"}, file : File]

ASSUME FormatsAssumption == Formats \subseteq Exts
ASSUME NoJobAssumption == NoJob \notin Job
ASSUME CrashesAssumption == MaxCrashes \in Nat

VARIABLES
  format,  \* per request: the format it asked for
  pc,      \* per request: where its handler is, or how it ended
  disk,    \* the data directory: "absent", "partial" or "whole" per file
  jobs,    \* document_jobs
  crashes

vars == <<format, pc, disk, jobs, crashes>>

Running == {"source", "typeset", "read", "save"}

TypeOK ==
  /\ format \in [Requests -> Formats]
  /\ pc \in [Requests -> {"idle", "created", "refused", "lost"} \cup Running]
  /\ disk \in [File -> {"absent", "partial", "whole"}]
  /\ jobs \in [Requests -> Job \cup {NoJob}]
  /\ crashes \in 0 .. MaxCrashes
  /\ \A r \in Requests : pc[r] \in {"typeset", "read"} => format[r] = "pdf"

Init ==
  /\ format \in [Requests -> Formats]
  /\ pc = [r \in Requests |-> "idle"]
  /\ disk = [f \in File |-> "absent"]
  /\ jobs = [r \in Requests |-> NoJob]
  /\ crashes = 0

Stored(r) == jobs[r] # NoJob

\* GET /documents/{id} and GetDocumentJob: the job, or nothing is found.
Get(r) == {jobs[r]} \ {NoJob}

\* What the download of a job hands out.
FilePath(job) == job.file
Download(r) == {disk[FilePath(job)] : job \in Get(r)}

Goto(r, step) == pc' = [pc EXCEPT ![r] = step]

-----------------------------------------------------------------------------

\* Compile: a request without title or tasks is refused before an id exists.
Compile(r) ==
  /\ pc[r] = "idle"
  /\ Goto(r, "source")
  /\ UNCHANGED <<format, disk, jobs, crashes>>

WriteSource(r) ==
  /\ pc[r] = "source"
  /\ disk' = [disk EXCEPT ![FileOf(r, "tex")] = "whole"]
  /\ Goto(r, IF format[r] = "pdf" THEN "typeset" ELSE "save")
  /\ UNCHANGED <<format, jobs, crashes>>

\* MkdirAll or WriteFile fails; the file may have been started.
WriteSourceFails(r, left) ==
  /\ pc[r] = "source"
  /\ disk' = [disk EXCEPT ![FileOf(r, "tex")] = left]
  /\ Goto(r, "refused")
  /\ UNCHANGED <<format, jobs, crashes>>

Typeset(r) ==
  /\ pc[r] = "typeset"
  /\ disk' = [disk EXCEPT ![FileOf(r, "pdf")] = "whole"]
  /\ Goto(r, "read")
  /\ UNCHANGED <<format, jobs, crashes>>

\* Faulty variant: the exit status of pdflatex is not looked at.
TypesetFailsUnseen(r, left) ==
  /\ pc[r] = "typeset"
  /\ disk' = [disk EXCEPT ![FileOf(r, "pdf")] = left]
  /\ Goto(r, IF left = "absent" THEN "refused" ELSE "read")
  /\ UNCHANGED <<format, jobs, crashes>>

\* No compiler, a LaTeX error, or the client went away and the process was
\* killed; pdflatex may leave a partial file.
TypesetFails(r, left) ==
  /\ pc[r] = "typeset"
  /\ disk' = [disk EXCEPT ![FileOf(r, "pdf")] = left]
  /\ Goto(r, "refused")
  /\ UNCHANGED <<format, jobs, crashes>>

\* ReadFile and Stat of the rendered file.
ReadBack(r) ==
  /\ pc[r] = "read"
  /\ Goto(r, "save")
  /\ UNCHANGED <<format, disk, jobs, crashes>>

ReadFails(r) ==
  /\ pc[r] = "read"
  /\ Goto(r, "refused")
  /\ UNCHANGED <<format, disk, jobs, crashes>>

Completed(r) == [status |-> "completed", file |-> FileOf(r, format[r])]

\* GetJob finds nothing under a fresh id, so the job is inserted.
SaveJob(r) ==
  /\ pc[r] = "save"
  /\ jobs' = [jobs EXCEPT ![r] = Completed(r)]
  /\ Goto(r, "created")
  /\ UNCHANGED <<format, disk, crashes>>

\* Faulty variant: the error of the insert is dropped.
SaveJobFailsUnseen(r, applied) ==
  /\ pc[r] = "save"
  /\ jobs' = IF applied THEN [jobs EXCEPT ![r] = Completed(r)] ELSE jobs
  /\ Goto(r, "created")
  /\ UNCHANGED <<format, disk, crashes>>

\* Faulty variant: a failed insert starts the request over under the same id.
SaveJobFailsRetries(r, applied) ==
  /\ pc[r] = "save"
  /\ jobs' = IF applied THEN [jobs EXCEPT ![r] = Completed(r)] ELSE jobs
  /\ Goto(r, "source")
  /\ UNCHANGED <<format, disk, crashes>>

\* The insert reports an error: the reply is an error even when the row is
\* there (the connection broke after the commit).
SaveJobFails(r, applied) ==
  /\ pc[r] = "save"
  /\ jobs' = IF applied THEN [jobs EXCEPT ![r] = Completed(r)] ELSE jobs
  /\ Goto(r, "refused")
  /\ UNCHANGED <<format, disk, crashes>>

\* The service dies: requests get no answer, a file being written is cut off at worst,
\* the directory (a volume) and the database stay.
Crash ==
  /\ crashes < MaxCrashes
  /\ crashes' = crashes + 1
  /\ pc' = [r \in Requests |-> IF pc[r] \in Running THEN "lost" ELSE pc[r]]
  /\ disk' = [f \in File |->
       IF \/ f.ext = "tex" /\ pc[f.job] = "source"
          \/ f.ext = "pdf" /\ pc[f.job] = "typeset"
         THEN "partial" ELSE disk[f]]
  /\ UNCHANGED <<format, jobs>>

Leftover == {"absent", "partial"}

Next ==
  \/ \E r \in Requests :
       \/ Compile(r)
       \/ WriteSource(r)
       \/ \E left \in Leftover : WriteSourceFails(r, left)
       \/ Typeset(r)
       \/ \E left \in Leftover : TypesetFails(r, left)
       \/ ReadBack(r)
       \/ ReadFails(r)
       \/ SaveJob(r)
       \/ \E applied \in BOOLEAN : SaveJobFails(r, applied)
  \/ Crash

Spec == Init /\ [][Next]_vars

-----------------------------------------------------------------------------

\* What GET and the download find is finished: the file of a stored job is
\* whole and of the format that was asked for, whatever failed or crashed
\* around it.
StoredJobHasWholeFile ==
  \A r \in Requests : Stored(r) =>
    /\ jobs[r].file = FileOf(r, format[r])
    /\ disk[jobs[r].file] = "whole"

\* A job the service answered with is stored, and stays stored.
CreatedIsStored == \A r \in Requests : pc[r] = "created" => Stored(r)

\* A stored job is final: no later step of any request changes it or its file.
StoredJobIsFinal ==
  [][\A r \in Requests : Stored(r) =>
       /\ jobs'[r] = jobs[r]
       /\ disk'[jobs[r].file] = disk[jobs[r].file]]_vars

\* A handler that still has to save has its files in place.
SaverHasFile ==
  /\ \A r \in Requests : pc[r] \in {"typeset", "read", "save"} => disk[FileOf(r, "tex")] = "whole"
  /\ \A r \in Requests : pc[r] = "read" => disk[FileOf(r, "pdf")] = "whole"
  /\ \A r \in Requests : pc[r] = "save" => disk[FileOf(r, format[r])] = "whole"
  /\ \A r \in Requests : pc[r] \in {"idle", "source", "typeset", "read", "save"} => ~Stored(r)

JobsInv == TypeOK /\ SaverHasFile /\ StoredJobHasWholeFile /\ CreatedIsStored
=============================================================================
