---------------------------- MODULE WorkDocuments ----------------------------
(***************************************************************************)
(* Who asks document-service for a document: a teacher over HTTP, or a     *)
(* teacher who asks content-service for the document of a work, and        *)
(* content-service over gRPC.  Clients leave, connections break, and both  *)
(* services go up and down.  pdflatex has no timeout of its own: it may    *)
(* run for ever, unless the context of its request is cancelled.           *)
(***************************************************************************)
EXTENDS DocumentJobs, Lifecycle

CONSTANTS
  ByWork,           \* requests for the document of a work, by way of content-service
  Content, Document \* a process of content-service and one of document-service

ASSUME ByWorkAssumption == ByWork \subseteq Requests
ASSUME ServicesAssumption ==
  /\ Processes = {Content, Document} /\ Content # Document
  /\ Main[Content] = ContentMain /\ Main[Document] = DocumentMain

VARIABLES
  client,   \* per request: the teacher
  call,     \* per request: the handler in content-service, if it goes that way
  cancelled \* requests whose context document-service has cancelled

calls == <<client, call, cancelled>>
serveVars == <<vars, proc, calls>>

CallsTypeOK ==
  /\ client \in [Requests -> {"none", "waiting", "told", "failed", "gone"}]
  /\ call \in [Requests -> {"none", "lookup", "calling", "done"}]
  /\ cancelled \subseteq Requests

\* content-service asks for pdf.
ServeInit ==
  /\ Init
  /\ LifecycleInit
  /\ \A r \in ByWork : format[r] = "pdf"
  /\ client = [r \in Requests |-> "none"]
  /\ call = [r \in Requests |-> "none"]
  /\ cancelled = {}

Client(r, there) == client' = [client EXCEPT ![r] = there]
Call(r, there) == call' = [call EXCEPT ![r] = there]

-----------------------------------------------------------------------------
(* The way to document-service. *)

\* POST /documents/compile.
AskDocument(r) ==
  /\ client[r] = "none" /\ r \notin ByWork /\ AcceptsHTTP(Document)
  /\ Compile(r)
  /\ Client(r, "waiting")
  /\ UNCHANGED <<proc, call, cancelled>>

\* POST /works/{id}/document.
AskWork(r) ==
  /\ client[r] = "none" /\ r \in ByWork /\ AcceptsHTTP(Content)
  /\ Client(r, "waiting")
  /\ Call(r, "lookup")
  /\ UNCHANGED <<vars, proc, cancelled>>

\* The work and what it refers to were found.
LookUpSections(r) ==
  /\ call[r] = "lookup"
  /\ Call(r, "calling")
  /\ UNCHANGED <<vars, proc, client, cancelled>>

\* Handlers run in an order of their own: the call arrives now or later.
ReceiveCall(r) ==
  /\ call[r] = "calling" /\ AnswersRPC(Document)
  /\ Compile(r)
  /\ UNCHANGED <<proc, calls>>

\* No such work, the database fails, document-service cannot be reached, or
\* the connection to it breaks: whatever it does, the teacher gets an error.
CallFails(r) ==
  /\ call[r] \in {"lookup", "calling"}
  /\ Call(r, "done")
  /\ client' = [client EXCEPT ![r] = IF @ = "waiting" THEN "failed" ELSE @]
  /\ UNCHANGED <<vars, proc, cancelled>>

-----------------------------------------------------------------------------
(* The handler in document-service, under the context of its request. *)

\* What nobody waits for any more: the context knows a while after the client
\* left, or content-service gave the call up.
Abandoned(r) == IF r \in ByWork THEN call[r] = "done" ELSE client[r] = "gone"

NoticeGone(r) ==
  /\ pc[r] \in Running /\ Abandoned(r)
  /\ cancelled' = cancelled \cup {r}
  /\ UNCHANGED <<vars, proc, client, call>>

\* A cancelled context keeps statements from being sent.
Save(r) ==
  \/ r \notin cancelled /\ SaveJob(r)
  \/ \E applied \in BOOLEAN : (applied => r \notin cancelled) /\ SaveJobFails(r, applied)

HandlerStep(r) ==
  /\ \/ WriteSource(r) \/ \E left \in Leftover : WriteSourceFails(r, left)
     \/ ReadBack(r) \/ ReadFails(r)
     \/ Save(r)
  /\ UNCHANGED <<proc, calls>>

CompilePDF(r) ==
  /\ Typeset(r) \/ \E left \in Leftover : TypesetFails(r, left)
  /\ UNCHANGED <<proc, calls>>

\* Faulty variant: the compiler is started without the context.
KillNothing(r) == FALSE

\* The context kills the compiler.
KillCompiler(r) ==
  /\ r \in cancelled
  /\ \E left \in Leftover : TypesetFails(r, left)
  /\ UNCHANGED <<proc, calls>>

-----------------------------------------------------------------------------
(* The way back. *)

Answered(r) == pc[r] \in {"created", "refused"}

\* The job id, or an error, reaches the teacher, through content-service.
Answer(r) ==
  /\ Answered(r)
  /\ client[r] = "waiting" /\ (r \in ByWork => call[r] = "calling")
  /\ Client(r, IF pc[r] = "created" THEN "told" ELSE "failed")
  /\ call' = [call EXCEPT ![r] = IF r \in ByWork THEN "done" ELSE @]
  /\ UNCHANGED <<vars, proc, cancelled>>

\* The teacher closes the page, or the connection to him breaks.
Leave(r) ==
  /\ client[r] = "waiting"
  /\ Client(r, "gone")
  /\ UNCHANGED <<vars, proc, call, cancelled>>

\* content-service notices, and gives its call up.
GiveUpCall(r) ==
  /\ client[r] = "gone" /\ call[r] \in {"lookup", "calling"}
  /\ Call(r, "done")
  /\ UNCHANGED <<vars, proc, client, cancelled>>

-----------------------------------------------------------------------------
(* The processes. *)

BootStep(p) ==
  /\ Start(p) \/ \E step \in StepsOf(p) : Proceed(p, step)
  /\ UNCHANGED <<vars, calls>>

SignalStep(p) == Signal(p) /\ UNCHANGED <<vars, calls>>

\* HTTP requests document-service still has to answer.
Draining(r) == r \notin ByWork /\ (pc[r] \in Running \/ (Answered(r) /\ client[r] = "waiting"))

\* document-service goes down with its handlers; who waits for it sees the
\* connection break, content-service as the failure of its call.
DocumentGoesDown ==
  /\ Exit(Document) \/ Drained(Document, \E r \in Requests : Draining(r))
  /\ Crash
  /\ client' = [r \in Requests |->
       IF r \notin ByWork /\ client[r] = "waiting" THEN "failed" ELSE client[r]]
  /\ UNCHANGED <<call, cancelled>>

\* content-service goes down with its calls.
ContentGoesDown ==
  /\ Exit(Content) \/ Drained(Content, \E r \in Requests : call[r] \in {"lookup", "calling"})
  /\ call' = [r \in Requests |-> IF call[r] \in {"lookup", "calling"} THEN "done" ELSE call[r]]
  /\ client' = [r \in Requests |->
       IF r \in ByWork /\ client[r] = "waiting" THEN "failed" ELSE client[r]]
  /\ UNCHANGED <<vars, cancelled>>

ServeNext ==
  \/ \E r \in Requests :
       \/ AskDocument(r) \/ AskWork(r) \/ LookUpSections(r) \/ ReceiveCall(r) \/ CallFails(r)
       \/ HandlerStep(r) \/ CompilePDF(r) \/ KillCompiler(r) \/ NoticeGone(r)
       \/ Answer(r) \/ Leave(r) \/ GiveUpCall(r)
  \/ \E p \in Processes : BootStep(p) \/ SignalStep(p)
  \/ DocumentGoesDown \/ ContentGoesDown

\* The network and the scheduler are fair: a call that nobody handles fails or
\* is received, a handler goes on, an answer arrives, a client that left is
\* noticed, and a killed compiler ends.  Nothing makes pdflatex end by itself.
Unhandled(r) == pc[r] \in {"idle", "lost"}

Fairness ==
  \A r \in Requests :
    /\ WF_serveVars(Unhandled(r) /\ (LookUpSections(r) \/ ReceiveCall(r) \/ CallFails(r)))
    /\ WF_serveVars(HandlerStep(r))
    /\ WF_serveVars(KillCompiler(r))
    /\ WF_serveVars(NoticeGone(r) /\ r \notin cancelled)
    /\ WF_serveVars(GiveUpCall(r))
    /\ WF_serveVars(Answer(r))

ServeSpec == ServeInit /\ [][ServeNext]_serveVars /\ Fairness

-----------------------------------------------------------------------------
(* Properties. *)

\* However requests reach document-service and whoever goes down, its handlers,
\* the disk and the table fit together.
WorkDocumentsInv == LifecycleTypeOK /\ CallsTypeOK /\ JobsInv

\* What can be downloaded is whole at any time, also while compiles fail and
\* processes die around it, and who was told of a job can download it.
DownloadsAreWhole ==
  \A r \in Requests :
    /\ Download(r) \subseteq {"whole"}
    /\ client[r] = "told" => Download(r) # {}

\* A compile ends, but for one that typesets for somebody who waits: when the
\* teacher leaves, the kill reaches pdflatex, through content-service if need
\* be.  A teacher gets an answer, but for one whose document is typeset.
RequestsEnd ==
  \A r \in Requests :
    /\ (pc[r] \in Running) ~> (pc[r] \notin Running \/ (pc[r] = "typeset" /\ client[r] = "waiting"))
    /\ (client[r] = "waiting") ~> (client[r] # "waiting" \/ pc[r] = "typeset")
=============================================================================
