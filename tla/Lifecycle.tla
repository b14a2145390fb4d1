----------------------------- MODULE Lifecycle -----------------------------
(***************************************************************************)
(* The life of a Go service's process: main runs its steps in their order, *)
(* each of which may end it, then serves until a signal stops it.  The     *)
(* HTTP server is drained for ten seconds; the gRPC server, started by a   *)
(* step of its own, is not: it answers until the process is gone.          *)
(***************************************************************************)
EXTENDS Naturals, Sequences

CONSTANTS
  Processes, \* processes of the services under consideration
  Main       \* per process: the steps of the main of its service

\* Faulty variant: the gRPC server is started early.
AuthMainServesFirst == <<"open", "rpc", "migrate", "seed", "http">>

\* The mains.  A step is done when the next one begins.
AuthMain == <<"open", "migrate", "seed", "rpc", "http">>
ContentMain == <<"open", "migrate", "rpc", "publisher", "http">>
CourseMain == <<"open", "migrate", "rpc", "http">>
DocumentMain == <<"open", "migrate", "rpc", "http">>
StatisticMain == <<"open", "migrate", "consume", "rpc", "http">>

Mains == {AuthMain, ContentMain, CourseMain, DocumentMain, StatisticMain}

ASSUME MainAssumption == Main \in [Processes -> Mains]

StepsOf(p) == {Main[p][i] : i \in DOMAIN Main[p]}

VARIABLE proc \* per process: the step it is at, or how far it is beyond them

LifecycleTypeOK ==
  /\ DOMAIN proc = Processes
  /\ \A p \in Processes : proc[p] \in {"down", "serving", "stopping"} \cup StepsOf(p)

LifecycleInit == proc = [p \in Processes |-> "down"]

Move(p, there) == proc' = [proc EXCEPT ![p] = there]

\* Has p done the step?
Done(p, step) ==
  \/ proc[p] \in {"serving", "stopping"}
  \/ \E i, j \in DOMAIN Main[p] : i < j /\ Main[p][i] = step /\ Main[p][j] = proc[p]

\* The requests a process takes: gRPC as soon as that server is started and as
\* long as there is a process, HTTP until the signal.
AnswersRPC(p) == Done(p, "rpc")
AcceptsHTTP(p) == proc[p] = "serving"

-----------------------------------------------------------------------------

\* The registration with Consul comes first; its failure is only logged.
Start(p) == proc[p] = "down" /\ Move(p, Main[p][1])

Proceed(p, step) ==
  /\ proc[p] = step
  /\ \E i \in DOMAIN Main[p] :
       /\ Main[p][i] = step
       /\ Move(p, IF i = Len(Main[p]) THEN "serving" ELSE Main[p][i + 1])

\* The database answers a ping.
Open(p) == Proceed(p, "open")

\* Serve runs in a goroutine: should it fail, that is only logged.
StartGRPC(p) == Proceed(p, "rpc")

\* The HTTP server listens, and main waits for a signal.
RunHTTP(p) == Proceed(p, "http")

Signal(p) == proc[p] = "serving" /\ Move(p, "stopping")

\* Shutdown has no HTTP request left to wait for, and main returns.
Drained(p, busy) == proc[p] = "stopping" /\ ~busy /\ Move(p, "down")

\* A step fails, the ten seconds are over, or the process is killed: main is
\* left without waiting for anybody.
Exit(p) == proc[p] # "down" /\ Move(p, "down")
=============================================================================
