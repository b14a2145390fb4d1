----------------------------- MODULE Migrations -----------------------------
(***************************************************************************)
(* pkg/postgres RunMigrations, which every Go service runs before anything *)
(* else: each version that is not recorded is applied and recorded in one  *)
(* transaction.  Processes may start together, and die at any point.       *)
(***************************************************************************)
EXTENDS Lifecycle, FiniteSets

CONSTANT LastVersion \* the versions are 1 .. LastVersion, in the order of their names

ASSUME VersionsAssumption == LastVersion \in Nat \ {0}

Version == 1 .. LastVersion

VARIABLES
  applied,   \* per version: how often its statements were committed
  recorded,  \* versions in schema_migrations
  version,   \* per process: the version it is at
  tx         \* per process: the statement its transaction is at, if one is open

schema == <<applied, recorded>>
migrations == <<schema, version, tx>>

MigrationsTypeOK ==
  /\ LifecycleTypeOK
  /\ applied \in [Version -> Nat]
  /\ recorded \subseteq Version
  /\ version \in [Processes -> 1 .. LastVersion + 1]
  /\ tx \in [Processes -> {"none", "body", "record", "commit"}]
  /\ \A p \in Processes : tx[p] # "none" => proc[p] = "migrate" /\ version[p] \in Version

MigrationsInit ==
  /\ LifecycleInit
  /\ applied = [v \in Version |-> 0]
  /\ recorded = {}
  /\ version = [p \in Processes |-> 1]
  /\ tx = [p \in Processes |-> "none"]

At(p, statement) == proc[p] = "migrate" /\ tx[p] = statement
Execute(p, next) == tx' = [tx EXCEPT ![p] = next]

\* Is the version recorded?  If it is not, a transaction is opened for it.
Look(p) ==
  /\ At(p, "none") /\ version[p] \in Version
  /\ IF version[p] \in recorded
       THEN version' = [version EXCEPT ![p] = @ + 1] /\ UNCHANGED tx
       ELSE Execute(p, "body") /\ UNCHANGED version
  /\ UNCHANGED <<schema, proc>>

\* Every version was looked at.
Migrated(p) ==
  /\ tx[p] = "none" /\ version[p] > LastVersion
  /\ Proceed(p, "migrate")
  /\ version' = [version EXCEPT ![p] = 1]
  /\ UNCHANGED <<schema, tx>>

\* Faulty variant: the statements are committed one by one.
RunBodyAutocommit(p) ==
  /\ At(p, "body")
  /\ Execute(p, "record")
  /\ applied' = [applied EXCEPT ![version[p]] = @ + 1]
  /\ UNCHANGED <<recorded, version, proc>>

\* The statements run inside the transaction; nobody else sees them yet.
RunBody(p) ==
  /\ At(p, "body")
  /\ Execute(p, "record")
  /\ UNCHANGED <<schema, version, proc>>

\* The primary key of schema_migrations: the insert waits for another open
\* transaction that has inserted the version, and fails once it is committed.
RecordVersion(p) ==
  /\ At(p, "record")
  /\ ~\E q \in Processes : At(q, "commit") /\ version[q] = version[p]
  /\ version[p] \notin recorded
  /\ Execute(p, "commit")
  /\ UNCHANGED <<schema, version, proc>>

\* The commit may be carried out although the process dies or sees an error.
CommitVersion(p) ==
  /\ At(p, "commit")
  /\ applied' = [applied EXCEPT ![version[p]] = @ + 1]
  /\ recorded' = recorded \cup {version[p]}
  /\ Execute(p, "none")
  /\ \/ version' = [version EXCEPT ![p] = @ + 1] /\ UNCHANGED proc
     \/ version' = [version EXCEPT ![p] = 1] /\ Move(p, "down")

Migrate(p) ==
  \/ Look(p) \/ Migrated(p) \/ RunBody(p) \/ RecordVersion(p) \/ CommitVersion(p)

\* Of a process that goes down the database rolls an open transaction back.
\* Statements that fail (the insert of RecordVersion does when another process
\* was first) end here, like everything that goes wrong in main.
RollBack(p) ==
  /\ tx' = [tx EXCEPT ![p] = "none"]
  /\ version' = [version EXCEPT ![p] = 1]
  /\ UNCHANGED schema

-----------------------------------------------------------------------------

\* However many processes start together and wherever they die, a version is
\* recorded exactly when its statements were carried out, once.
AppliedOnce ==
  \A v \in Version : applied[v] = (IF v \in recorded THEN 1 ELSE 0)

\* Versions are applied in their order.
AppliedInOrder == \A v \in recorded : 1 .. v \subseteq recorded
=============================================================================
