-------------------------- MODULE Accounts_proofs --------------------------
(***************************************************************************)
(* What holds of migrations and accounts for any number of processes,      *)
(* versions, registrations and phones.  The migrations are proved first,   *)
(* without a look at the accounts; the accounts rest on what a process has *)
(* done before it serves.                                                  *)
(***************************************************************************)
EXTENDS Accounts, TLAPS

AuthSteps == {"open", "migrate", "seed", "rpc", "http"}

LEMMA AuthMainSteps ==
  ASSUME NEW p \in Processes
  PROVE  /\ DOMAIN Main[p] = 1 .. 5 /\ Len(Main[p]) = 5
         /\ Main[p][1] = "open" /\ Main[p][2] = "migrate" /\ Main[p][3] = "seed"
         /\ Main[p][4] = "rpc" /\ Main[p][5] = "http"
  BY AuthAssumption DEF AuthMain

LEMMA AuthStepsOf == ASSUME NEW p \in Processes PROVE StepsOf(p) = AuthSteps
<1>1. \A i \in 1 .. 5 : i = 1 \/ i = 2 \/ i = 3 \/ i = 4 \/ i = 5
  OBVIOUS
<1> QED BY <1>1, AuthMainSteps DEF StepsOf, AuthSteps

\* Where main goes from a step.
LEMMA ProceedAuth ==
  ASSUME NEW p \in Processes, NEW step, Proceed(p, step)
  PROVE  /\ proc[p] = step
         /\ \/ step = "open" /\ Move(p, "migrate")
            \/ step = "migrate" /\ Move(p, "seed")
            \/ step = "seed" /\ Move(p, "rpc")
            \/ step = "rpc" /\ Move(p, "http")
            \/ step = "http" /\ Move(p, "serving")
<1>1. PICK i \in 1 .. 5 : Main[p][i] = step /\ Move(p, IF i = 5 THEN "serving" ELSE Main[p][i + 1])
  BY AuthMainSteps DEF Proceed
<1>2. i = 1 \/ i = 2 \/ i = 3 \/ i = 4 \/ i = 5
  OBVIOUS
<1>3. proc[p] = step
  BY DEF Proceed
<1> QED BY <1>1, <1>2, <1>3, AuthMainSteps

\* The gRPC server of a process runs.
LEMMA RPCDone ==
  ASSUME NEW p \in Processes, AnswersRPC(p)
  PROVE  proc[p] \in {"http", "serving", "stopping"}
<1>1. CASE proc[p] \in {"serving", "stopping"}
  BY <1>1
<1>2. ASSUME NEW i \in 1 .. 5, NEW j \in 1 .. 5, i < j, Main[p][i] = "rpc", Main[p][j] = proc[p]
      PROVE  proc[p] = "http"
  <2>1. i = 1 \/ i = 2 \/ i = 3 \/ i = 4 \/ i = 5
    OBVIOUS
  <2>2. i = 4
    BY <1>2, <2>1, AuthMainSteps
  <2>3. j = 5
    BY <1>2, <2>2
  <2> QED BY <1>2, <2>3, AuthMainSteps
<1> QED BY <1>1, <1>2, AuthMainSteps DEF AnswersRPC, Done

-----------------------------------------------------------------------------
(* Migrations. *)

\* Two processes may run the statements of a version, but only one of them can
\* be about to commit it, and then nobody has.
CommitterAlone ==
  /\ \A p \in Processes : tx[p] = "commit" => version[p] \notin recorded
  /\ \A p, q \in Processes :
       tx[p] = "commit" /\ tx[q] = "commit" /\ version[p] = version[q] => p = q

\* A process is past recorded versions only, and leaves the migrations with all.
PassedRecorded ==
  \A p \in Processes :
    /\ 1 .. (version[p] - 1) \subseteq recorded
    /\ proc[p] \in {"seed", "rpc", "http", "serving", "stopping"} => recorded = Version

MigrationsInv ==
  /\ MigrationsTypeOK
  /\ CommitterAlone
  /\ AppliedOnce
  /\ AppliedInOrder
  /\ PassedRecorded

\* Steps of a process that is not migrating, and steps that leave the schema.
LEMMA LifecycleOnly ==
  ASSUME MigrationsInv, NEW p \in Processes, NEW there \in {"down", "serving", "stopping"} \cup AuthSteps,
         Move(p, there), UNCHANGED migrations, proc[p] # "migrate",
         there \in {"seed", "rpc", "http", "serving", "stopping"} =>
           proc[p] \in {"seed", "rpc", "http", "serving", "stopping"}
  PROVE  MigrationsInv'
<1> USE DEF Move, migrations, schema
<1>1. MigrationsTypeOK'
  <2>1. LifecycleTypeOK'
    <3>1. \A q \in Processes : StepsOf(q) = AuthSteps /\ StepsOf(q)' = AuthSteps
      BY AuthStepsOf DEF StepsOf
    <3> QED BY <3>1 DEF MigrationsInv, MigrationsTypeOK, LifecycleTypeOK
  <2>2. \A q \in Processes : tx'[q] # "none" => proc'[q] = "migrate" /\ version'[q] \in Version
    BY DEF MigrationsInv, MigrationsTypeOK, LifecycleTypeOK
  <2> QED BY <2>1, <2>2 DEF MigrationsInv, MigrationsTypeOK
<1>2. CommitterAlone' /\ AppliedOnce' /\ AppliedInOrder'
  BY DEF MigrationsInv, CommitterAlone, AppliedOnce, AppliedInOrder
<1>3. PassedRecorded'
  BY DEF MigrationsInv, MigrationsTypeOK, LifecycleTypeOK, PassedRecorded
<1> QED BY <1>1, <1>2, <1>3 DEF MigrationsInv

LEMMA BootKeepsMigrations ==
  ASSUME MigrationsInv, NEW p \in Processes, BootStep(p)
  PROVE  MigrationsInv'
<1>1. UNCHANGED migrations
  BY DEF BootStep
<1>2. CASE Start(p)
  BY <1>1, <1>2, LifecycleOnly, AuthMainSteps DEF Start, AuthSteps
<1>3. CASE Open(p) \/ StartGRPC(p) \/ RunHTTP(p)
  BY <1>1, <1>3, LifecycleOnly, ProceedAuth DEF Open, StartGRPC, RunHTTP, AuthSteps
<1>4. CASE Signal(p)
  BY <1>1, <1>4, LifecycleOnly DEF Signal
<1> QED BY <1>2, <1>3, <1>4 DEF BootStep

LEMMA SeedKeepsMigrations ==
  ASSUME MigrationsInv, NEW p \in Processes, SeedAdmin(p)
  PROVE  MigrationsInv'
  BY LifecycleOnly, ProceedAuth DEF SeedAdmin, AuthSteps

\* A process that goes down releases whatever it held.
LEMMA GoDownKeepsMigrations ==
  ASSUME MigrationsInv, NEW p \in Processes, GoDown(p)
  PROVE  MigrationsInv'
<1>1. Move(p, "down") /\ RollBack(p)
  BY DEF GoDown, Exit, Drained
<1> USE <1>1 DEF Move, RollBack, schema, MigrationsInv
<1>2. MigrationsTypeOK'
  <2>1. LifecycleTypeOK'
    BY DEF MigrationsTypeOK, LifecycleTypeOK, StepsOf
  <2>2. version' \in [Processes -> 1 .. LastVersion + 1]
    BY VersionsAssumption DEF MigrationsTypeOK
  <2>3. tx' \in [Processes -> {"none", "body", "record", "commit"}]
    BY DEF MigrationsTypeOK
  <2>4. \A q \in Processes : tx'[q] # "none" => proc'[q] = "migrate" /\ version'[q] \in Version
    BY DEF MigrationsTypeOK, LifecycleTypeOK
  <2> QED BY <2>1, <2>2, <2>3, <2>4 DEF MigrationsTypeOK
<1>3. CommitterAlone'
  BY DEF MigrationsTypeOK, CommitterAlone
<1>4. AppliedOnce' /\ AppliedInOrder'
  BY DEF AppliedOnce, AppliedInOrder
<1>5. PassedRecorded'
  BY DEF MigrationsTypeOK, LifecycleTypeOK, PassedRecorded
<1> QED BY <1>2, <1>3, <1>4, <1>5

\* The transaction of a process moves on, or the process does.
LEMMA MigrateKeepsMigrations ==
  ASSUME MigrationsInv, NEW p \in Processes, Migrate(p)
  PROVE  MigrationsInv'
<1> USE DEF MigrationsInv
<1>t. /\ version \in [Processes -> 1 .. LastVersion + 1]
      /\ tx \in [Processes -> {"none", "body", "record", "commit"}]
      /\ applied \in [Version -> Nat] /\ recorded \subseteq Version
      /\ LastVersion \in Nat
  BY VersionsAssumption DEF MigrationsTypeOK
<1>l. ASSUME UNCHANGED proc PROVE LifecycleTypeOK'
  BY <1>l DEF MigrationsTypeOK, LifecycleTypeOK, StepsOf
<1>1. CASE Look(p) /\ version[p] \in recorded
  <2>1. /\ version' = [version EXCEPT ![p] = @ + 1] /\ UNCHANGED <<tx, schema, proc>>
        /\ proc[p] = "migrate" /\ tx[p] = "none" /\ version[p] \in Version
    BY <1>1 DEF Look, At
  <2>2. MigrationsTypeOK'
    BY <1>t, <1>l, <2>1 DEF MigrationsTypeOK, Version, schema
  <2>3. CommitterAlone' /\ AppliedOnce' /\ AppliedInOrder'
    BY <1>t, <2>1 DEF CommitterAlone, AppliedOnce, AppliedInOrder, schema
  <2>4. 1 .. version[p] \subseteq recorded
    BY <1>1 DEF AppliedInOrder
  <2>5. PassedRecorded'
    BY <1>t, <2>1, <2>4 DEF PassedRecorded, schema
  <2> QED BY <2>2, <2>3, <2>5
<1>2. CASE (Look(p) /\ version[p] \notin recorded) \/ RunBody(p)
  <2>1. PICK next \in {"body", "record"} :
          /\ tx' = [tx EXCEPT ![p] = next] /\ UNCHANGED <<schema, version, proc>>
          /\ proc[p] = "migrate" /\ version[p] \in Version
    BY <1>2 DEF Look, RunBody, At, Execute, MigrationsTypeOK
  <2>2. MigrationsTypeOK'
    BY <1>t, <1>l, <2>1 DEF MigrationsTypeOK, schema
  <2>3. CommitterAlone' /\ AppliedOnce' /\ AppliedInOrder' /\ PassedRecorded'
    BY <1>t, <2>1 DEF CommitterAlone, AppliedOnce, AppliedInOrder, PassedRecorded, schema
  <2> QED BY <2>2, <2>3
<1>3. CASE RecordVersion(p)
  <2>1. /\ tx' = [tx EXCEPT ![p] = "commit"] /\ UNCHANGED <<schema, version, proc>>
        /\ proc[p] = "migrate" /\ tx[p] = "record" /\ version[p] \notin recorded
        /\ \A q \in Processes : At(q, "commit") => version[q] # version[p]
    BY <1>3 DEF RecordVersion, At, Execute
  <2>2. MigrationsTypeOK'
    BY <1>t, <1>l, <2>1 DEF MigrationsTypeOK, schema
  <2>3. \A q \in Processes : tx[q] = "commit" => At(q, "commit")
    BY DEF MigrationsTypeOK, At
  <2>4. CommitterAlone'
    BY <1>t, <2>1, <2>3 DEF CommitterAlone, schema
  <2>5. AppliedOnce' /\ AppliedInOrder' /\ PassedRecorded'
    BY <2>1 DEF AppliedOnce, AppliedInOrder, PassedRecorded, schema
  <2> QED BY <2>2, <2>4, <2>5
<1>4. CASE CommitVersion(p)
  <2>1. /\ proc[p] = "migrate" /\ tx[p] = "commit" /\ version[p] \in Version
        /\ version[p] \notin recorded
        /\ applied' = [applied EXCEPT ![version[p]] = @ + 1]
        /\ recorded' = recorded \cup {version[p]}
        /\ tx' = [tx EXCEPT ![p] = "none"]
        /\ \/ version' = [version EXCEPT ![p] = @ + 1] /\ UNCHANGED proc
           \/ version' = [version EXCEPT ![p] = 1] /\ Move(p, "down")
    BY <1>4 DEF CommitVersion, At, Execute, MigrationsTypeOK, CommitterAlone
  <2>2. MigrationsTypeOK'
    <3>1. LifecycleTypeOK'
      BY <1>l, <2>1 DEF MigrationsTypeOK, LifecycleTypeOK, StepsOf, Move
    <3>2. applied' \in [Version -> Nat] /\ recorded' \subseteq Version
      BY <1>t, <2>1
    <3>3. version' \in [Processes -> 1 .. LastVersion + 1]
      BY <1>t, <2>1 DEF Version
    <3>4. tx' \in [Processes -> {"none", "body", "record", "commit"}]
      BY <1>t, <2>1
    <3>5. \A q \in Processes : tx'[q] # "none" => proc'[q] = "migrate" /\ version'[q] \in Version
      BY <1>t, <2>1 DEF MigrationsTypeOK, LifecycleTypeOK, Move
    <3> QED BY <3>1, <3>2, <3>3, <3>4, <3>5 DEF MigrationsTypeOK
  <2>3. CommitterAlone'
    <3>1. \A q \in Processes : tx'[q] = "commit" => q # p /\ tx[q] = "commit" /\ version'[q] = version[q]
      BY <1>t, <2>1
    <3> QED BY <2>1, <3>1 DEF CommitterAlone
  <2>4. AppliedOnce'
    BY <1>t, <2>1 DEF AppliedOnce
  <2>5. 1 .. version[p] \subseteq recorded'
    BY <1>t, <2>1 DEF PassedRecorded
  <2>6. AppliedInOrder'
    BY <1>t, <2>1, <2>5 DEF AppliedInOrder
  <2>7. PassedRecorded'
    <3>1. \A q \in Processes : 1 .. (version'[q] - 1) \subseteq recorded'
      BY <1>t, <2>1, <2>5 DEF PassedRecorded
    <3>2. ASSUME NEW q \in Processes, proc'[q] \in {"seed", "rpc", "http", "serving", "stopping"}
          PROVE  recorded' = Version
      <4>1. proc[q] = proc'[q]
        BY <2>1, <3>2 DEF Move, MigrationsTypeOK, LifecycleTypeOK
      <4> QED BY <1>t, <2>1, <3>2, <4>1 DEF PassedRecorded
    <3> QED BY <3>1, <3>2 DEF PassedRecorded
  <2> QED BY <2>2, <2>3, <2>4, <2>6, <2>7
<1>5. CASE Migrated(p)
  <2>1. /\ proc[p] = "migrate" /\ tx[p] = "none" /\ version[p] > LastVersion
        /\ Move(p, "seed")
        /\ version' = [version EXCEPT ![p] = 1] /\ UNCHANGED <<schema, tx>>
    BY <1>5, ProceedAuth DEF Migrated
  <2>2. recorded = Version
    <3>1. version[p] - 1 = LastVersion
      BY <1>t, <2>1
    <3>2. 1 .. (version[p] - 1) \subseteq recorded
      BY DEF PassedRecorded
    <3> QED BY <1>t, <3>1, <3>2 DEF Version
  <2>3. MigrationsTypeOK'
    <3>1. LifecycleTypeOK'
      <4>1. \A q \in Processes : StepsOf(q) = AuthSteps /\ StepsOf(q)' = AuthSteps
        BY AuthStepsOf DEF StepsOf
      <4> QED BY <2>1, <4>1 DEF MigrationsTypeOK, LifecycleTypeOK, Move, AuthSteps
    <3>2. version' \in [Processes -> 1 .. LastVersion + 1]
      BY <1>t, <2>1
    <3>3. \A q \in Processes : tx'[q] # "none" => proc'[q] = "migrate" /\ version'[q] \in Version
      BY <1>t, <2>1 DEF MigrationsTypeOK, LifecycleTypeOK, Move
    <3> QED BY <1>t, <2>1, <3>1, <3>2, <3>3 DEF MigrationsTypeOK, schema
  <2>4. CommitterAlone' /\ AppliedOnce' /\ AppliedInOrder'
    BY <1>t, <2>1 DEF CommitterAlone, AppliedOnce, AppliedInOrder, schema
  <2>5. PassedRecorded'
    BY <1>t, <2>1, <2>2 DEF PassedRecorded, schema, Move, MigrationsTypeOK, LifecycleTypeOK
  <2> QED BY <2>3, <2>4, <2>5
<1> QED BY <1>1, <1>2, <1>3, <1>4, <1>5 DEF Migrate

\* Everything but the life of a process leaves proc and the migrations alone.
LEMMA RequestsKeepMigrations ==
  ASSUME MigrationsInv, UNCHANGED <<proc, migrations>>
  PROVE  MigrationsInv'
  BY DEF MigrationsInv, MigrationsTypeOK, LifecycleTypeOK, StepsOf, CommitterAlone, AppliedOnce,
         AppliedInOrder, PassedRecorded, migrations, schema

LEMMA MigrationsInductive == MigrationsInv /\ [Next]_vars => MigrationsInv'
<1> SUFFICES ASSUME MigrationsInv, [Next]_vars PROVE MigrationsInv'
  OBVIOUS
<1>1. ASSUME NEW p \in Processes, MigrateStep(p) PROVE MigrationsInv'
  BY <1>1, MigrateKeepsMigrations DEF MigrateStep
<1>2. ASSUME NEW p \in Processes, NEW x \in Phones, Login(p, x) PROVE MigrationsInv'
  BY <1>2, RequestsKeepMigrations DEF Login
<1>3. ASSUME NEW p \in Processes, NEW q \in Requests, NEW x \in Phones, RegisterStudent(p, q, x)
      PROVE  MigrationsInv'
  BY <1>3, RequestsKeepMigrations DEF RegisterStudent
<1>4. ASSUME NEW p \in Processes, NEW q \in Requests, NEW x \in Phones,
             NEW roles \in {{"teacher"}, {"admin"}}, NEW t \in tokens,
             RegisterWithRoles(p, q, x, roles, t)
      PROVE  MigrationsInv'
  BY <1>4, RequestsKeepMigrations DEF RegisterWithRoles
<1>5. ASSUME NEW q \in Requests, InsertUser(q) \/ InsertFails(q) PROVE MigrationsInv'
  BY <1>5, RequestsKeepMigrations DEF InsertUser, InsertFails
<1>6. ASSUME NEW t \in tokens, ExpireToken(t) PROVE MigrationsInv'
  BY <1>6, RequestsKeepMigrations DEF ExpireToken
<1>7. CASE UNCHANGED vars
  BY <1>7, RequestsKeepMigrations DEF vars
<1> QED BY <1>1, <1>2, <1>3, <1>4, <1>5, <1>6, <1>7, BootKeepsMigrations, SeedKeepsMigrations,
           GoDownKeepsMigrations DEF Next

LEMMA MigrationsInitial == Init => MigrationsInv
<1> SUFFICES ASSUME Init PROVE MigrationsInv
  OBVIOUS
<1> USE DEF Init, MigrationsInit, LifecycleInit
<1>1. MigrationsTypeOK
  BY VersionsAssumption DEF MigrationsTypeOK, LifecycleTypeOK, Version
<1>2. CommitterAlone /\ AppliedOnce /\ AppliedInOrder /\ PassedRecorded
  BY VersionsAssumption DEF CommitterAlone, AppliedOnce, AppliedInOrder, PassedRecorded, Version
<1> QED BY <1>1, <1>2 DEF MigrationsInv

-----------------------------------------------------------------------------
(* Accounts. *)

\* A registration that is about to insert comes from a process that serves and
\* asks for the role of a student, or was let through for an administrator.
RequestsVouchedFor ==
  /\ DOMAIN req = Requests
  /\ \A q \in Requests : req[q].pc = "insert" =>
       /\ seeded
       /\ req[q].phone \in Phones /\ req[q].roles \subseteq Role
       /\ req[q].by \in Phones \cup {Nobody}
       /\ \/ req[q].roles = {"student"}
          \/ req[q].by \in Phones /\ "admin" \in user[req[q].by]

\* The administrator is there before anybody is served, and with the row its phone.
SeededFirst ==
  /\ \A p \in Processes : proc[p] \in {"rpc", "http", "serving", "stopping"} => seeded
  /\ seeded <=> Registered(Admin)

\* Tokens say what their user is.
TokensTrue == \A t \in tokens : Registered(t.phone) /\ user[t.phone] = t.roles

\* Whoever is more than a student has an administrator who vouched for that.
GrantorsAdmins ==
  \A x \in Phones : user[x] \cap {"teacher", "admin"} # {} /\ x # Admin =>
    grantor[x] \in Phones /\ "admin" \in user[grantor[x]]

IInv ==
  /\ MigrationsInv
  /\ TypeOK
  /\ RequestsVouchedFor
  /\ SeededFirst
  /\ TokensTrue
  /\ GrantorsAdmins

\* The users stay, registrations may end.
LEMMA UsersStay ==
  ASSUME IInv, MigrationsInv', UNCHANGED <<user, seeded, grantor>>,
         tokens' \subseteq tokens,
         DOMAIN req' = Requests, \A q \in Requests : req'[q] \in {req[q], NoRequest},
         \A p \in Processes : proc'[p] \in {"rpc", "http", "serving", "stopping"} => seeded
  PROVE  IInv'
<1> USE DEF IInv
<1>1. TypeOK'
  BY DEF TypeOK, NoRequest, MigrationsInv
<1>2. RequestsVouchedFor'
  BY DEF RequestsVouchedFor, NoRequest
<1>3. SeededFirst' /\ TokensTrue' /\ GrantorsAdmins'
  BY DEF SeededFirst, TokensTrue, GrantorsAdmins, Registered
<1> QED BY <1>1, <1>2, <1>3

LEMMA BootKeepsAccounts ==
  ASSUME IInv, MigrationsInv', NEW p \in Processes, BootStep(p) \/ MigrateStep(p) \/ GoDown(p)
  PROVE  IInv'
<1>d. DOMAIN proc = Processes
  BY DEF IInv, MigrationsInv, MigrationsTypeOK, LifecycleTypeOK
<1>1. CASE BootStep(p)
  <2>1. \E there :
          /\ Move(p, there)
          /\ there \in {"http", "serving", "stopping"} => proc[p] \in {"rpc", "http", "serving", "stopping"}
          /\ there # "rpc"
    BY <1>1, ProceedAuth, AuthMainSteps DEF BootStep, Start, Open, StartGRPC, RunHTTP, Signal
  <2>2. \A r \in Processes : proc'[r] \in {"rpc", "http", "serving", "stopping"} => seeded
    BY <1>d, <2>1 DEF Move, IInv, SeededFirst
  <2> QED BY <1>1, <2>2, UsersStay DEF BootStep, accounts, IInv, RequestsVouchedFor
<1>2. CASE MigrateStep(p)
  <2>1. UNCHANGED accounts /\ \E there \in {"seed", "down"} : UNCHANGED proc \/ Move(p, there)
    BY <1>2, ProceedAuth DEF MigrateStep, Migrate, Look, Migrated, RunBody, RecordVersion, CommitVersion
  <2>2. \A r \in Processes : proc'[r] \in {"rpc", "http", "serving", "stopping"} => seeded
    BY <1>d, <2>1 DEF Move, IInv, SeededFirst
  <2> QED BY <2>1, <2>2, UsersStay DEF accounts, IInv, RequestsVouchedFor
<1>3. CASE GoDown(p)
  <2>1. Move(p, "down") /\ UNCHANGED <<user, seeded, grantor, tokens>>
    BY <1>3 DEF GoDown, Exit, Drained
  <2>2. \A r \in Processes : proc'[r] \in {"rpc", "http", "serving", "stopping"} => seeded
    BY <1>d, <2>1 DEF Move, IInv, SeededFirst
  <2>3. DOMAIN req' = Requests /\ \A q \in Requests : req'[q] \in {req[q], NoRequest}
    BY <1>3 DEF GoDown
  <2> QED BY <2>1, <2>2, <2>3, UsersStay
<1> QED BY <1>1, <1>2, <1>3

\* The seed meets its own row or none with its phone.
LEMMA SeedKeepsAccounts ==
  ASSUME IInv, MigrationsInv', NEW p \in Processes, SeedAdmin(p)
  PROVE  IInv'
<1> USE DEF IInv
<1>1. /\ seeded' /\ Move(p, "rpc") /\ UNCHANGED <<grantor, tokens, req>>
      /\ user' = IF seeded THEN user ELSE [user EXCEPT ![Admin] = {"admin", "teacher"}]
  BY ProceedAuth DEF SeedAdmin
<1>t. user \in [Phones -> SUBSET Role] /\ Admin \in Phones /\ tokens \subseteq Claims
  BY PhonesAssumption DEF TypeOK
<1>2. user' \in [Phones -> SUBSET Role] /\ user'[Admin] # {}
  BY <1>1, <1>t DEF Role, SeededFirst, Registered
<1>3. \A x \in Phones : x # Admin \/ seeded => user'[x] = user[x]
  BY <1>1, <1>t
<1>4. \A x \in Phones : user[x] # {} => user'[x] = user[x]
  BY <1>1, <1>3, <1>t DEF SeededFirst, Registered
<1>5. TypeOK'
  BY <1>1, <1>2 DEF TypeOK, MigrationsInv
<1>6. RequestsVouchedFor'
  BY <1>1, <1>4 DEF RequestsVouchedFor
<1>7. SeededFirst'
  BY <1>1, <1>2 DEF SeededFirst, Registered
<1>8. TokensTrue'
  BY <1>1, <1>4, <1>t DEF TokensTrue, Registered, Claims, User
<1>9. GrantorsAdmins'
  BY <1>1, <1>3, <1>4 DEF GrantorsAdmins
<1> QED BY <1>5, <1>6, <1>7, <1>8, <1>9

LEMMA RegisterKeepsAccounts ==
  ASSUME IInv, MigrationsInv', NEW p \in Processes, NEW q \in Requests, NEW x \in Phones,
         \/ RegisterStudent(p, q, x)
         \/ \E roles \in {{"teacher"}, {"admin"}}, t \in tokens : RegisterWithRoles(p, q, x, roles, t)
  PROVE  IInv'
<1> USE DEF IInv
<1>1. seeded
  BY DEF RegisterStudent, RegisterWithRoles, AcceptsHTTP, SeededFirst
<1>2. \E roles \in {{"student"}, {"teacher"}, {"admin"}}, by \in Phones \cup {Nobody} :
        /\ req' = [req EXCEPT ![q] =
             [pc |-> "insert", at |-> p, phone |-> x, roles |-> roles, by |-> by]]
        /\ roles = {"student"} \/ (by \in Phones /\ "admin" \in user[by])
  <2>1. CASE RegisterStudent(p, q, x)
    BY <2>1 DEF RegisterStudent
  <2>2. ASSUME NEW roles \in {{"teacher"}, {"admin"}}, NEW t \in tokens, RegisterWithRoles(p, q, x, roles, t)
        PROVE  /\ t.phone \in Phones /\ "admin" \in user[t.phone]
               /\ req' = [req EXCEPT ![q] =
                    [pc |-> "insert", at |-> p, phone |-> x, roles |-> roles, by |-> t.phone]]
    BY <2>2 DEF RegisterWithRoles, ParseToken, TokensTrue, TypeOK, Claims, User
  <2> QED BY <2>1, <2>2
<1>3. UNCHANGED <<proc, user, seeded, grantor, tokens>>
  BY DEF RegisterStudent, RegisterWithRoles
<1>4. TypeOK'
  <2>1. \A r \in Requests :
          /\ req'[r].pc \in {"idle", "insert"} /\ req'[r].phone \in Phones \cup {Nobody}
          /\ req'[r].pc = "insert" => req'[r].roles # {}
    <3> SUFFICES ASSUME NEW r \in Requests
                 PROVE  /\ req'[r].pc \in {"idle", "insert"} /\ req'[r].phone \in Phones \cup {Nobody}
                        /\ req'[r].pc = "insert" => req'[r].roles # {}
      OBVIOUS
    <3>1. CASE r = q
      BY <1>2, <3>1 DEF RequestsVouchedFor
    <3>2. CASE r # q
      BY <1>2, <3>2 DEF RequestsVouchedFor, TypeOK
    <3> QED BY <3>1, <3>2
  <2>2. MigrationsTypeOK'
    BY DEF MigrationsInv
  <2> QED BY <1>3, <2>1, <2>2 DEF TypeOK
<1>5. RequestsVouchedFor'
  BY <1>1, <1>2, <1>3 DEF RequestsVouchedFor, Role
<1>6. SeededFirst' /\ TokensTrue' /\ GrantorsAdmins'
  BY <1>3 DEF SeededFirst, TokensTrue, GrantorsAdmins, Registered
<1> QED BY <1>4, <1>5, <1>6

\* A registered user is never changed, so whatever was said of one stays true.
LEMMA InsertKeepsAccounts ==
  ASSUME IInv, MigrationsInv', NEW q \in Requests, InsertUser(q)
  PROVE  IInv'
<1> USE DEF IInv
<1> DEFINE x == req[q].phone
<1>t. /\ user \in [Phones -> SUBSET Role] /\ grantor \in [Phones -> Phones \cup {Nobody}]
      /\ tokens \subseteq Claims
  BY DEF TypeOK
<1>1. /\ req' = [req EXCEPT ![q] = NoRequest] /\ UNCHANGED <<proc, seeded, tokens>>
      /\ seeded /\ x \in Phones /\ req[q].roles \subseteq Role /\ req[q].roles # {}
      /\ req[q].by \in Phones \cup {Nobody}
      /\ req[q].roles = {"student"} \/ (req[q].by \in Phones /\ "admin" \in user[req[q].by])
  BY DEF InsertUser, RequestsVouchedFor, TypeOK
<1>2. CASE Registered(x)
  <2>1. UNCHANGED <<user, seeded, grantor>>
    BY <1>1, <1>2 DEF InsertUser
  <2>2. DOMAIN req' = Requests /\ \A r \in Requests : req'[r] \in {req[r], NoRequest}
    BY <1>1 DEF RequestsVouchedFor
  <2> QED BY <1>1, <2>1, <2>2, UsersStay DEF SeededFirst
<1>3. CASE ~Registered(x)
  <2>1. /\ user' = [user EXCEPT ![x] = req[q].roles] /\ grantor' = [grantor EXCEPT ![x] = req[q].by]
        /\ user[x] = {}
    BY <1>3 DEF InsertUser, Registered
  <2>2. \A y \in Phones : user[y] # {} => y # x /\ user'[y] = user[y] /\ grantor'[y] = grantor[y]
    BY <1>t, <2>1
  <2>3. TypeOK'
    BY <1>t, <1>1, <2>1 DEF TypeOK, MigrationsInv, NoRequest, RequestsVouchedFor
  <2>4. RequestsVouchedFor'
    BY <1>1, <2>2 DEF RequestsVouchedFor, NoRequest
  <2>5. SeededFirst'
    BY <1>1, <2>2, PhonesAssumption DEF SeededFirst, Registered
  <2>6. TokensTrue'
    BY <1>t, <1>1, <2>2 DEF TokensTrue, Registered, Claims, User
  <2>7. GrantorsAdmins'
    <3> SUFFICES ASSUME NEW y \in Phones, user'[y] \cap {"teacher", "admin"} # {}, y # Admin
                 PROVE  grantor'[y] \in Phones /\ "admin" \in user'[grantor'[y]]
      BY DEF GrantorsAdmins
    <3>1. CASE y = x
      <4>1. user'[y] = req[q].roles /\ grantor'[y] = req[q].by
        BY <1>t, <2>1, <3>1
      <4>2. req[q].by \in Phones /\ "admin" \in user[req[q].by]
        BY <1>1, <4>1
      <4> QED BY <2>2, <4>1, <4>2
    <3>2. CASE y # x
      <4>1. user'[y] = user[y] /\ grantor'[y] = grantor[y]
        BY <1>t, <2>1, <3>2
      <4>2. grantor[y] \in Phones /\ "admin" \in user[grantor[y]]
        BY <4>1 DEF GrantorsAdmins
      <4> QED BY <2>2, <4>1, <4>2
    <3> QED BY <3>1, <3>2
  <2> QED BY <2>3, <2>4, <2>5, <2>6, <2>7
<1> QED BY <1>2, <1>3

\* Failures and expiry take away only.
LEMMA LossKeepsAccounts ==
  ASSUME IInv, MigrationsInv', \/ \E q \in Requests : InsertFails(q)
                               \/ \E t \in tokens : ExpireToken(t)
                               \/ UNCHANGED vars
  PROVE  IInv'
<1>1. UNCHANGED <<proc, user, seeded, grantor>> /\ tokens' \subseteq tokens
  BY DEF InsertFails, ExpireToken, vars, accounts
<1>2. DOMAIN req' = Requests /\ \A q \in Requests : req'[q] \in {req[q], NoRequest}
  BY DEF InsertFails, ExpireToken, vars, accounts, IInv, RequestsVouchedFor
<1> QED BY <1>1, <1>2, UsersStay DEF IInv, SeededFirst

LEMMA LoginKeepsAccounts ==
  ASSUME IInv, MigrationsInv', NEW p \in Processes, NEW x \in Phones, Login(p, x)
  PROVE  IInv'
<1> USE DEF IInv
<1>1. /\ Registered(x) /\ tokens' = tokens \cup {[phone |-> x, roles |-> user[x]]}
      /\ UNCHANGED <<proc, user, seeded, grantor, req>>
  BY DEF Login, FindByID, SignToken
<1>2. TypeOK'
  BY <1>1 DEF TypeOK, MigrationsInv, Claims, User
<1>3. RequestsVouchedFor' /\ SeededFirst' /\ GrantorsAdmins'
  BY <1>1 DEF RequestsVouchedFor, SeededFirst, GrantorsAdmins, Registered
<1>4. TokensTrue'
  BY <1>1 DEF TokensTrue, Registered
<1> QED BY <1>2, <1>3, <1>4

LEMMA AccountsInitial == Init => IInv
<1> SUFFICES ASSUME Init PROVE IInv
  OBVIOUS
<1>1. TypeOK
  BY MigrationsInitial DEF Init, TypeOK, NoRequest, MigrationsInv, Role
<1>2. RequestsVouchedFor /\ TokensTrue /\ GrantorsAdmins
  BY DEF Init, RequestsVouchedFor, TokensTrue, GrantorsAdmins, NoRequest
<1>3. SeededFirst
  BY PhonesAssumption DEF Init, MigrationsInit, LifecycleInit, SeededFirst, Registered
<1> QED BY <1>1, <1>2, <1>3, MigrationsInitial DEF IInv

LEMMA AccountsInductive == IInv /\ [Next]_vars => IInv'
<1> SUFFICES ASSUME IInv, [Next]_vars PROVE IInv'
  OBVIOUS
<1>1. MigrationsInv'
  BY MigrationsInductive DEF IInv
<1> QED BY <1>1, BootKeepsAccounts, SeedKeepsAccounts, RegisterKeepsAccounts, InsertKeepsAccounts,
           LossKeepsAccounts, LoginKeepsAccounts DEF Next

LEMMA Invariance == Spec => []IInv
  BY AccountsInitial, AccountsInductive, PTL DEF Spec

-----------------------------------------------------------------------------

\* However many processes run the migrations and wherever they die, the
\* statements of a version are carried out once, with its record.
THEOREM MigrationsAppliedOnce == Spec => []AppliedOnce
<1>1. IInv => AppliedOnce
  BY DEF IInv, MigrationsInv
<1> QED BY <1>1, Invariance, PTL

\* A process serves on a migrated schema with its administrator, and a process
\* that comes up never meets a row that keeps it from seeding.
THEOREM AccountsInvariant == Spec => []AccountsInv
<1>1. IInv => AccountsInv
  <2> SUFFICES ASSUME IInv PROVE AccountsInv
    OBVIOUS
  <2>1. ServesWhenReady
    BY RPCDone DEF ServesWhenReady, IInv, MigrationsInv, PassedRecorded, SeededFirst
  <2> QED BY <2>1 DEF AccountsInv, IInv, MigrationsInv, AdminPhoneIsSeeded, SeededFirst
<1> QED BY <1>1, Invariance, PTL

\* Whoever trusts a token is told the truth about its user.
THEOREM TokensTellTheTruth == Spec => []TokensAreCurrent
<1>1. IInv => TokensAreCurrent
  <2> SUFFICES ASSUME IInv, NEW t \in tokens PROVE GetUser(t.phone) = {t} /\ Me(t) = {t}
    BY DEF TokensAreCurrent, ValidateToken, ParseToken
  <2>1. Registered(t.phone) /\ user[t.phone] = t.roles
    BY DEF IInv, TokensTrue
  <2>2. t = [phone |-> t.phone, roles |-> t.roles]
    BY DEF IInv, TypeOK, Claims, User
  <2> QED BY <2>1, <2>2 DEF GetUser, Me, FindByID
<1> QED BY <1>1, Invariance, PTL

\* Behind everybody who may list the users stands an administrator.
THEOREM RolesAreGranted == Spec => []RolesHaveGrantor
<1>1. IInv => RolesHaveGrantor
  <2> SUFFICES ASSUME IInv, NEW t \in tokens, ListUsers(t) # {}, t.phone # Admin
               PROVE  /\ grantor[t.phone] # Nobody
                      /\ \E u \in GetUser(grantor[t.phone]) : "admin" \in u.roles
    BY DEF RolesHaveGrantor
  <2>1. t.roles \cap {"teacher", "admin"} # {}
    BY DEF ListUsers, RequireRoles, ParseToken
  <2>2. t.phone \in Phones /\ user[t.phone] = t.roles
    BY DEF IInv, TypeOK, TokensTrue, Claims, User
  <2>3. grantor[t.phone] \in Phones /\ "admin" \in user[grantor[t.phone]]
    BY <2>1, <2>2 DEF IInv, GrantorsAdmins
  <2>4. [phone |-> grantor[t.phone], roles |-> user[grantor[t.phone]]] \in GetUser(grantor[t.phone])
    BY <2>3 DEF GetUser, FindByID, Registered
  <2> QED BY <2>3, <2>4, PhonesAssumption
<1> QED BY <1>1, Invariance, PTL
=============================================================================
