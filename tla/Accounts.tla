------------------------------ MODULE Accounts ------------------------------
(***************************************************************************)
(* auth-service: a process migrates the database, seeds the administrator  *)
(* and serves registrations and logins.  Tokens carry the roles of their   *)
(* user and outlive the process that signed them.                          *)
(***************************************************************************)
EXTENDS Migrations

CONSTANTS
  Requests,  \* registrations that may be under way at the same time
  Phones,    \* phones, among them the administrator's
  Admin,     \* the phone "admin"
  Nobody     \* no phone

ASSUME PhonesAssumption == Admin \in Phones /\ Nobody \notin Phones

ASSUME AuthAssumption == \A p \in Processes : Main[p] = AuthMain

Role == {"student", "teacher", "admin"}

\* A user as far as others see one.  The id, random but for usr_admin, and the
\* phone determine each other: the phone stands for both.
User == [phone : Phones, roles : SUBSET Role]

\* What a token says: its subject and the roles of the subject.
Claims == User

VARIABLES
  user,    \* users: the roles of the user with a phone, {} when there is none
  seeded,  \* whether the row with the id usr_admin is there
  grantor, \* per user: whose token vouched for the roles, if any were asked for
  tokens,  \* tokens that have not expired
  req      \* per registration: where it runs and what it asks for

accounts == <<user, seeded, grantor, tokens, req>>
vars == <<proc, migrations, accounts>>

NoRequest == [pc |-> "idle", at |-> Nobody, phone |-> Nobody, roles |-> {}, by |-> Nobody]

TypeOK ==
  /\ MigrationsTypeOK
  /\ user \in [Phones -> SUBSET Role]
  /\ seeded \in BOOLEAN
  /\ grantor \in [Phones -> Phones \cup {Nobody}]
  /\ tokens \subseteq Claims
  /\ \A q \in Requests :
       /\ req[q].pc \in {"idle", "insert"}
       /\ req[q].phone \in Phones \cup {Nobody}
       /\ req[q].pc = "insert" => req[q].roles # {}

Init ==
  /\ MigrationsInit
  /\ user = [x \in Phones |-> {}]
  /\ seeded = FALSE
  /\ grantor = [x \in Phones |-> Nobody]
  /\ tokens = {}
  /\ req = [q \in Requests |-> NoRequest]

Registered(x) == user[x] # {}

-----------------------------------------------------------------------------
(* What the service answers without changing anything: {} is an error. *)

FindByID(x) == {u \in {[phone |-> x, roles |-> user[x]]} : Registered(x)}

\* GET /me, by the subject of the token; GetUser, by an id.
Me(t) == FindByID(t.phone)
GetUser(x) == FindByID(x)

\* The signature holds and the token has not expired.
ParseToken(t) == {t} \cap tokens
ValidateToken(t) == ParseToken(t)

RequireRoles(t, allowed) == \E c \in ParseToken(t) : c.roles \cap allowed # {}

List == UNION {FindByID(x) : x \in Phones}
ListUsers(t) == {u \in List : RequireRoles(t, {"teacher", "admin"})}

-----------------------------------------------------------------------------
(* The life of a process. *)

BootStep(p) ==
  /\ Start(p) \/ Open(p) \/ StartGRPC(p) \/ RunHTTP(p) \/ Signal(p)
  /\ UNCHANGED <<migrations, accounts>>

MigrateStep(p) == Migrate(p) /\ UNCHANGED accounts

\* Faulty variant: that the seed failed is only logged.
SeedAdminUnseen(p) ==
  /\ Proceed(p, "seed")
  /\ \/ seeded' = TRUE /\ user' = IF seeded THEN user ELSE [user EXCEPT ![Admin] = {"admin", "teacher"}]
     \/ UNCHANGED <<user, seeded>>
  /\ UNCHANGED <<migrations, grantor, tokens, req>>

\* An insert that gives way to the id usr_admin, but not to the phone: were it
\* taken by somebody else, the process would exit.
SeedAdmin(p) ==
  /\ seeded \/ ~Registered(Admin)
  /\ Proceed(p, "seed")
  /\ seeded' = TRUE
  /\ user' = IF seeded THEN user ELSE [user EXCEPT ![Admin] = {"admin", "teacher"}]
  /\ UNCHANGED <<migrations, grantor, tokens, req>>

\* When a process is gone, so are its requests; the others are not disturbed.
GoDown(p) ==
  /\ Exit(p) \/ Drained(p, \E q \in Requests : req[q].at = p)
  /\ RollBack(p)
  /\ req' = [q \in Requests |-> IF req[q].at = p THEN NoRequest ELSE req[q]]
  /\ UNCHANGED <<user, seeded, grantor, tokens>>

-----------------------------------------------------------------------------

\* POST /register without roles: a student.
RegisterStudent(p, q, x) ==
  /\ AcceptsHTTP(p) /\ req[q].pc = "idle"
  /\ req' = [req EXCEPT ![q] =
       [pc |-> "insert", at |-> p, phone |-> x, roles |-> {"student"}, by |-> Nobody]]
  /\ UNCHANGED <<proc, migrations, user, seeded, grantor, tokens>>

\* Faulty variant: any valid token may assign roles.
RegisterWithAnyToken(p, q, x, roles, t) ==
  /\ AcceptsHTTP(p) /\ req[q].pc = "idle"
  /\ req' = [req EXCEPT ![q] =
       [pc |-> "insert", at |-> p, phone |-> x, roles |-> roles, by |-> t.phone]]
  /\ UNCHANGED <<proc, migrations, user, seeded, grantor, tokens>>

\* POST /register with roles: only with an administrator's token.
RegisterWithRoles(p, q, x, roles, t) ==
  /\ AcceptsHTTP(p) /\ req[q].pc = "idle"
  /\ \E c \in ParseToken(t) : "admin" \in c.roles
  /\ req' = [req EXCEPT ![q] =
       [pc |-> "insert", at |-> p, phone |-> x, roles |-> roles, by |-> t.phone]]
  /\ UNCHANGED <<proc, migrations, user, seeded, grantor, tokens>>

\* Faulty variant: a registration for a known phone replaces the user.
UpsertUser(q) ==
  /\ req[q].pc = "insert"
  /\ user' = [user EXCEPT ![req[q].phone] = req[q].roles]
  /\ grantor' = [grantor EXCEPT ![req[q].phone] = req[q].by]
  /\ req' = [req EXCEPT ![q] = NoRequest]
  /\ UNCHANGED <<proc, migrations, seeded, tokens>>

\* The insert; the phone is unique, a second registration is a conflict.
InsertUser(q) ==
  /\ req[q].pc = "insert"
  /\ IF Registered(req[q].phone)
       THEN UNCHANGED <<user, grantor>>
       ELSE /\ user' = [user EXCEPT ![req[q].phone] = req[q].roles]
            /\ grantor' = [grantor EXCEPT ![req[q].phone] = req[q].by]
  /\ req' = [req EXCEPT ![q] = NoRequest]
  /\ UNCHANGED <<proc, migrations, seeded, tokens>>

\* The insert fails: no row, and the client is told.
InsertFails(q) ==
  /\ req[q].pc = "insert"
  /\ req' = [req EXCEPT ![q] = NoRequest]
  /\ UNCHANGED <<proc, migrations, user, seeded, grantor, tokens>>

SignToken(u) == [phone |-> u.phone, roles |-> u.roles]

\* POST /login of a user that exists, with the right password.
Login(p, x) ==
  /\ AcceptsHTTP(p)
  /\ \E u \in FindByID(x) : tokens' = tokens \cup {SignToken(u)}
  /\ UNCHANGED <<proc, migrations, user, seeded, grantor, req>>

\* A day later.
ExpireToken(t) ==
  /\ tokens' = tokens \ {t}
  /\ UNCHANGED <<proc, migrations, user, seeded, grantor, req>>

Next ==
  \/ \E p \in Processes :
       \/ BootStep(p) \/ MigrateStep(p) \/ SeedAdmin(p) \/ GoDown(p)
       \/ \E x \in Phones : Login(p, x)
       \/ \E q \in Requests, x \in Phones : RegisterStudent(p, q, x)
       \/ \E q \in Requests, x \in Phones, roles \in {{"teacher"}, {"admin"}}, t \in tokens :
            RegisterWithRoles(p, q, x, roles, t)
  \/ \E q \in Requests : InsertUser(q) \/ InsertFails(q)
  \/ \E t \in tokens : ExpireToken(t)

Spec == Init /\ [][Next]_vars

-----------------------------------------------------------------------------
(* Properties. *)

\* Nobody but the seed ever owns the phone "admin": a process that comes up
\* never meets a row that keeps it from seeding, and serves in the end.
AdminPhoneIsSeeded == Registered(Admin) => seeded

\* The gRPC server answers from before the HTTP server listens until after it
\* is drained: on a migrated schema with its administrator all the while.
ServesWhenReady == \A p \in Processes : AnswersRPC(p) => recorded = Version /\ seeded

\* A token that ValidateToken accepts names a user whom GetUser and /me find,
\* with the roles the token says: no service that trusts a token is misled by
\* it, whichever process signed it.
TokensAreCurrent ==
  \A t \in tokens : \A c \in ValidateToken(t) : GetUser(c.phone) = {c} /\ Me(t) = {c}

\* Whoever is shown the list of users, but for the seeded administrator, got
\* the role from somebody who is an administrator.
RolesHaveGrantor ==
  \A t \in tokens : ListUsers(t) # {} /\ t.phone # Admin =>
    grantor[t.phone] # Nobody /\ \E u \in GetUser(grantor[t.phone]) : "admin" \in u.roles

\* A process comes up on a schema without gaps, can seed its administrator, and
\* answers nobody before.
AccountsInv == TypeOK /\ AppliedInOrder /\ AdminPhoneIsSeeded /\ ServesWhenReady
=============================================================================
