--------------------------- MODULE SubjectPriors ---------------------------
(***************************************************************************)
(* The subject tag profiles of recommendation-service.  A workbook request *)
(* is served by a thread of its own, which lists the tags of               *)
(* content-service, reads the profile of its subject, fills an empty one   *)
(* from the listed tags with neutral priors, and stores the vector it has  *)
(* built.  Teachers replace a profile with PUT while such threads run.     *)
(*                                                                         *)
(* A profile is a function from the tag ids it lists to their priors; an   *)
(* empty function is a subject without a profile.                          *)
(***************************************************************************)
EXTENDS Integers, FiniteSets

CONSTANTS
  Subjects,        \* names of school subjects
  DefaultSubject,  \* "math": what build_workbook takes for a blank subject
  Tags,            \* tag ids of content-service
  Priors,          \* weights a tag list may hold, scaled to integers
  Payloads,        \* tag lists a teacher may PUT
  Builders,        \* threads serving POST /recommendations/workbooks
  MaxPuts,         \* bound: PUTs answered
  MaxVectors       \* bound: vectors stored

Profiles == UNION {[T -> Priors] : T \in SUBSET Tags}
NoTags == [t \in {} |-> 1]
Listed(tags) == DOMAIN tags # {}

ASSUME SubjectsAssumption == DefaultSubject \in Subjects
ASSUME PriorsAssumption == Priors \subseteq Int /\ {0, 1} \subseteq Priors
ASSUME PayloadsAssumption == Payloads \subseteq Profiles
ASSUME PriorBoundsAssumption == MaxPuts \in Nat /\ MaxVectors \in Nat

VARIABLES
  catalogue,  \* tags that exist in content-service
  profile,    \* subject_tag_profiles, as stored
  put,        \* per subject: what the last PUT answered, if any
  puts,       \* PUTs so far
  pc,         \* per builder: "idle", "list", "read", "bootstrap", "store"
  asked,      \* per builder: the subject the request named
  seen,       \* per builder: the tags it listed
  held,       \* per builder: the profile it builds the vector from
  vectors,    \* tag_vectors: the subject and the profile of each
  everStored, \* (history) per subject: the profiles that were readable
  overtaken   \* (history) subjects whose last PUT a bootstrap replaced

request == <<pc, asked, seen, held>>
vars == <<catalogue, profile, put, puts, request, vectors, everStored, overtaken>>

\* update_subject_tags: a missing, zero or unreadable prior becomes 1, a
\* negative one becomes 0.
NormalizePriors(tags) ==
  [t \in DOMAIN tags |-> IF tags[t] = 0 THEN 1 ELSE IF tags[t] < 0 THEN 0 ELSE tags[t]]

\* The decoder of the Mongo repository takes a stored 0 for a missing prior.
DecodePriors(tags) == [t \in DOMAIN tags |-> IF tags[t] = 0 THEN 1 ELSE tags[t]]

Read(s) == DecodePriors(profile[s])

TypeOK ==
  /\ catalogue \subseteq Tags
  /\ profile \in [Subjects -> Profiles]
  /\ put \in [Subjects -> Profiles]
  /\ puts \in 0 .. MaxPuts
  /\ pc \in [Builders -> {"idle", "list", "read", "bootstrap", "store"}]
  /\ asked \in [Builders -> Subjects]
  /\ seen \in [Builders -> SUBSET Tags]
  /\ held \in [Builders -> {f \in Profiles : \A t \in DOMAIN f : f[t] > 0}]
  /\ vectors \subseteq [subject : Subjects, asked : Subjects, tags : Profiles]
  /\ everStored \in [Subjects -> SUBSET Profiles]
  /\ overtaken \subseteq Subjects

Init ==
  /\ catalogue = {}
  /\ profile = [s \in Subjects |-> NoTags]
  /\ put = [s \in Subjects |-> NoTags]
  /\ puts = 0
  /\ pc = [b \in Builders |-> "idle"]
  /\ asked = [b \in Builders |-> DefaultSubject]
  /\ seen = [b \in Builders |-> {}]
  /\ held = [b \in Builders |-> NoTags]
  /\ vectors = {}
  /\ everStored = [s \in Subjects |-> {NoTags}]
  /\ overtaken = {}

-----------------------------------------------------------------------------

\* content-service gets a new tag.
CreateTag(t) ==
  /\ t \notin catalogue
  /\ catalogue' = catalogue \cup {t}
  /\ UNCHANGED <<profile, put, puts, request, vectors, everStored, overtaken>>

\* Faulty variant: tags the request leaves out keep their old priors.
UpdateSubjectTagsMerges(s, tags) ==
  LET merged == [t \in DOMAIN profile[s] \cup DOMAIN tags |->
                   IF t \in DOMAIN tags THEN NormalizePriors(tags)[t] ELSE profile[s][t]]
  IN
  /\ puts < MaxPuts
  /\ puts' = puts + 1
  /\ profile' = [profile EXCEPT ![s] = merged]
  /\ put' = [put EXCEPT ![s] = NormalizePriors(tags)]
  /\ everStored' = [everStored EXCEPT ![s] = @ \cup {DecodePriors(merged)}]
  /\ overtaken' = overtaken \ {s}
  /\ UNCHANGED <<catalogue, request, vectors>>

\* PUT /recommendations/subjects/{s}/tags: one atomic upsert.
UpdateSubjectTags(s, tags) ==
  /\ puts < MaxPuts
  /\ puts' = puts + 1
  /\ profile' = [profile EXCEPT ![s] = NormalizePriors(tags)]
  /\ put' = [put EXCEPT ![s] = NormalizePriors(tags)]
  /\ everStored' = [everStored EXCEPT ![s] = @ \cup {DecodePriors(NormalizePriors(tags))}]
  /\ overtaken' = overtaken \ {s}
  /\ UNCHANGED <<catalogue, request, vectors>>

\* POST /recommendations/workbooks: the body's subject is not read.
Receive(b, s) ==
  /\ pc[b] = "idle"
  /\ pc' = [pc EXCEPT ![b] = "list"]
  /\ asked' = [asked EXCEPT ![b] = s]
  /\ UNCHANGED <<catalogue, profile, put, puts, seen, held, vectors, everStored, overtaken>>

\* The calls to content-service and statistic-service.  An empty table is
\* listed as null, which the client refuses: the request fails.
ListTags(b) ==
  /\ pc[b] = "list"
  /\ catalogue # {}
  /\ seen' = [seen EXCEPT ![b] = catalogue]
  /\ pc' = [pc EXCEPT ![b] = "read"]
  /\ UNCHANGED <<catalogue, profile, put, puts, asked, held, vectors, everStored, overtaken>>

Subject(b) == DefaultSubject

\* Faulty variant: every request fills the profile again.
GetProfileAlwaysBootstraps(b) ==
  /\ pc[b] = "read"
  /\ held' = [held EXCEPT ![b] = Read(Subject(b))]
  /\ pc' = [pc EXCEPT ![b] = "bootstrap"]
  /\ UNCHANGED <<catalogue, profile, put, puts, asked, seen, vectors, everStored, overtaken>>

GetProfile(b) ==
  /\ pc[b] = "read"
  /\ held' = [held EXCEPT ![b] = Read(Subject(b))]
  /\ pc' = [pc EXCEPT ![b] = IF Listed(Read(Subject(b))) THEN "store" ELSE "bootstrap"]
  /\ UNCHANGED <<catalogue, profile, put, puts, asked, seen, vectors, everStored, overtaken>>

Neutral(tags) == [t \in tags |-> 1]

\* Faulty variant: the neutral profile is used but not saved.
BootstrapUnsaved(b) ==
  /\ pc[b] = "bootstrap"
  /\ held' = [held EXCEPT ![b] = Neutral(seen[b])]
  /\ pc' = [pc EXCEPT ![b] = "store"]
  /\ UNCHANGED <<catalogue, profile, put, puts, asked, seen, vectors, everStored, overtaken>>

\* _bootstrap_subject_profile: the upsert replaces whatever is stored by now.
Bootstrap(b) ==
  LET s == Subject(b) IN
  /\ pc[b] = "bootstrap"
  /\ profile' = [profile EXCEPT ![s] = Neutral(seen[b])]
  /\ held' = [held EXCEPT ![b] = Neutral(seen[b])]
  /\ everStored' = [everStored EXCEPT ![s] = @ \cup {Neutral(seen[b])}]
  /\ overtaken' = IF Listed(put[s]) THEN overtaken \cup {s} ELSE overtaken
  /\ pc' = [pc EXCEPT ![b] = "store"]
  /\ UNCHANGED <<catalogue, put, puts, asked, seen, vectors>>

\* The thread's locals are gone.
Finish(b) ==
  /\ pc' = [pc EXCEPT ![b] = "idle"]
  /\ asked' = [asked EXCEPT ![b] = DefaultSubject]
  /\ seen' = [seen EXCEPT ![b] = {}]
  /\ held' = [held EXCEPT ![b] = NoTags]

\* The vector is ranked from the profile in hand and inserted; the reply
\* follows.
StoreVector(b) ==
  /\ pc[b] = "store"
  /\ Cardinality(vectors) < MaxVectors
  /\ vectors' = vectors \cup
       {[subject |-> Subject(b), asked |-> asked[b], tags |-> held[b]]}
  /\ Finish(b)
  /\ UNCHANGED <<catalogue, profile, put, puts, everStored, overtaken>>

\* A call fails (listing an empty catalogue always does), or the process
\* dies: the thread is gone, what it has written stays.
Abandon(b) ==
  /\ pc[b] # "idle"
  /\ Finish(b)
  /\ UNCHANGED <<catalogue, profile, put, puts, vectors, everStored, overtaken>>

Build(b) ==
  \/ \E s \in Subjects : Receive(b, s)
  \/ ListTags(b)
  \/ GetProfile(b)
  \/ Bootstrap(b)
  \/ StoreVector(b)
  \/ Abandon(b)

Next ==
  \/ \E t \in Tags : CreateTag(t)
  \/ \E s \in Subjects, tags \in Payloads : UpdateSubjectTags(s, tags)
  \/ \E b \in Builders : Build(b)

Spec == Init /\ [][Next]_vars

-----------------------------------------------------------------------------
(* Why it works: the inductive invariant. *)

\* No negative prior is stored, so none of 0 or less is read.
StoredPriors == \A s \in Subjects : \A t \in DOMAIN profile[s] : profile[s][t] >= 0

HistoryIsComplete ==
  /\ \A s \in Subjects : Read(s) \in everStored[s]
  /\ \A b \in Builders : pc[b] = "store" => held[b] \in everStored[Subject(b)]

\* Only a thread that found no tags bootstraps, and it has tags to write.
BootstrapFoundEmpty ==
  \A b \in Builders :
    /\ pc[b] \in {"read", "bootstrap"} => seen[b] # {}
    /\ pc[b] = "bootstrap" => ~Listed(held[b])

-----------------------------------------------------------------------------

\* A request never ranks with priors that no reader of the subject could
\* have seen: its vector comes from a profile that was stored.
VectorFromStoredProfile ==
  \A v \in vectors : v.tags \in everStored[v.subject]

\* What GET shows is what the last PUT answered, unless a bootstrap decided
\* before that PUT replaced it, or the answer held a prior of 0 (a negative
\* one in the request).
LostPutHasCause ==
  \A s \in Subjects :
    Listed(put[s]) =>
      \/ Read(s) = put[s]
      \/ s \in overtaken
      \/ \E t \in DOMAIN put[s] : put[s][t] = 0

\* A profile a teacher filled is replaced only by another PUT or by a thread
\* that had found the subject empty; requests that come later leave it alone.
OnlyLateBootstrapReplaces ==
  [][\A s \in Subjects :
       Listed(profile[s]) /\ profile'[s] # profile[s] =>
         \/ puts' = puts + 1
         \/ \E b \in Builders : pc[b] = "bootstrap" /\ ~Listed(held[b])]_vars

\* A filled profile is emptied by a teacher's PUT only: a bootstrap always has
\* tags to write.
OnlyPutEmpties ==
  [][\A s \in Subjects :
       Listed(profile[s]) /\ ~Listed(profile'[s]) => puts' = puts + 1]_vars

PriorsInv ==
  /\ TypeOK
  /\ StoredPriors
  /\ HistoryIsComplete
  /\ BootstrapFoundEmpty
  /\ VectorFromStoredProfile

(* What the repository says and the code does not do. *)

\* README: PUT /recommendations/subjects/{subject}/tags updates the priors.
PutSurvives == \A s \in Subjects : Listed(put[s]) => Read(s) = put[s]
=============================================================================
