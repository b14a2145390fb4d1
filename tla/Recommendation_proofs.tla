------------------------- MODULE Recommendation_proofs -------------------------
(***************************************************************************)
(* The subject profiles and the workbook assembly of recommendation-       *)
(* service.  PriorsInv of SubjectPriors is inductive; it gives what a      *)
(* vector is built from and who can replace or empty a teacher's profile.  *)
(* WorkbookInv of WorkbookAssembly is inductive; it gives how the quota    *)
(* yields, which tasks of a topic are picked, and what stands under a      *)
(* theory, for any topics, theories, ranking and limits.                   *)
(***************************************************************************)
EXTENDS SubjectPriors, WorkbookAssembly, SequenceTheorems, FiniteSetTheorems,
        FunctionTheorems, WellFoundedInduction, TLAPS

-----------------------------------------------------------------------------
(* Subject profiles. *)

Positive == {f \in Profiles : \A t \in DOMAIN f : f[t] > 0}

\* What it takes to be a profile.
LEMMA ProfileIntro ==
  ASSUME NEW T \in SUBSET Tags, NEW f \in [T -> Priors]
  PROVE  f \in Profiles
  BY DEF Profiles

LEMMA ProfileElim ==
  ASSUME NEW f \in Profiles
  PROVE  /\ DOMAIN f \in SUBSET Tags
         /\ f \in [DOMAIN f -> Priors]
         /\ \A t \in DOMAIN f : f[t] \in Int
<1>1. PICK T \in SUBSET Tags : f \in [T -> Priors]
  BY DEF Profiles
<1> QED BY <1>1, PriorsAssumption

\* A PUT stores a profile without negative priors.
LEMMA NormalizedProfile ==
  ASSUME NEW f \in Profiles
  PROVE  /\ NormalizePriors(f) \in Profiles
         /\ DOMAIN NormalizePriors(f) = DOMAIN f
         /\ \A t \in DOMAIN f : NormalizePriors(f)[t] >= 0
<1>1. NormalizePriors(f) \in [DOMAIN f -> Priors]
  BY ProfileElim, PriorsAssumption DEF NormalizePriors
<1>2. \A t \in DOMAIN f : NormalizePriors(f)[t] >= 0
  BY ProfileElim DEF NormalizePriors
<1>3. DOMAIN NormalizePriors(f) = DOMAIN f
  BY DEF NormalizePriors
<1> QED BY <1>1, <1>2, <1>3, ProfileElim, ProfileIntro

\* What is read back has the tags of what is stored, with positive priors.
LEMMA DecodedProfile ==
  ASSUME NEW f \in Profiles, \A t \in DOMAIN f : f[t] >= 0
  PROVE  /\ DecodePriors(f) \in Positive
         /\ DOMAIN DecodePriors(f) = DOMAIN f
         /\ (\A t \in DOMAIN f : f[t] # 0) => DecodePriors(f) = f
<1>1. DecodePriors(f) \in [DOMAIN f -> Priors]
  BY ProfileElim, PriorsAssumption DEF DecodePriors
<1>2. \A t \in DOMAIN f : DecodePriors(f)[t] > 0
  BY ProfileElim DEF DecodePriors
<1>3. DOMAIN DecodePriors(f) = DOMAIN f
  BY DEF DecodePriors
<1>4. (\A t \in DOMAIN f : f[t] # 0) => DecodePriors(f) = f
  BY ProfileElim DEF DecodePriors
<1>5. DecodePriors(f) \in Profiles
  BY <1>1, ProfileElim, ProfileIntro
<1> QED BY <1>2, <1>3, <1>4, <1>5 DEF Positive

\* A bootstrap writes a profile with the neutral prior for every tag, which is
\* read back as it is.
LEMMA NeutralProfile ==
  ASSUME NEW T \in SUBSET Tags
  PROVE  /\ Neutral(T) \in Positive
         /\ DOMAIN Neutral(T) = T
         /\ \A t \in T : Neutral(T)[t] = 1
         /\ DecodePriors(Neutral(T)) = Neutral(T)
<1>1. Neutral(T) \in [T -> Priors] /\ DOMAIN Neutral(T) = T /\ \A t \in T : Neutral(T)[t] = 1
  BY PriorsAssumption DEF Neutral
<1>2. Neutral(T) \in Profiles
  BY <1>1, ProfileIntro
<1>3. DecodePriors(Neutral(T)) = Neutral(T)
  BY <1>1 DEF DecodePriors, Neutral
<1> QED BY <1>1, <1>2, <1>3 DEF Positive

LEMMA EmptyProfile == NoTags \in Positive /\ DecodePriors(NoTags) = NoTags /\ ~Listed(NoTags)
<1>1. NoTags \in [{} -> Priors] /\ DOMAIN NoTags = {}
  BY DEF NoTags
<1>2. NoTags \in Profiles
  BY <1>1, ProfileIntro
<1>3. DecodePriors(NoTags) = NoTags
  BY DEF NoTags, DecodePriors
<1> QED BY <1>1, <1>2, <1>3 DEF Positive, Listed

LEMMA PositiveAreProfiles == Positive \subseteq Profiles
  BY DEF Positive

LEMMA ReadIsPositive ==
  ASSUME TypeOK, StoredPriors, NEW s \in Subjects
  PROVE  /\ Read(s) \in Positive
         /\ Listed(Read(s)) <=> Listed(profile[s])
<1>1. profile[s] \in Profiles /\ \A t \in DOMAIN profile[s] : profile[s][t] >= 0
  BY DEF TypeOK, StoredPriors
<1> QED BY <1>1, DecodedProfile DEF Read, Listed

-----------------------------------------------------------------------------

LEMMA InitPriors == Init => PriorsInv
<1> SUFFICES ASSUME Init PROVE PriorsInv
  OBVIOUS
<1> USE EmptyProfile, PositiveAreProfiles, SubjectsAssumption
<1>1. TypeOK
  BY PriorBoundsAssumption DEF Init, TypeOK, Positive
<1>2. StoredPriors
  BY DEF Init, StoredPriors, NoTags
<1>3. HistoryIsComplete /\ BootstrapFoundEmpty /\ VectorFromStoredProfile
  BY DEF Init, HistoryIsComplete, BootstrapFoundEmpty, VectorFromStoredProfile, Read
<1> QED BY <1>1, <1>2, <1>3 DEF PriorsInv

\* The parts of TypeOK, with the set of positive profiles by its name.
LEMMA Types ==
  ASSUME TypeOK
  PROVE  /\ catalogue \in SUBSET Tags
         /\ profile \in [Subjects -> Profiles]
         /\ put \in [Subjects -> Profiles]
         /\ puts \in 0 .. MaxPuts
         /\ pc \in [Builders -> {"idle", "list", "read", "bootstrap", "store"}]
         /\ asked \in [Builders -> Subjects]
         /\ seen \in [Builders -> SUBSET Tags]
         /\ held \in [Builders -> Positive]
         /\ vectors \subseteq [subject : Subjects, asked : Subjects, tags : Profiles]
         /\ everStored \in [Subjects -> SUBSET Profiles]
         /\ overtaken \in SUBSET Subjects
  BY DEF TypeOK, Positive

LEMMA TypeStep ==
  ASSUME PriorsInv, [Next]_vars
  PROVE  TypeOK'
<1> USE Types, EmptyProfile, PositiveAreProfiles, SubjectsAssumption DEF Positive
<1>0. TypeOK /\ StoredPriors
  BY DEF PriorsInv
<1>1. ASSUME NEW t \in Tags, CreateTag(t) PROVE TypeOK'
  BY <1>0, <1>1 DEF CreateTag, TypeOK, request
<1>2. ASSUME NEW s \in Subjects, NEW tags \in Payloads, UpdateSubjectTags(s, tags) PROVE TypeOK'
  <2>1. tags \in Profiles
    BY PayloadsAssumption
  <2>2. NormalizePriors(tags) \in Profiles /\ DecodePriors(NormalizePriors(tags)) \in Profiles
    BY <2>1, NormalizedProfile, DecodedProfile
  <2>3. puts' \in 0 .. MaxPuts
    BY <1>0, <1>2, PriorBoundsAssumption DEF UpdateSubjectTags
  <2>4. /\ profile' \in [Subjects -> Profiles]
        /\ put' \in [Subjects -> Profiles]
        /\ everStored' \in [Subjects -> SUBSET Profiles]
    BY <1>0, <1>2, <2>2 DEF UpdateSubjectTags
  <2> QED BY <1>0, <1>2, <2>3, <2>4 DEF UpdateSubjectTags, TypeOK, request
<1>3. ASSUME NEW b \in Builders, NEW s \in Subjects, Receive(b, s) PROVE TypeOK'
  BY <1>0, <1>3 DEF Receive, TypeOK
<1>4. ASSUME NEW b \in Builders, ListTags(b) PROVE TypeOK'
  BY <1>0, <1>4 DEF ListTags, TypeOK
<1>5. ASSUME NEW b \in Builders, GetProfile(b) PROVE TypeOK'
  <2>1. Read(Subject(b)) \in Positive
    BY <1>0, ReadIsPositive DEF Subject
  <2>2. held' \in [Builders -> Positive]
    BY <1>0, <1>5, <2>1 DEF GetProfile
  <2>3. pc' \in [Builders -> {"idle", "list", "read", "bootstrap", "store"}]
    BY <1>0, <1>5 DEF GetProfile
  <2> QED BY <1>0, <1>5, <2>2, <2>3 DEF GetProfile, TypeOK
<1>6. ASSUME NEW b \in Builders, Bootstrap(b) PROVE TypeOK'
  <2>1. Neutral(seen[b]) \in Positive
    BY <1>0, NeutralProfile
  <2>2. /\ profile' \in [Subjects -> Profiles]
        /\ everStored' \in [Subjects -> SUBSET Profiles]
    BY <1>0, <1>6, <2>1 DEF Bootstrap, Subject
  <2>3. held' \in [Builders -> Positive]
    BY <1>0, <1>6, <2>1 DEF Bootstrap
  <2>4. overtaken' \subseteq Subjects
    BY <1>0, <1>6 DEF Bootstrap, Subject
  <2> QED BY <1>0, <1>6, <2>2, <2>3, <2>4 DEF Bootstrap, TypeOK
<1>7. ASSUME NEW b \in Builders, StoreVector(b) PROVE TypeOK'
  <2>1. held[b] \in Profiles /\ asked[b] \in Subjects
    BY <1>0
  <2>2. vectors' \subseteq [subject : Subjects, asked : Subjects, tags : Profiles]
    BY <1>0, <1>7, <2>1 DEF StoreVector, Subject
  <2> QED BY <1>0, <1>7, <2>2 DEF StoreVector, Finish, TypeOK
<1>8. ASSUME NEW b \in Builders, Abandon(b) PROVE TypeOK'
  BY <1>0, <1>8 DEF Abandon, Finish, TypeOK
<1>9. CASE UNCHANGED vars
  BY <1>0, <1>9 DEF TypeOK, vars, request
<1> QED BY <1>1, <1>2, <1>3, <1>4, <1>5, <1>6, <1>7, <1>8, <1>9 DEF Next, Build

\* Only a PUT and a bootstrap write a profile.
LEMMA ProfileWriters ==
  ASSUME [Next]_vars
  PROVE  \/ \E s \in Subjects, tags \in Payloads : UpdateSubjectTags(s, tags)
         \/ \E b \in Builders : Bootstrap(b)
         \/ UNCHANGED <<profile, put, puts, everStored, overtaken>>
  BY DEF Next, Build, vars, CreateTag, Receive, ListTags, GetProfile, StoreVector, Abandon

LEMMA StoredPriorsStep ==
  ASSUME PriorsInv, [Next]_vars
  PROVE  StoredPriors'
<1>0. TypeOK /\ StoredPriors
  BY DEF PriorsInv
<1>1. ASSUME NEW s \in Subjects, NEW tags \in Payloads, UpdateSubjectTags(s, tags)
      PROVE  StoredPriors'
  <2>1. profile' = [profile EXCEPT ![s] = NormalizePriors(tags)]
    BY <1>1 DEF UpdateSubjectTags
  <2>2. \A t \in DOMAIN NormalizePriors(tags) : NormalizePriors(tags)[t] >= 0
    BY NormalizedProfile, PayloadsAssumption
  <2> QED BY <1>0, <2>1, <2>2, Types DEF StoredPriors
<1>2. ASSUME NEW b \in Builders, Bootstrap(b) PROVE StoredPriors'
  <2>1. profile' = [profile EXCEPT ![Subject(b)] = Neutral(seen[b])]
    BY <1>2 DEF Bootstrap
  <2>2. \A t \in DOMAIN Neutral(seen[b]) : Neutral(seen[b])[t] >= 0
    BY <1>0, NeutralProfile, Types
  <2> QED BY <1>0, <2>1, <2>2, Types DEF StoredPriors
<1>3. CASE UNCHANGED <<profile, put, puts, everStored, overtaken>>
  BY <1>0, <1>3 DEF StoredPriors
<1> QED BY <1>1, <1>2, <1>3, ProfileWriters

\* The history only grows.
LEMMA HistoryGrows ==
  ASSUME PriorsInv, [Next]_vars, NEW s \in Subjects
  PROVE  everStored[s] \subseteq everStored'[s]
<1>1. TypeOK
  BY DEF PriorsInv
<1> QED BY <1>1, Types, ProfileWriters DEF UpdateSubjectTags, Bootstrap

LEMMA HistoryStep ==
  ASSUME PriorsInv, [Next]_vars
  PROVE  HistoryIsComplete'
<1>0. TypeOK /\ StoredPriors /\ HistoryIsComplete
  BY DEF PriorsInv
<1>1. ASSUME NEW s \in Subjects PROVE Read(s)' \in everStored'[s]
  <2>1. ASSUME NEW u \in Subjects, NEW tags \in Payloads, UpdateSubjectTags(u, tags)
        PROVE  Read(s)' \in everStored'[s]
    BY <1>0, <2>1, Types DEF UpdateSubjectTags, HistoryIsComplete, Read
  <2>2. ASSUME NEW b \in Builders, Bootstrap(b)
        PROVE  Read(s)' \in everStored'[s]
    <3>1. DecodePriors(Neutral(seen[b])) = Neutral(seen[b])
      BY <1>0, NeutralProfile, Types
    <3> QED BY <1>0, <2>2, <3>1, Types DEF Bootstrap, HistoryIsComplete, Read
  <2>3. CASE UNCHANGED <<profile, put, puts, everStored, overtaken>>
    BY <1>0, <2>3 DEF HistoryIsComplete, Read
  <2> QED BY <2>1, <2>2, <2>3, ProfileWriters
<1>2. ASSUME NEW b \in Builders, pc'[b] = "store" PROVE held'[b] \in everStored'[Subject(b)]
  <2> DEFINE Good == held'[b] \in everStored'[Subject(b)]
  <2>0. everStored[Subject(b)] \subseteq everStored'[Subject(b)]
    BY HistoryGrows, SubjectsAssumption DEF Subject
  <2>1. ASSUME pc'[b] = pc[b], held'[b] = held[b] PROVE Good
    BY <1>0, <1>2, <2>0, <2>1 DEF HistoryIsComplete
  <2>2. ASSUME NEW t \in Tags, CreateTag(t) PROVE Good
    BY <2>1, <2>2 DEF CreateTag, request
  <2>3. ASSUME NEW s \in Subjects, NEW tags \in Payloads, UpdateSubjectTags(s, tags) PROVE Good
    BY <2>1, <2>3 DEF UpdateSubjectTags, request
  <2>4. ASSUME NEW c \in Builders, GetProfile(c) PROVE Good
    <3>1. CASE c = b
      <4>1. held'[b] = Read(Subject(b))
        BY <1>0, <2>4, <3>1, Types DEF GetProfile
      <4> QED BY <1>0, <2>0, <4>1, SubjectsAssumption DEF HistoryIsComplete, Subject
    <3>2. CASE c # b
      BY <1>0, <2>1, <2>4, <3>2, Types DEF GetProfile
    <3> QED BY <3>1, <3>2
  <2>5. ASSUME NEW c \in Builders, Bootstrap(c) PROVE Good
    <3>1. CASE c = b
      BY <1>0, <2>5, <3>1, Types, SubjectsAssumption DEF Bootstrap, Subject
    <3>2. CASE c # b
      BY <1>0, <2>1, <2>5, <3>2, Types DEF Bootstrap
    <3> QED BY <3>1, <3>2
  <2>6. ASSUME NEW c \in Builders,
               (\E s \in Subjects : Receive(c, s)) \/ ListTags(c) \/ StoreVector(c) \/ Abandon(c)
        PROVE  Good
    <3>1. c # b
      BY <1>0, <1>2, <2>6, Types DEF Receive, ListTags, StoreVector, Abandon, Finish
    <3> QED BY <1>0, <2>1, <2>6, <3>1, Types DEF Receive, ListTags, StoreVector, Abandon, Finish
  <2>7. CASE UNCHANGED vars
    BY <2>1, <2>7 DEF vars, request
  <2> QED BY <2>2, <2>3, <2>4, <2>5, <2>6, <2>7 DEF Next, Build
<1> QED BY <1>1, <1>2 DEF HistoryIsComplete, Subject

LEMMA BootstrapStep ==
  ASSUME PriorsInv, [Next]_vars
  PROVE  BootstrapFoundEmpty'
<1>0. TypeOK /\ BootstrapFoundEmpty
  BY DEF PriorsInv
<1> USE Types
<1>1. ASSUME NEW t \in Tags, CreateTag(t) PROVE BootstrapFoundEmpty'
  BY <1>0, <1>1 DEF CreateTag, request, BootstrapFoundEmpty
<1>2. ASSUME NEW s \in Subjects, NEW tags \in Payloads, UpdateSubjectTags(s, tags)
      PROVE  BootstrapFoundEmpty'
  BY <1>0, <1>2 DEF UpdateSubjectTags, request, BootstrapFoundEmpty
<1>3. ASSUME NEW b \in Builders,
             (\E s \in Subjects : Receive(b, s)) \/ ListTags(b)
      PROVE  BootstrapFoundEmpty'
  BY <1>0, <1>3 DEF Receive, ListTags, BootstrapFoundEmpty
<1>4. ASSUME NEW b \in Builders, GetProfile(b) PROVE BootstrapFoundEmpty'
  BY <1>0, <1>4 DEF GetProfile, BootstrapFoundEmpty
<1>5. ASSUME NEW b \in Builders, Bootstrap(b) PROVE BootstrapFoundEmpty'
  BY <1>0, <1>5 DEF Bootstrap, BootstrapFoundEmpty
<1>6. ASSUME NEW b \in Builders, StoreVector(b) \/ Abandon(b) PROVE BootstrapFoundEmpty'
  BY <1>0, <1>6 DEF StoreVector, Abandon, Finish, BootstrapFoundEmpty
<1>7. CASE UNCHANGED vars
  BY <1>0, <1>7 DEF vars, request, BootstrapFoundEmpty
<1> QED BY <1>1, <1>2, <1>3, <1>4, <1>5, <1>6, <1>7 DEF Next, Build

LEMMA VectorStep ==
  ASSUME PriorsInv, [Next]_vars
  PROVE  VectorFromStoredProfile'
<1>0. TypeOK /\ HistoryIsComplete /\ VectorFromStoredProfile
  BY DEF PriorsInv
<1>1. SUFFICES ASSUME NEW v \in vectors' PROVE v.tags \in everStored'[v.subject]
  BY DEF VectorFromStoredProfile
<1>2. CASE v \in vectors
  <2>1. v.subject \in Subjects /\ v.tags \in everStored[v.subject]
    BY <1>0, <1>2, Types DEF VectorFromStoredProfile
  <2> QED BY <2>1, HistoryGrows
<1>3. CASE v \notin vectors
  <2>1. PICK b \in Builders : StoreVector(b)
    BY <1>3 DEF Next, Build, vars, CreateTag, UpdateSubjectTags, Receive, ListTags,
                GetProfile, Bootstrap, Abandon
  <2>2. /\ v.tags = held[b] /\ v.subject = Subject(b)
        /\ pc[b] = "store" /\ everStored' = everStored
    BY <1>3, <2>1 DEF StoreVector
  <2> QED BY <1>0, <2>2 DEF HistoryIsComplete
<1> QED BY <1>2, <1>3

\* The inductive invariant holds in every reachable state.
THEOREM PriorsInvariant == Spec => []PriorsInv
<1>1. PriorsInv /\ [Next]_vars => PriorsInv'
  <2> SUFFICES ASSUME PriorsInv, [Next]_vars PROVE PriorsInv'
    OBVIOUS
  <2> QED BY TypeStep, StoredPriorsStep, HistoryStep, BootstrapStep, VectorStep DEF PriorsInv
<1> QED BY InitPriors, <1>1, PTL DEF Spec

\* A vector is built from priors that were stored for its subject.
THEOREM VectorsFromStoredProfiles == Spec => []VectorFromStoredProfile
<1>1. PriorsInv => VectorFromStoredProfile
  BY DEF PriorsInv
<1> QED BY <1>1, PriorsInvariant, PTL

\* Only a PUT, or a thread that had found the subject empty, replaces a profile.
THEOREM ProfilesReplacedLateOnly == Spec => OnlyLateBootstrapReplaces
<1>1. PriorsInv /\ [Next]_vars =>
        [\A s \in Subjects :
           Listed(profile[s]) /\ profile'[s] # profile[s] =>
             \/ puts' = puts + 1
             \/ \E b \in Builders : pc[b] = "bootstrap" /\ ~Listed(held[b])]_vars
  BY ProfileWriters DEF PriorsInv, BootstrapFoundEmpty, UpdateSubjectTags, Bootstrap
<1> QED BY <1>1, PriorsInvariant, PTL DEF Spec, OnlyLateBootstrapReplaces

\* Only a PUT empties a filled profile.
THEOREM ProfilesEmptiedByPut == Spec => OnlyPutEmpties
<1>1. ASSUME PriorsInv, [Next]_vars, NEW s \in Subjects, Listed(profile[s]), ~Listed(profile'[s])
      PROVE  puts' = puts + 1
  <2>1. TypeOK /\ BootstrapFoundEmpty
    BY <1>1 DEF PriorsInv
  <2>2. ASSUME NEW b \in Builders, Bootstrap(b) PROVE FALSE
    <3>1. DOMAIN Neutral(seen[b]) # {}
      BY <2>1, <2>2, NeutralProfile, Types DEF Bootstrap, BootstrapFoundEmpty
    <3> QED BY <1>1, <2>1, <2>2, <3>1, Types DEF Bootstrap, Listed
  <2> QED BY <1>1, <2>2, ProfileWriters DEF UpdateSubjectTags
<1>2. PriorsInv /\ [Next]_vars =>
        [\A s \in Subjects :
           Listed(profile[s]) /\ ~Listed(profile'[s]) => puts' = puts + 1]_vars
  BY <1>1
<1> QED BY <1>2, PriorsInvariant, PTL DEF Spec, OnlyPutEmpties

\* A lost PUT was replaced by a bootstrap decided before it, or held a 0.
THEOREM LostPutsExplained == Spec => []LostPutHasCause
<1>1. ASSUME Init PROVE LostPutHasCause
  BY <1>1, EmptyProfile DEF Init, LostPutHasCause
<1>2. ASSUME PriorsInv, LostPutHasCause, [Next]_vars PROVE LostPutHasCause'
  <2>0. TypeOK
    BY <1>2 DEF PriorsInv
  <2>1. ASSUME NEW s \in Subjects, NEW tags \in Payloads, UpdateSubjectTags(s, tags)
        PROVE  LostPutHasCause'
    <3> DEFINE n == NormalizePriors(tags)
    <3>1. n \in Profiles /\ \A t \in DOMAIN n : n[t] >= 0
      BY NormalizedProfile, PayloadsAssumption
    <3>2. (\A t \in DOMAIN n : n[t] # 0) => DecodePriors(n) = n
      BY <3>1, DecodedProfile
    <3>3. /\ put' = [put EXCEPT ![s] = n] /\ profile' = [profile EXCEPT ![s] = n]
          /\ overtaken' = overtaken \ {s}
      BY <2>1 DEF UpdateSubjectTags
    <3> HIDE DEF n
    <3> SUFFICES ASSUME NEW u \in Subjects, Listed(put'[u])
                 PROVE  \/ DecodePriors(profile'[u]) = put'[u]
                        \/ u \in overtaken'
                        \/ \E t \in DOMAIN put'[u] : put'[u][t] = 0
      BY DEF LostPutHasCause, Read, Listed
    <3>4. CASE u = s
      BY <2>0, <3>2, <3>3, <3>4, Types
    <3>5. CASE u # s
      <4>1. put'[u] = put[u] /\ profile'[u] = profile[u] /\ (u \in overtaken => u \in overtaken')
        BY <2>0, <3>3, <3>5, Types
      <4> QED BY <1>2, <4>1 DEF LostPutHasCause, Read
    <3> QED BY <3>4, <3>5
  <2>2. ASSUME NEW b \in Builders, Bootstrap(b) PROVE LostPutHasCause'
    BY <1>2, <2>0, <2>2, Types DEF Bootstrap, LostPutHasCause, Read
  <2>3. CASE UNCHANGED <<profile, put, puts, everStored, overtaken>>
    BY <1>2, <2>3 DEF LostPutHasCause, Read
  <2> QED BY <1>2, <2>1, <2>2, <2>3, ProfileWriters
<1> QED BY <1>1, <1>2, PriorsInvariant, PTL DEF Spec

-----------------------------------------------------------------------------
(* Sequences. *)

LEMMA SeqFacts ==
  ASSUME NEW S, NEW s \in Seq(S)
  PROVE  Len(s) \in Nat /\ DOMAIN s = 1 .. Len(s) /\ \A i \in DOMAIN s : s[i] \in S
  OBVIOUS

LEMMA FunctionIsSeq ==
  ASSUME NEW S, NEW n \in Nat, NEW f \in [1 .. n -> S]
  PROVE  f \in Seq(S) /\ Len(f) = n /\ DOMAIN f = 1 .. n
  OBVIOUS

LEMMA SeqOfMore ==
  ASSUME NEW S, NEW T, S \subseteq T, NEW s \in Seq(S)
  PROVE  s \in Seq(T)
<1>1. Len(s) \in Nat /\ s \in [1 .. Len(s) -> S]
  OBVIOUS
<1>2. s \in [1 .. Len(s) -> T]
  BY <1>1
<1> QED BY <1>1, <1>2, FunctionIsSeq

LEMMA AppendFacts ==
  ASSUME NEW S, NEW s \in Seq(S), NEW e \in S
  PROVE  /\ Append(s, e) \in Seq(S) /\ Len(Append(s, e)) = Len(s) + 1
         /\ DOMAIN Append(s, e) = 1 .. Len(s) + 1
         /\ \A i \in 1 .. Len(s) : Append(s, e)[i] = s[i]
         /\ Append(s, e)[Len(s) + 1] = e
<1>1. Append(s, e) \in Seq(S) /\ Len(Append(s, e)) = Len(s) + 1
  OBVIOUS
<1>2. DOMAIN Append(s, e) = 1 .. Len(s) + 1
  BY <1>1, SeqFacts
<1> QED BY <1>1, <1>2

Elements(s) == {s[k] : k \in DOMAIN s}
Single(s) == \A k, l \in DOMAIN s : k # l => s[k] # s[l]

LEMMA AppendElements ==
  ASSUME NEW S, NEW s \in Seq(S), NEW e \in S
  PROVE  /\ Elements(Append(s, e)) = Elements(s) \cup {e}
         /\ Single(s) /\ e \notin Elements(s) => Single(Append(s, e))
<1>1. /\ Len(s) \in Nat /\ DOMAIN s = 1 .. Len(s)
      /\ DOMAIN Append(s, e) = 1 .. Len(s) + 1
      /\ \A i \in 1 .. Len(s) : Append(s, e)[i] = s[i]
      /\ Append(s, e)[Len(s) + 1] = e
  BY SeqFacts, AppendFacts
<1> DEFINE t == Append(s, e)
           n == Len(s)
<1> HIDE DEF t, n
<1>2. /\ n \in Nat /\ DOMAIN s = 1 .. n /\ DOMAIN t = 1 .. n + 1
      /\ (\A i \in 1 .. n : t[i] = s[i]) /\ t[n + 1] = e
  BY <1>1 DEF t, n
<1>3. \A i \in 1 .. n + 1 : i \in 1 .. n \/ i = n + 1
  BY <1>2
<1>4. 1 .. n \subseteq 1 .. n + 1 /\ n + 1 \in 1 .. n + 1
  BY <1>2
<1>5. Elements(t) = Elements(s) \cup {e}
  BY <1>2, <1>3, <1>4 DEF Elements
<1>6. ASSUME Single(s), e \notin Elements(s) PROVE Single(t)
  <2>1. \A i \in 1 .. n : t[i] # e
    BY <1>2, <1>6 DEF Elements
  <2>2. \A k, l \in 1 .. n : k # l => t[k] # t[l]
    BY <1>2, <1>6 DEF Single
  <2> QED BY <1>2, <1>3, <2>1, <2>2 DEF Single
<1> QED BY <1>5, <1>6 DEF t

\* A sequence without repetition is as long as the set of its elements is large.
LEMMA SingleLength ==
  ASSUME NEW S, NEW s \in Seq(S), Single(s)
  PROVE  IsFiniteSet(Elements(s)) /\ Cardinality(Elements(s)) = Len(s)
<1> DEFINE D == 1 .. Len(s)
           f == [k \in D |-> s[k]]
<1>1. Len(s) \in Nat /\ DOMAIN s = D
  BY SeqFacts
<1>2. IsFiniteSet(D) /\ Cardinality(D) = Len(s)
  <2>1. /\ IsFiniteSet(1 .. Len(s))
        /\ Cardinality(1 .. Len(s)) = IF 1 > Len(s) THEN 0 ELSE Len(s) - 1 + 1
    <3>1. Len(s) \in Int /\ 1 \in Int
      BY <1>1
    <3> QED BY ONLY <3>1, FS_Interval
  <2> QED BY ONLY <1>1, <2>1 DEF D
<1>3. f \in [D -> Elements(s)] /\ \A y \in Elements(s) : \E k \in D : f[k] = y
  BY <1>1 DEF Elements
<1>4. \A k, l \in D : f[k] = f[l] => k = l
  BY <1>1 DEF Single
<1> HIDE DEF D, f
<1>5. f \in Bijection(D, Elements(s))
  BY <1>3, <1>4, Fun_IsBij
<1>6. ExistsBijection(D, Elements(s))
  BY <1>5 DEF ExistsBijection
<1> QED BY <1>2, <1>6, FS_Bijection

-----------------------------------------------------------------------------
(* The loops that keep some elements of a sequence. *)

KeptUpTo(s, S) ==
  LET kept[k \in 0 .. Len(s)] ==
        IF k = 0 THEN <<>> ELSE IF s[k] \in S THEN Append(kept[k - 1], s[k]) ELSE kept[k - 1]
  IN  kept

LEMMA KeptStep ==
  ASSUME NEW T, NEW s \in Seq(T), NEW S
  PROVE  /\ Kept(s, S, 0) = <<>>
         /\ \A i \in 0 .. Len(s) - 1 :
              Kept(s, S, i + 1) = IF s[i + 1] \in S THEN Append(Kept(s, S, i), s[i + 1])
                                                    ELSE Kept(s, S, i)
<1> DEFINE f == KeptUpTo(s, S)
<1>1. FiniteNatInductiveDefHypothesis(f, <<>>,
        LAMBDA v, i : IF s[i] \in S THEN Append(v, s[i]) ELSE v, 0, Len(s))
  BY DEF FiniteNatInductiveDefHypothesis, KeptUpTo
<1>2. 0 \in Nat /\ Len(s) \in Nat
  OBVIOUS
<1>3. \A i : Kept(s, S, i) = f[i]
  BY DEF Kept, KeptUpTo
<1> HIDE DEF f
<1>4. FiniteNatInductiveDefConclusion(f, <<>>,
        LAMBDA v, i : IF s[i] \in S THEN Append(v, s[i]) ELSE v, 0, Len(s))
  BY ONLY <1>1, <1>2, FiniteNatInductiveDef, Zenon
<1>5. f = [i \in 0 .. Len(s) |->
             IF i = 0 THEN <<>> ELSE IF s[i] \in S THEN Append(f[i - 1], s[i]) ELSE f[i - 1]]
  BY <1>4 DEF FiniteNatInductiveDefConclusion
<1>6. f[0] = <<>>
  BY <1>2, <1>5
<1>7. ASSUME NEW i \in 0 .. Len(s) - 1
      PROVE  f[i + 1] = IF s[i + 1] \in S THEN Append(f[i], s[i + 1]) ELSE f[i]
  <2>1. i + 1 \in 0 .. Len(s) /\ i + 1 # 0 /\ (i + 1) - 1 = i
    BY <1>2
  <2> QED BY <1>5, <2>1
<1> QED BY <1>3, <1>6, <1>7

LEMMA SmallestElement ==
  ASSUME NEW S, S \subseteq Nat, S # {}
  PROVE  \E x \in S : \A y \in S : x <= y
<1>1. PICK x \in S : \A y \in S : ~(<<y, x>> \in OpToRel(<, Nat))
  BY NatLessThanWellFounded, WFMin
<1>2. \A y \in S : ~(y < x)
  BY <1>1 DEF OpToRel
<1> QED BY <1>2

\* What holds of no elements and of one more holds of all.
LEMMA UpToInduction ==
  ASSUME NEW n \in Nat, NEW S, 0 \in S, \A i \in 0 .. n - 1 : i \in S => i + 1 \in S
  PROVE  0 .. n \subseteq S
<1> DEFINE T == 0 .. n \ S
<1> SUFFICES ASSUME T # {} PROVE FALSE
  OBVIOUS
<1>1. T \subseteq Nat
  OBVIOUS
<1>2. PICK x \in T : \A y \in T : x <= y
  <2> HIDE DEF T
  <2> QED BY <1>1, SmallestElement
<1>3. x - 1 \in 0 .. n - 1 /\ x - 1 \in S
  BY <1>2
<1>4. (x - 1) + 1 \in S
  BY <1>3
<1>5. (x - 1) + 1 = x
  OBVIOUS
<1> QED BY <1>4, <1>5

\* The loop keeps the elements in S of a sequence without repetition, once each.
LEMMA AmongFacts ==
  ASSUME NEW T, NEW s \in Seq(T), Single(s), NEW S
  PROVE  /\ Among(s, S) \in Seq(T)
         /\ Elements(Among(s, S)) = Elements(s) \cap S
         /\ Single(Among(s, S))
<1> DEFINE n == Len(s)
           First(i) == {s[k] : k \in 1 .. i}
           Good(i) == /\ Kept(s, S, i) \in Seq(T)
                      /\ Elements(Kept(s, S, i)) = First(i) \cap S
                      /\ Single(Kept(s, S, i))
           G == {i \in 0 .. n : Good(i)}
<1>0. n \in Nat /\ DOMAIN s = 1 .. n /\ \A k \in 1 .. n : s[k] \in T
  BY SeqFacts
<1>1. 0 \in G
  <2>1. Kept(s, S, 0) = <<>>
    BY KeptStep
  <2>2. First(0) = {} /\ Elements(<<>>) = {} /\ Single(<<>>) /\ <<>> \in Seq(T)
    BY DEF Elements, Single
  <2>3. Good(0)
    <3> HIDE DEF First
    <3> QED BY <2>1, <2>2
  <2> QED BY <1>0, <2>3
<1>2. ASSUME NEW i \in 0 .. n - 1, i \in G PROVE i + 1 \in G
  <2> DEFINE kept == Kept(s, S, i)
             e == s[i + 1]
  <2>1. Good(i) /\ i \in Nat /\ i + 1 \in 1 .. n /\ i + 1 \in 0 .. n
    BY <1>0, <1>2
  <2>2. First(i + 1) = First(i) \cup {e}
    <3>1. \A k \in 1 .. i + 1 : k \in 1 .. i \/ k = i + 1
      BY <2>1
    <3>2. 1 .. i \subseteq 1 .. i + 1 /\ i + 1 \in 1 .. i + 1
      BY <2>1
    <3> QED BY <3>1, <3>2
  <2>3. e \notin First(i) /\ e \in T
    <3>1. \A k \in 1 .. i : k \in 1 .. n /\ k # i + 1
      BY <1>0, <2>1
    <3> QED BY <1>0, <2>1, <3>1 DEF Single
  <2>4. CASE e \in S
    <3>1. Kept(s, S, i + 1) = Append(kept, e)
      BY <1>2, <2>4, KeptStep
    <3> HIDE DEF kept, e, First
    <3>2. kept \in Seq(T) /\ Elements(kept) = First(i) \cap S /\ Single(kept)
      BY <2>1 DEF kept
    <3>3. /\ Append(kept, e) \in Seq(T)
          /\ Elements(Append(kept, e)) = Elements(kept) \cup {e}
          /\ Single(Append(kept, e))
      BY <2>3, <3>2, AppendFacts, AppendElements
    <3>4. Elements(Append(kept, e)) = First(i + 1) \cap S
      BY <2>2, <2>4, <3>2, <3>3
    <3> QED BY <2>1, <3>1, <3>3, <3>4
  <2>5. CASE e \notin S
    <3>1. Kept(s, S, i + 1) = kept
      BY <1>2, <2>5, KeptStep
    <3> HIDE DEF kept, e, First
    <3> QED BY <2>1, <2>2, <2>5, <3>1 DEF kept
  <2> QED BY <2>4, <2>5
<1>3. 0 .. n \subseteq G
  <2> HIDE DEF G, n
  <2> QED BY <1>0, <1>1, <1>2, UpToInduction
<1>4. Good(n)
  BY <1>0, <1>3
<1>5. First(n) = Elements(s)
  BY <1>0 DEF Elements
<1> QED BY <1>4, <1>5 DEF Among

-----------------------------------------------------------------------------
(* Picked tasks. *)

LEMMA WorkbookTypes ==
  ASSUME WorkbookTypeOK
  PROVE  /\ Len(ranked) \in Nat /\ Tasks = 1 .. Len(ranked) /\ Len(ranked) <= MaxRanked
         /\ max_tasks \in Nat \ {0} /\ max_theory \in Nat \ {0} /\ next \in Nat \ {0}
         /\ Len(selected) \in Nat /\ DOMAIN selected = 1 .. Len(selected)
         /\ Len(selected) <= max_tasks
         /\ Picked = Elements(selected) /\ Picked \subseteq Tasks /\ IsFiniteSet(Picked)
         /\ Len(candidates) \in Nat /\ DOMAIN candidates = 1 .. Len(candidates)
         /\ \A k \in DOMAIN candidates : candidates[k] \in Theory
         /\ Len(theory) \in Nat /\ DOMAIN theory = 1 .. Len(theory)
         /\ \A k \in DOMAIN theory : theory[k] \in Theory
         /\ Len(items) \in Nat /\ DOMAIN items = 1 .. Len(items)
         /\ \A k \in DOMAIN items : items[k] \in Item
<1>1. /\ Len(ranked) \in Nat /\ Tasks = 1 .. Len(ranked) /\ Len(ranked) <= MaxRanked
      /\ max_tasks \in Nat \ {0} /\ max_theory \in Nat \ {0} /\ next \in Nat \ {0}
  BY WorkbookBoundsAssumption, SeqFacts DEF WorkbookTypeOK, Tasks
<1>2. /\ Len(selected) \in Nat /\ DOMAIN selected = 1 .. Len(selected)
      /\ Len(selected) <= max_tasks
      /\ \A k \in DOMAIN selected : selected[k] \in Tasks
  BY SeqFacts DEF WorkbookTypeOK
<1>3. Picked = Elements(selected) /\ Picked \subseteq Tasks
  BY <1>2 DEF Picked, Elements
<1>4. IsFiniteSet(Picked)
  <2>1. IsFiniteSet(Tasks)
    BY <1>1, FS_Interval
  <2> QED BY <1>3, <2>1, FS_Subset
<1>5. /\ Len(candidates) \in Nat /\ DOMAIN candidates = 1 .. Len(candidates)
      /\ \A k \in DOMAIN candidates : candidates[k] \in Theory
      /\ Len(theory) \in Nat /\ DOMAIN theory = 1 .. Len(theory)
      /\ \A k \in DOMAIN theory : theory[k] \in Theory
      /\ Len(items) \in Nat /\ DOMAIN items = 1 .. Len(items)
      /\ \A k \in DOMAIN items : items[k] \in Item
  BY SeqFacts DEF WorkbookTypeOK
<1> QED BY <1>1, <1>2, <1>3, <1>4, <1>5

LEMMA CountFacts ==
  ASSUME WorkbookTypeOK
  PROVE  \A t : /\ PickedWith(t) \in Nat
                /\ \A i \in Tasks : EarlierWith(t, i) \in Nat /\ EarlierWith(t, i) <= PickedWith(t)
                /\ \A i, j \in Tasks : j <= i => EarlierWith(t, j) <= EarlierWith(t, i)
                /\ \A i \in Tasks :
                     (\A j \in Picked : j < i) => EarlierWith(t, i) = PickedWith(t)
<1> TAKE t
<1> DEFINE All == {j \in Picked : Primary(j) = {t}}
           Upto(i) == {j \in Picked : Primary(j) = {t} /\ j < i}
<1>1. /\ Tasks = 1 .. Len(ranked) /\ Len(ranked) \in Nat
      /\ Picked \subseteq Tasks /\ IsFiniteSet(Picked)
  BY WorkbookTypes
<1>2. IsFiniteSet(All) /\ Cardinality(All) \in Nat
  <2>1. All \in SUBSET Picked
    OBVIOUS
  <2> HIDE DEF All
  <2> QED BY <1>1, <2>1, FS_Subset, FS_CardinalityType
<1>3. ASSUME NEW i \in Tasks
      PROVE  Upto(i) \in SUBSET All /\ IsFiniteSet(Upto(i)) /\ Cardinality(Upto(i)) \in Nat
             /\ Cardinality(Upto(i)) <= Cardinality(All)
  <2>1. Upto(i) \in SUBSET All
    OBVIOUS
  <2> HIDE DEF All, Upto
  <2> QED BY <1>2, <2>1, FS_Subset, FS_CardinalityType
<1>4. ASSUME NEW i \in Tasks, NEW j \in Tasks, j <= i
      PROVE  Cardinality(Upto(j)) <= Cardinality(Upto(i))
  <2>0. \A k \in Picked : k < j => k < i
    <3>1. i \in Nat /\ j \in Nat /\ Picked \subseteq Nat
      BY <1>1
    <3> QED BY <1>4, <3>1
  <2>1. Upto(j) \in SUBSET Upto(i)
    BY <2>0
  <2> HIDE DEF All, Upto
  <2> QED BY <1>3, <2>1, FS_Subset
<1>5. ASSUME NEW i \in Tasks, \A j \in Picked : j < i
      PROVE  Cardinality(Upto(i)) = Cardinality(All)
  <2>1. Upto(i) = All
    BY <1>5
  <2> QED BY <2>1
<1>6. PickedWith(t) = Cardinality(All) /\ \A i : EarlierWith(t, i) = Cardinality(Upto(i))
  BY DEF PickedWith, EarlierWith
<1> HIDE DEF All, Upto
<1> QED BY <1>2, <1>3, <1>4, <1>5, <1>6

\* A further task is picked.
LEMMA PickFacts ==
  ASSUME WorkbookTypeOK, NEW i \in Tasks, Pick(i), ranked' = ranked
  PROVE  /\ Picked' = Picked \cup {i}
         /\ Single(selected) /\ i \notin Picked => Single(selected')
         /\ selected' \in Seq(Tasks) /\ Len(selected') = Len(selected) + 1
         /\ \A k \in 1 .. Len(selected) : selected'[k] = selected[k]
         /\ selected'[Len(selected) + 1] = i
         /\ \A t : PickedWith(t)' \in Nat /\ PickedWith(t)' >= PickedWith(t)
<1>1. selected \in Seq(Tasks) /\ Picked = Elements(selected) /\ IsFiniteSet(Picked)
      /\ selected' = Append(selected, i)
  BY WorkbookTypes DEF WorkbookTypeOK, Pick
<1>2. Elements(selected') = Elements(selected) \cup {i}
      /\ (Single(selected) /\ i \notin Elements(selected) => Single(selected'))
  BY <1>1, AppendElements
<1>3. Picked' = Elements(selected')
  BY DEF Picked, Elements
<1>4. /\ selected' \in Seq(Tasks) /\ Len(selected') = Len(selected) + 1
      /\ \A k \in 1 .. Len(selected) : selected'[k] = selected[k]
      /\ selected'[Len(selected) + 1] = i
  BY <1>1, AppendFacts
<1>5. ASSUME NEW t PROVE PickedWith(t)' \in Nat /\ PickedWith(t)' >= PickedWith(t)
  <2> DEFINE Now == {j \in Picked : Primary(j) = {t}}
             Then == {j \in Picked' : Primary(j)' = {t}}
  <2>1. Picked' = Picked \cup {i} /\ \A j : Primary(j)' = Primary(j)
    BY <1>1, <1>2, <1>3 DEF Primary
  <2>2. Now \in SUBSET Then /\ Then \in SUBSET Picked'
    BY <2>1
  <2>3. PickedWith(t) = Cardinality(Now) /\ PickedWith(t)' = Cardinality(Then)
    BY DEF PickedWith
  <2>4. IsFiniteSet(Picked')
    BY <1>1, <2>1, FS_AddElement
  <2> HIDE DEF Now, Then
  <2>5. IsFiniteSet(Then)
    BY <2>2, <2>4, FS_Subset
  <2>6. Cardinality(Now) <= Cardinality(Then) /\ Cardinality(Then) \in Nat /\ Cardinality(Now) \in Nat
    BY <2>2, <2>5, FS_Subset, FS_CardinalityType
  <2> QED BY <2>3, <2>6
<1> QED BY <1>1, <1>2, <1>3, <1>4, <1>5

-----------------------------------------------------------------------------
(* The loops of _select_tasks keep the best tasks of a topic. *)

LEMMA SpreadStep ==
  ASSUME WorkbookTypeOK, LoopsInTurn, PicksByRank, Spread
  PROVE  PicksByRank'
<1>0. /\ stage = "spread" /\ stage' = "spread" /\ next \in Tasks /\ ~Full /\ next' = next + 1
      /\ ranked' = ranked /\ max_tasks' = max_tasks
  BY DEF Spread, input
<1>1. /\ Tasks = 1 .. Len(ranked) /\ Len(ranked) \in Nat /\ next \in Nat \ {0} /\ next <= Len(ranked)
      /\ Picked \subseteq Tasks /\ Len(selected) \in Nat /\ Len(selected) < max_tasks
      /\ max_tasks \in Nat \ {0}
  BY <1>0, WorkbookTypes DEF Full
<1>2. /\ Single(selected)
      /\ \A i \in Picked : i < next
      /\ \A i \in 1 .. next - 1 : i \in Picked \/ QuotaWasFull(i)
      /\ OverQuota = {}
  BY <1>0 DEF PicksByRank, Single, PickedLast
<1>3. next \notin Picked
  BY <1>1, <1>2
<1>4. \A i : Primary(i)' = Primary(i)
  BY <1>0 DEF Primary
<1>5. \A t : EarlierWith(t, next) = PickedWith(t)
  BY <1>0, <1>2, CountFacts
<1>6. CASE Skipped(next)
  <2>1. selected' = selected
    BY <1>0, <1>6 DEF Spread
  <2>2. Picked' = Picked
    BY <2>1 DEF Picked
  <2>3. \A t, i : EarlierWith(t, i)' = EarlierWith(t, i)
    BY <1>4, <2>2 DEF EarlierWith
  <2>4. QuotaWasFull(next)
    BY <1>5, <1>6 DEF Skipped, QuotaWasFull
  <2>5. \A i : QuotaWasFull(i)' <=> QuotaWasFull(i)
    BY <1>4, <2>3 DEF QuotaWasFull
  <2>6. OverQuota' = {}
    BY <1>2, <1>4, <2>2, <2>3 DEF OverQuota
  <2>7. \A i \in Picked' : i < next'
    BY <1>0, <1>1, <1>2, <2>2
  <2>8. \A i \in 1 .. next' - 1 : i \in Picked' \/ QuotaWasFull(i)'
    <3> SUFFICES ASSUME NEW i \in 1 .. next PROVE i \in Picked \/ QuotaWasFull(i)
      BY <1>0, <1>1, <2>2, <2>5
    <3>1. i \in 1 .. next - 1 \/ i = next
      BY <1>1
    <3> QED BY <1>2, <2>4, <3>1
  <2> QED BY <1>0, <1>2, <2>1, <2>6, <2>7, <2>8 DEF PicksByRank, Single
<1>7. CASE ~Skipped(next)
  <2>1. Pick(next)
    BY <1>0, <1>7 DEF Spread
  <2>2. /\ Picked' = Picked \cup {next} /\ Single(selected')
        /\ Len(selected') = Len(selected) + 1 /\ selected'[Len(selected) + 1] = next
    BY <1>0, <1>2, <1>3, <2>1, PickFacts
  <2>3. ASSUME NEW t, NEW i \in 1 .. next
        PROVE  EarlierWith(t, i)' = EarlierWith(t, i)
    <3>1. \A j \in Picked' : j < i => j \in Picked
      BY <1>1, <2>2
    <3>2. {j \in Picked' : Primary(j)' = {t} /\ j < i} = {j \in Picked : Primary(j) = {t} /\ j < i}
      BY <1>4, <2>2, <3>1
    <3> QED BY <3>2 DEF EarlierWith
  <2>4. \A i \in 1 .. next : QuotaWasFull(i)' <=> QuotaWasFull(i)
    BY <1>4, <2>3 DEF QuotaWasFull
  <2>5. \A i \in Picked' : i \in 1 .. next /\ i < next'
    BY <1>0, <1>1, <1>2, <2>2
  <2>6. ASSUME NEW i \in OverQuota' PROVE PickedLast(i)'
    <3>1. PICK t \in Primary(i) : EarlierWith(t, i) >= 2
      BY <1>4, <2>3, <2>5 DEF OverQuota
    <3>2. i \in Picked'
      BY DEF OverQuota
    <3>3. i \notin Picked
      BY <1>2, <3>1 DEF OverQuota
    <3>4. i = next
      BY <2>2, <3>2, <3>3
    <3>5. ~(Len(selected) < max_tasks - 1)
      BY <1>5, <1>7, <3>1, <3>4 DEF Skipped
    <3>6. Len(selected) + 1 = max_tasks
      BY <1>1, <3>5
    <3> QED BY <1>0, <2>2, <3>4, <3>6 DEF PickedLast, Full
  <2>7. \A i \in 1 .. next' - 1 : i \in Picked' \/ QuotaWasFull(i)'
    <3> SUFFICES ASSUME NEW i \in 1 .. next PROVE i \in Picked' \/ QuotaWasFull(i)
      BY <1>0, <1>1, <2>4
    <3>1. i \in 1 .. next - 1 \/ i = next
      BY <1>1
    <3> QED BY <1>2, <2>2, <3>1
  <2> QED BY <1>0, <2>2, <2>5, <2>6, <2>7 DEF PicksByRank, Single
<1> QED BY <1>6, <1>7

LEMMA EndSpreadStep ==
  ASSUME WorkbookTypeOK, LoopsInTurn, PicksByRank, EndSpread
  PROVE  PicksByRank'
<1>0. /\ stage = "spread" /\ stage' = (IF Full THEN "rank" ELSE "refill") /\ next' = 1
      /\ ranked' = ranked /\ max_tasks' = max_tasks /\ selected' = selected
      /\ Full \/ next \notin Tasks
  BY DEF EndSpread, input
<1>1. /\ Tasks = 1 .. Len(ranked) /\ Len(ranked) \in Nat /\ next \in Nat \ {0}
      /\ next <= Len(ranked) + 1 /\ Picked \subseteq Tasks
  BY <1>0, WorkbookTypes DEF LoopsInTurn
<1>2. /\ Single(selected)
      /\ \A i \in Picked : i < next
      /\ \A i \in 1 .. next - 1 : i \in Picked \/ QuotaWasFull(i)
      /\ \A i \in OverQuota : PickedLast(i)
  BY <1>0 DEF PicksByRank, Single
<1>3. /\ Tasks' = Tasks /\ Picked' = Picked /\ (Full' <=> Full)
      /\ \A i : Primary(i)' = Primary(i)
      /\ \A i : PickedLast(i)' <=> PickedLast(i)
  BY <1>0 DEF Tasks, Picked, Full, Primary, PickedLast
<1>4. /\ \A t : PickedWith(t)' = PickedWith(t)
      /\ \A t, i : EarlierWith(t, i)' = EarlierWith(t, i)
  BY <1>3 DEF PickedWith, EarlierWith
<1>5. OverQuota' = OverQuota /\ \A i : QuotaIsFull(i)' <=> QuotaIsFull(i)
  BY <1>3, <1>4 DEF OverQuota, QuotaIsFull
<1>6. ASSUME ~Full, NEW i \in Tasks \ Picked PROVE QuotaIsFull(i)
  <2>1. next = Len(ranked) + 1
    BY <1>0, <1>1, <1>6
  <2>2. QuotaWasFull(i)
    BY <1>1, <1>2, <1>6, <2>1
  <2>3. PICK t \in Primary(i) : EarlierWith(t, i) >= 2
    BY <2>2 DEF QuotaWasFull
  <2>4. EarlierWith(t, i) \in Nat /\ PickedWith(t) \in Nat /\ EarlierWith(t, i) <= PickedWith(t)
    BY CountFacts
  <2> QED BY <2>3, <2>4 DEF QuotaIsFull
<1>7. ASSUME NEW i \in Picked, NEW j \in Tasks \ Picked, Primary(i) = Primary(j), ~(i < j)
      PROVE  PickedLast(i)
  <2>1. i \in Tasks /\ i \in Nat /\ j \in Nat \ {0} /\ j <= i /\ j < next
    BY <1>1, <1>2, <1>7
  <2>2. QuotaWasFull(j)
    BY <1>1, <1>2, <2>1
  <2>3. PICK t \in Primary(i) : EarlierWith(t, j) >= 2
    BY <1>7, <2>2 DEF QuotaWasFull
  <2>4. EarlierWith(t, j) \in Nat /\ EarlierWith(t, i) \in Nat /\ EarlierWith(t, j) <= EarlierWith(t, i)
    BY <2>1, CountFacts
  <2>5. i \in OverQuota
    BY <2>3, <2>4 DEF OverQuota
  <2> QED BY <1>2, <2>5
<1>8. \A i \in Picked', j \in Tasks' \ Picked' :
        Primary(i)' = Primary(j)' => i < j \/ PickedLast(i)'
  BY <1>3, <1>7
<1>9. \A i \in OverQuota' : PickedLast(i)'
  BY <1>2, <1>3, <1>5
<1>10. CASE Full
  BY <1>0, <1>2, <1>3, <1>8, <1>9, <1>10 DEF PicksByRank, Single
<1>11. CASE ~Full
  <2>1. \A i \in Tasks' \ Picked' : QuotaIsFull(i)'
    BY <1>3, <1>5, <1>6, <1>11
  <2>2. stage' = "refill" /\ 1 .. next' - 1 = {}
    BY <1>0, <1>11
  <2> QED BY <1>0, <1>2, <1>8, <1>9, <2>1, <2>2 DEF PicksByRank, Single
<1> QED BY <1>10, <1>11

LEMMA RefillStep ==
  ASSUME WorkbookTypeOK, LoopsInTurn, PicksByRank, Refill
  PROVE  PicksByRank'
<1>0. /\ stage = "refill" /\ stage' = "refill" /\ next \in Tasks /\ ~Full /\ next' = next + 1
      /\ ranked' = ranked /\ max_tasks' = max_tasks
  BY DEF Refill, input
<1>1. /\ Tasks = 1 .. Len(ranked) /\ Len(ranked) \in Nat /\ next \in Nat \ {0}
      /\ Picked \subseteq Tasks
  BY WorkbookTypes
<1>2. /\ Single(selected)
      /\ \A i \in 1 .. next - 1 : i \in Picked
      /\ \A i \in Tasks \ Picked : QuotaIsFull(i)
      /\ \A i \in Picked, j \in Tasks \ Picked : Primary(i) = Primary(j) => i < j
  BY <1>0 DEF PicksByRank, Single, PickedLast
<1>3. \A i : Primary(i)' = Primary(i)
  BY <1>0 DEF Primary
<1>4. /\ Picked' = Picked \cup {next} /\ Single(selected')
      /\ \A t : /\ PickedWith(t) \in Nat /\ PickedWith(t)' \in Nat
                /\ PickedWith(t)' >= PickedWith(t)
  <2>1. CASE next \in Picked
    <3>1. selected' = selected
      BY <2>1 DEF Refill
    <3>2. Picked' = Picked
      BY <3>1 DEF Picked
    <3>3. \A t : PickedWith(t)' = PickedWith(t) /\ PickedWith(t) \in Nat
      BY <1>3, <3>2, CountFacts DEF PickedWith
    <3> QED BY <1>2, <2>1, <3>1, <3>2, <3>3
  <2>2. CASE next \notin Picked
    <3>1. Pick(next)
      BY <2>2 DEF Refill
    <3> QED BY <1>0, <1>2, <2>2, <3>1, PickFacts, CountFacts
  <2> QED BY <2>1, <2>2
<1>5. \A i \in 1 .. next' - 1 : i \in Picked'
  <2> SUFFICES ASSUME NEW i \in 1 .. next PROVE i \in Picked'
    BY <1>0, <1>1
  <2>1. i \in 1 .. next - 1 \/ i = next
    BY <1>1
  <2> QED BY <1>2, <1>4, <2>1
<1>6. ASSUME NEW i \in Tasks' \ Picked' PROVE QuotaIsFull(i)'
  <2>1. i \in Tasks \ Picked
    BY <1>0, <1>4 DEF Tasks
  <2>2. PICK t \in Primary(i) : PickedWith(t) >= 2
    BY <1>2, <2>1 DEF QuotaIsFull
  <2>3. PickedWith(t)' >= 2
    BY <1>4, <2>2
  <2> QED BY <1>3, <2>2, <2>3 DEF QuotaIsFull
<1>7. ASSUME NEW i \in Picked', NEW j \in Tasks' \ Picked', Primary(i)' = Primary(j)' PROVE i < j
  <2>1. j \in Tasks \ Picked /\ j # next
    BY <1>0, <1>4 DEF Tasks
  <2>2. CASE i \in Picked
    BY <1>2, <1>3, <1>7, <2>1, <2>2
  <2>3. CASE i = next
    BY <1>1, <1>2, <2>1, <2>3
  <2> QED BY <1>4, <2>2, <2>3
<1> QED BY <1>0, <1>4, <1>5, <1>6, <1>7 DEF PicksByRank, Single

\* Once the tasks are picked, what is said of them stays.
LEMMA PicksKept ==
  ASSUME ranked' = ranked, max_tasks' = max_tasks, selected' = selected,
         Single(selected), stage' \notin {"spread", "refill"},
         (\A i \in OverQuota : PickedLast(i)) \/ (\A i \in Tasks \ Picked : QuotaIsFull(i)),
         \A i \in Picked, j \in Tasks \ Picked : Primary(i) = Primary(j) => i < j \/ PickedLast(i),
         Full \/ Picked = Tasks
  PROVE  PicksByRank'
<1>1. /\ Tasks' = Tasks /\ Picked' = Picked /\ (Full' <=> Full)
      /\ \A i : Primary(i)' = Primary(i)
      /\ \A i : PickedLast(i)' <=> PickedLast(i)
  BY DEF Tasks, Picked, Full, Primary, PickedLast
<1>2. /\ \A t : PickedWith(t)' = PickedWith(t)
      /\ \A t, i : EarlierWith(t, i)' = EarlierWith(t, i)
  BY <1>1 DEF PickedWith, EarlierWith
<1>3. OverQuota' = OverQuota /\ \A i : QuotaIsFull(i)' <=> QuotaIsFull(i)
  BY <1>1, <1>2 DEF OverQuota, QuotaIsFull
<1> QED BY <1>1, <1>3 DEF PicksByRank, Single

LEMMA EndRefillStep ==
  ASSUME WorkbookTypeOK, LoopsInTurn, PicksByRank, EndRefill
  PROVE  PicksByRank'
<1>0. /\ stage = "refill" /\ stage' = "rank"
      /\ ranked' = ranked /\ max_tasks' = max_tasks /\ selected' = selected
      /\ Full \/ next \notin Tasks
  BY DEF EndRefill, input
<1>1. /\ Tasks = 1 .. Len(ranked) /\ Len(ranked) \in Nat /\ next \in Nat \ {0}
      /\ next <= Len(ranked) + 1 /\ Picked \subseteq Tasks
  BY <1>0, WorkbookTypes DEF LoopsInTurn
<1>2. /\ Single(selected)
      /\ \A i \in 1 .. next - 1 : i \in Picked
      /\ (\A i \in OverQuota : PickedLast(i)) \/ (\A i \in Tasks \ Picked : QuotaIsFull(i))
      /\ \A i \in Picked, j \in Tasks \ Picked :
           Primary(i) = Primary(j) => i < j \/ PickedLast(i)
  BY <1>0 DEF PicksByRank, Single
<1>3. Full \/ Picked = Tasks
  <2>1. CASE next \notin Tasks
    <3>1. next - 1 = Len(ranked)
      BY <1>1, <2>1
    <3>2. Tasks \subseteq Picked
      BY <1>1, <1>2, <3>1
    <3> QED BY <1>1, <3>2
  <2> QED BY <1>0, <2>1
<1> QED BY <1>0, <1>2, <1>3, PicksKept DEF Single

\* The later loops leave what was picked.
LEMMA LaterPicksStep ==
  ASSUME WorkbookTypeOK, LoopsInTurn, PicksByRank,
         RankTheory \/ SelectTheory \/ EndTheory \/ PlaceTheory \/ PlaceRest
  PROVE  PicksByRank'
<1>0. /\ stage \notin {"spread", "refill"} /\ stage' \notin {"spread", "refill"}
      /\ ranked' = ranked /\ max_tasks' = max_tasks /\ selected' = selected
  BY DEF RankTheory, SelectTheory, EndTheory, PlaceTheory, PlaceRest, input
<1>1. /\ Single(selected)
      /\ (\A i \in OverQuota : PickedLast(i)) \/ (\A i \in Tasks \ Picked : QuotaIsFull(i))
      /\ \A i \in Picked, j \in Tasks \ Picked :
           Primary(i) = Primary(j) => i < j \/ PickedLast(i)
      /\ Full \/ Picked = Tasks
  BY <1>0 DEF PicksByRank, Single
<1> QED BY <1>0, <1>1, PicksKept

LEMMA PicksStep ==
  ASSUME WorkbookTypeOK, LoopsInTurn, PicksByRank, NextWorkbook
  PROVE  PicksByRank'
  BY SpreadStep, EndSpreadStep, RefillStep, EndRefillStep, LaterPicksStep DEF NextWorkbook

-----------------------------------------------------------------------------
(* Types, loops and the picked theory. *)

LEMMA TopicsKept ==
  ASSUME ranked' = ranked, selected' = selected
  PROVE  /\ Picked' = Picked
         /\ \A i : TaskTopics(i)' = TaskTopics(i)
         /\ \A t : Related(t)' <=> Related(t)
<1>1. Picked' = Picked /\ \A i : TaskTopics(i)' = TaskTopics(i)
  BY DEF Picked, TaskTopics
<1> QED BY <1>1 DEF Related

AllRelated(s) == \A k \in DOMAIN s : Related(s[k])

LEMMA RelatedKept ==
  ASSUME ranked' = ranked, selected' = selected
  PROVE  AllRelated(candidates') => AllRelated(candidates)'
<1>1. Picked' = Picked /\ \A i : TaskTopics(i)' = TaskTopics(i)
  BY TopicsKept
<1> QED BY <1>1 DEF AllRelated, Related

LEMMA RankedCandidates ==
  ASSUME NEW c \in Rankings
  PROVE  c \in Seq(Theory) /\ \A k \in DOMAIN c : Related(c[k])
<1>1. IsFiniteSet(RelatedTheory)
  <2>1. RelatedTheory \in SUBSET Theory
    BY DEF RelatedTheory
  <2> QED BY <2>1, TheoriesAssumption, FS_Subset
<1>2. Cardinality(RelatedTheory) \in Nat
  BY <1>1, FS_CardinalityType
<1>3. c \in [1 .. Cardinality(RelatedTheory) -> RelatedTheory]
  BY DEF Rankings, Orders
<1>4. c \in Seq(RelatedTheory) /\ DOMAIN c = 1 .. Cardinality(RelatedTheory)
  BY <1>2, <1>3, FunctionIsSeq
<1> QED BY <1>3, <1>4 DEF RelatedTheory

LEMMA LoopsStep ==
  ASSUME WorkbookTypeOK, LoopsInTurn, NextWorkbook
  PROVE  LoopsInTurn'
<1> USE WorkbookTypes
<1>1. CASE Spread
  <2>1. ranked' = ranked /\ next <= Len(ranked) /\ next' = next + 1 /\ stage = "spread" /\ stage' = stage
        /\ candidates' = candidates /\ theory' = theory /\ items' = items
    BY <1>1 DEF Spread, input
  <2>2. candidates = <<>> /\ theory = <<>> /\ items = <<>>
    BY <2>1 DEF LoopsInTurn
  <2> QED BY <2>1, <2>2 DEF LoopsInTurn, AllRelated
<1>2. CASE EndSpread
  <2>1. ranked' = ranked /\ next' = 1 /\ stage = "spread" /\ stage' \in {"rank", "refill"}
        /\ candidates' = candidates /\ theory' = theory /\ items' = items
    BY <1>2 DEF EndSpread, input
  <2>2. candidates = <<>> /\ theory = <<>> /\ items = <<>>
    BY <2>1 DEF LoopsInTurn
  <2> QED BY <2>1, <2>2 DEF LoopsInTurn, AllRelated
<1>3. CASE Refill
  <2>1. ranked' = ranked /\ next <= Len(ranked) /\ next' = next + 1 /\ stage = "refill" /\ stage' = stage
        /\ candidates' = candidates /\ theory' = theory /\ items' = items
    BY <1>3 DEF Refill, input
  <2>2. candidates = <<>> /\ theory = <<>> /\ items = <<>>
    BY <2>1 DEF LoopsInTurn
  <2> QED BY <2>1, <2>2 DEF LoopsInTurn, AllRelated
<1>4. CASE EndRefill
  <2>1. ranked' = ranked /\ next' = next /\ stage = "refill" /\ stage' = "rank"
        /\ candidates' = candidates /\ theory' = theory /\ items' = items
    BY <1>4 DEF EndRefill, input
  <2>2. candidates = <<>> /\ theory = <<>> /\ items = <<>> /\ next <= Len(ranked) + 1
    BY <2>1 DEF LoopsInTurn
  <2> QED BY <2>1, <2>2 DEF LoopsInTurn, AllRelated
<1>5. CASE RankTheory
  <2>1. /\ ranked' = ranked /\ selected' = selected /\ next' = 1 /\ stage = "rank" /\ stage' = "theory"
        /\ candidates' = <<>> \/ candidates' \in Rankings
        /\ theory' = theory /\ items' = items
    BY <1>5 DEF RankTheory, input
  <2>2. theory = <<>> /\ items = <<>>
    BY <2>1 DEF LoopsInTurn
  <2>3. candidates' \in Seq(Theory) /\ AllRelated(candidates)'
    <3>1. CASE candidates' = <<>>
      BY <2>1, <3>1, RelatedKept DEF AllRelated
    <3>2. CASE candidates' \in Rankings
      BY <2>1, <3>2, RankedCandidates, RelatedKept DEF AllRelated
    <3> QED BY <2>1, <3>1, <3>2
  <2>4. Len(candidates') \in Nat
    BY <2>3
  <2> QED BY <2>1, <2>2, <2>3, <2>4 DEF LoopsInTurn, AllRelated
<1>6. CASE SelectTheory
  <2>1. /\ ranked' = ranked /\ selected' = selected /\ stage = "theory" /\ stage' = stage
        /\ next <= Len(candidates) /\ next' = next + 1
        /\ theory' = theory \/ theory' = Append(theory, candidates[next])
        /\ candidates' = candidates /\ items' = items
    BY <1>6 DEF SelectTheory, input
  <2>2. items = <<>> /\ Len(theory) < next /\ \A k \in DOMAIN candidates : Related(candidates[k])
    BY <2>1 DEF LoopsInTurn
  <2>3. Len(theory') < next'
    <3>1. candidates[next] \in Theory /\ theory \in Seq(Theory)
      BY <2>1 DEF WorkbookTypeOK
    <3>2. Len(theory') \in {Len(theory), Len(theory) + 1}
      BY <2>1, <3>1, AppendFacts
    <3> QED BY <2>1, <2>2, <3>2
  <2>4. AllRelated(candidates)'
    BY <2>1, <2>2, RelatedKept DEF AllRelated
  <2> QED BY <2>1, <2>2, <2>3, <2>4 DEF LoopsInTurn, AllRelated
<1>7. CASE EndTheory
  <2>1. /\ ranked' = ranked /\ selected' = selected /\ stage = "theory" /\ stage' = "layout"
        /\ next' = 1 /\ theory' = theory /\ candidates' = candidates /\ items' = items
    BY <1>7 DEF EndTheory, input
  <2>2. /\ items = <<>> /\ Len(theory) < next /\ next <= Len(candidates) + 1
        /\ \A k \in DOMAIN candidates : Related(candidates[k])
    BY <2>1 DEF LoopsInTurn
  <2>3. AllRelated(candidates)'
    BY <2>1, <2>2, RelatedKept DEF AllRelated
  <2> QED BY <2>1, <2>2, <2>3 DEF LoopsInTurn, AllRelated
<1>8. CASE PlaceTheory
  <2>1. /\ ranked' = ranked /\ selected' = selected /\ stage = "layout" /\ stage' = stage
        /\ next <= Len(theory) /\ next' = next + 1
        /\ theory' = theory /\ candidates' = candidates
    BY <1>8 DEF PlaceTheory, input
  <2>2. Len(theory) <= Len(candidates) /\ \A k \in DOMAIN candidates : Related(candidates[k])
    BY <2>1 DEF LoopsInTurn
  <2>3. AllRelated(candidates)'
    BY <2>1, <2>2, RelatedKept DEF AllRelated
  <2> QED BY <2>1, <2>2, <2>3 DEF LoopsInTurn, AllRelated
<1>9. CASE PlaceRest
  <2>1. /\ ranked' = ranked /\ selected' = selected /\ stage = "layout" /\ stage' = "done"
        /\ next > Len(theory) /\ next' = next
        /\ theory' = theory /\ candidates' = candidates
    BY <1>9 DEF PlaceRest, input
  <2>2. /\ next <= Len(theory) + 1 /\ Len(theory) <= Len(candidates)
        /\ \A k \in DOMAIN candidates : Related(candidates[k])
    BY <2>1 DEF LoopsInTurn
  <2>3. AllRelated(candidates)'
    BY <2>1, <2>2, RelatedKept DEF AllRelated
  <2> QED BY <2>1, <2>2, <2>3 DEF LoopsInTurn, AllRelated
<1> QED BY <1>1, <1>2, <1>3, <1>4, <1>5, <1>6, <1>7, <1>8, <1>9 DEF NextWorkbook

LEMMA CoversStep ==
  ASSUME WorkbookTypeOK, LoopsInTurn, TheoryCoversApart, NextWorkbook
  PROVE  TheoryCoversApart'
<1>1. CASE SelectTheory
  <2> DEFINE t == candidates[next]
  <2>1. /\ ranked' = ranked /\ selected' = selected /\ stage = "theory" /\ next <= Len(candidates)
        /\ theory' = IF Covered \cap TheoryTopics[t] = {} THEN Append(theory, t) ELSE theory
    BY <1>1 DEF SelectTheory, input
  <2>a. theory \in Seq(Theory) /\ Len(theory) \in Nat /\ DOMAIN theory = 1 .. Len(theory)
    BY WorkbookTypes DEF WorkbookTypeOK
  <2>b. next \in DOMAIN candidates
    BY <2>1, WorkbookTypes
  <2>c. t \in Theory /\ Related(t)
    BY <2>b, WorkbookTypes DEF LoopsInTurn
  <2>2. /\ theory \in Seq(Theory) /\ t \in Theory /\ Related(t)
        /\ Len(theory) \in Nat /\ DOMAIN theory = 1 .. Len(theory)
    BY <2>a, <2>c
  <2> HIDE DEF t
  <2>3. \A u : Related(u)' <=> Related(u)
    BY <2>1, TopicsKept
  <2>4. CASE Covered \cap TheoryTopics[t] = {}
    <3> DEFINE n == Len(theory)
    <3>1. /\ DOMAIN theory' = 1 .. n + 1 /\ theory'[n + 1] = t
          /\ \A k \in 1 .. n : theory'[k] = theory[k]
      BY <2>1, <2>2, <2>4, AppendFacts
    <3>2. \A k \in 1 .. n : TheoryTopics[theory[k]] \cap TheoryTopics[t] = {}
      BY <2>2, <2>4 DEF Covered, PickedTheory
    <3>3. \A k \in 1 .. n + 1 : k \in 1 .. n \/ k = n + 1
      BY <2>2
    <3>4. \A k, l \in DOMAIN theory' : k # l => TheoryTopics[theory'[k]] \cap TheoryTopics[theory'[l]] = {}
      BY <2>2, <3>1, <3>2, <3>3 DEF TheoryCoversApart
    <3>5. \A u \in PickedTheory' : u \in PickedTheory \/ u = t
      BY <2>2, <3>1, <3>3 DEF PickedTheory
    <3>6. \A u \in PickedTheory' : Related(u)'
      BY <2>2, <2>3, <3>5 DEF TheoryCoversApart
    <3> QED BY <3>4, <3>6 DEF TheoryCoversApart
  <2>5. CASE Covered \cap TheoryTopics[t] # {}
    BY <2>1, <2>3, <2>5 DEF TheoryCoversApart, PickedTheory
  <2> QED BY <2>4, <2>5
<1>2. CASE Spread \/ EndSpread \/ Refill \/ EndRefill
  <2>1. theory' = <<>>
    BY <1>2 DEF Spread, EndSpread, Refill, EndRefill, LoopsInTurn
  <2> QED BY <2>1 DEF TheoryCoversApart, PickedTheory
<1>3. CASE RankTheory \/ EndTheory \/ PlaceTheory \/ PlaceRest
  <2>1. ranked' = ranked /\ selected' = selected /\ theory' = theory
    BY <1>3 DEF RankTheory, EndTheory, PlaceTheory, PlaceRest, input
  <2>2. PickedTheory' = PickedTheory /\ \A u : Related(u)' <=> Related(u)
    BY <2>1, TopicsKept DEF PickedTheory
  <2> QED BY <2>1, <2>2 DEF TheoryCoversApart
<1> QED BY <1>1, <1>2, <1>3 DEF NextWorkbook

\* Two picked theories differ: they have topics, and share none.
LEMMA TheoriesDiffer ==
  ASSUME TheoryCoversApart
  PROVE  \A k, l \in DOMAIN theory : k # l => theory[k] # theory[l]
<1>1. \A k \in DOMAIN theory : TheoryTopics[theory[k]] # {}
  BY DEF TheoryCoversApart, PickedTheory, Related
<1> QED BY <1>1 DEF TheoryCoversApart

-----------------------------------------------------------------------------
(* The layout. *)

LEMMA TaskItemsFacts ==
  ASSUME NEW s \in Seq(1 .. MaxRanked)
  PROVE  /\ TaskItems(s) \in Seq(Item) /\ Len(TaskItems(s)) = Len(s)
         /\ \A k \in 1 .. Len(s) : TaskItems(s)[k] = TaskItem(s[k])
<1>1. Len(s) \in Nat /\ DOMAIN s = 1 .. Len(s) /\ \A k \in 1 .. Len(s) : s[k] \in 1 .. MaxRanked
  BY SeqFacts
<1>2. \A k \in 1 .. Len(s) : TaskItem(s[k]) \in Item
  BY <1>1 DEF TaskItem, Item
<1>3. TaskItems(s) \in [1 .. Len(s) -> Item]
  BY <1>1, <1>2 DEF TaskItems
<1>4. TaskItems(s) \in Seq(Item) /\ Len(TaskItems(s)) = Len(s)
  BY <1>1, <1>3, FunctionIsSeq
<1> QED BY <1>1, <1>4 DEF TaskItems

LEMMA ItemKinds ==
  /\ \A i, t : TaskItem(i) # TheoryItem(t)
  /\ \A i : TaskItem(i).kind = "task" /\ TaskItem(i).id = i
  /\ \A t : TheoryItem(t).kind = "theory" /\ TheoryItem(t).id = t
<1>1. /\ \A i : TaskItem(i).kind = "task" /\ TaskItem(i).id = i
      /\ \A t : TheoryItem(t).kind = "theory" /\ TheoryItem(t).id = t
  BY DEF TaskItem, TheoryItem
<1>2. \A i, t : TaskItem(i) # TheoryItem(t)
  <2> SUFFICES ASSUME NEW i, NEW t, TaskItem(i) = TheoryItem(t) PROVE FALSE
    OBVIOUS
  <2>1. TaskItem(i).kind = TheoryItem(t).kind
    OBVIOUS
  <2> QED BY <1>1, <2>1
<1> QED BY <1>1, <1>2

\* The tasks a step of the layout adds: those picked that are in S.
LEMMA AddedTasks ==
  ASSUME WorkbookTypeOK, PicksByRank, NEW S
  PROVE  LET A == Among(selected, S) IN
         /\ A \in Seq(1 .. MaxRanked) /\ Len(A) \in Nat
         /\ \A k \in 1 .. Len(A) : A[k] \in Picked \cap S
         /\ \A i \in Picked \cap S : \E k \in 1 .. Len(A) : A[k] = i
         /\ \A k, l \in 1 .. Len(A) : k # l => A[k] # A[l]
         /\ IsFiniteSet(Picked \cap S) /\ Cardinality(Picked \cap S) = Len(A)
<1> DEFINE A == Among(selected, S)
<1>1. selected \in Seq(Tasks) /\ Single(selected) /\ Picked = Elements(selected)
  BY WorkbookTypes DEF WorkbookTypeOK, PicksByRank, Single
<1>2. A \in Seq(Tasks) /\ Elements(A) = Picked \cap S /\ Single(A)
  BY <1>1, AmongFacts
<1>3. Tasks \subseteq 1 .. MaxRanked
  BY WorkbookTypes, WorkbookBoundsAssumption
<1> HIDE DEF A
<1>4. Len(A) \in Nat /\ DOMAIN A = 1 .. Len(A) /\ \A k \in 1 .. Len(A) : A[k] \in Tasks
  BY <1>2, SeqFacts
<1>5. A \in Seq(1 .. MaxRanked)
  BY <1>2, <1>3, SeqOfMore
<1>6. IsFiniteSet(Elements(A)) /\ Cardinality(Elements(A)) = Len(A)
  BY <1>2, SingleLength
<1> QED BY <1>2, <1>4, <1>5, <1>6 DEF A, Elements, Single

\* An item of the workbook is a task or a theory; its tasks are those items.
Mixed(s) == \A k \in DOMAIN s : (\E i : s[k] = TaskItem(i)) \/ (\E t : s[k] = TheoryItem(t))
TasksIn(s) == {s[k].id : k \in {j \in DOMAIN s : s[j].kind = "task"}}

LEMMA TasksInFacts ==
  ASSUME NEW s, Mixed(s)
  PROVE  \A i : i \in TasksIn(s) <=> \E k \in DOMAIN s : s[k] = TaskItem(i)
<1>1. ASSUME NEW k \in DOMAIN s, s[k].kind = "task" PROVE s[k] = TaskItem(s[k].id)
  BY <1>1, ItemKinds DEF Mixed
<1>2. ASSUME NEW i, i \in TasksIn(s) PROVE \E k \in DOMAIN s : s[k] = TaskItem(i)
  BY <1>1, <1>2 DEF TasksIn
<1>3. ASSUME NEW i, NEW k \in DOMAIN s, s[k] = TaskItem(i) PROVE i \in TasksIn(s)
  BY <1>3, ItemKinds DEF TasksIn
<1> QED BY <1>2, <1>3

LEMMA MixedItems ==
  ASSUME PlacesInTurn, stage \in {"layout", "done"}
  PROVE  /\ Mixed(items)
         /\ \A i : i \in PlacedTasks <=> \E k \in DOMAIN items : items[k] = TaskItem(i)
         /\ PlacedTasks \subseteq Picked
<1>1. \A k \in DOMAIN items : \/ \E i \in Picked : items[k] = TaskItem(i)
                              \/ \E j \in 1 .. next - 1 : items[k] = TheoryItem(theory[j])
  BY DEF PlacesInTurn, ItemsInTurn
<1>2. Mixed(items)
  BY <1>1 DEF Mixed
<1>3. \A i : i \in PlacedTasks <=> \E k \in DOMAIN items : items[k] = TaskItem(i)
  BY <1>2, TasksInFacts DEF TasksIn, PlacedTasks
<1>4. ASSUME NEW i \in PlacedTasks PROVE i \in Picked
  <2>1. PICK k \in DOMAIN items : items[k] = TaskItem(i)
    BY <1>3
  <2>2. TaskItem(i).kind = "task" /\ TaskItem(i).id = i
    BY ItemKinds
  <2> QED BY <1>1, <2>1, <2>2, ItemKinds
<1> QED BY <1>2, <1>3, <1>4

\* The items after one more theory and its tasks.
LEMMA ItemsPlaced ==
  ASSUME NEW s \in Seq(Item), NEW t \in Theory, NEW A \in Seq(1 .. MaxRanked)
  PROVE  LET new == s \o <<TheoryItem(t)>> \o TaskItems(A)
             n == Len(s)
         IN  /\ new \in Seq(Item) /\ Len(new) = n + 1 + Len(A)
             /\ \A k \in 1 .. n : new[k] = s[k]
             /\ new[n + 1] = TheoryItem(t)
             /\ \A m \in 1 .. Len(A) : new[n + 1 + m] = TaskItem(A[m])
<1> DEFINE one == <<TheoryItem(t)>>
           tasks == TaskItems(A)
           n == Len(s)
           a == Len(A)
<1>1. one \in Seq(Item) /\ Len(one) = 1 /\ one[1] = TheoryItem(t)
  BY DEF TheoryItem, Item
<1>2. /\ tasks \in Seq(Item) /\ Len(tasks) = a /\ a \in Nat /\ n \in Nat
      /\ \A k \in 1 .. a : tasks[k] = TaskItem(A[k])
  BY TaskItemsFacts, SeqFacts
<1> HIDE DEF one, tasks, n, a
<1>3. /\ s \o one \in Seq(Item) /\ Len(s \o one) = n + 1
      /\ \A i \in 1 .. n + 1 : (s \o one)[i] = IF i <= n THEN s[i] ELSE one[i - n]
  <2>1. /\ s \o one \in Seq(Item) /\ Len(s \o one) = Len(s) + Len(one)
        /\ \A i \in 1 .. Len(s) + Len(one) :
             (s \o one)[i] = IF i <= Len(s) THEN s[i] ELSE one[i - Len(s)]
    BY <1>1, ConcatProperties
  <2> QED BY <1>1, <2>1 DEF n
<1>4. \A k \in 1 .. n : (s \o one)[k] = s[k]
  BY <1>2, <1>3
<1>5. (s \o one)[n + 1] = TheoryItem(t)
  <2>1. n + 1 \in 1 .. n + 1 /\ ~(n + 1 <= n) /\ (n + 1) - n = 1
    BY <1>2
  <2> QED BY <1>1, <1>3, <2>1
<1> DEFINE u == s \o one
<1>6. u \in Seq(Item) /\ Len(u) = n + 1
  BY <1>3
<1> HIDE DEF u
<1>7. /\ u \o tasks \in Seq(Item) /\ Len(u \o tasks) = n + 1 + a
      /\ \A i \in 1 .. n + 1 + a :
           (u \o tasks)[i] = IF i <= n + 1 THEN u[i] ELSE tasks[i - (n + 1)]
  <2>1. /\ u \o tasks \in Seq(Item) /\ Len(u \o tasks) = Len(u) + Len(tasks)
        /\ \A i \in 1 .. Len(u) + Len(tasks) :
             (u \o tasks)[i] = IF i <= Len(u) THEN u[i] ELSE tasks[i - Len(u)]
    BY <1>2, <1>6, ConcatProperties
  <2> QED BY <1>2, <1>6, <2>1
<1>8. \A k \in 1 .. n + 1 : (u \o tasks)[k] = u[k]
  BY <1>2, <1>7
<1>9. \A m \in 1 .. a : (u \o tasks)[n + 1 + m] = TaskItem(A[m])
  <2> TAKE m \in 1 .. a
  <2>1. n + 1 + m \in 1 .. n + 1 + a /\ ~(n + 1 + m <= n + 1) /\ (n + 1 + m) - (n + 1) = m
    BY <1>2
  <2> QED BY <1>2, <1>7, <2>1
<1>10. 1 .. n \subseteq 1 .. n + 1 /\ n + 1 \in 1 .. n + 1
  BY <1>2
<1> QED BY <1>4, <1>5, <1>7, <1>8, <1>9, <1>10 DEF u, one, tasks, n, a

\* The items after the tasks that were left.
LEMMA ItemsClosed ==
  ASSUME NEW s \in Seq(Item), NEW A \in Seq(1 .. MaxRanked)
  PROVE  LET new == s \o TaskItems(A)
             n == Len(s)
         IN  /\ new \in Seq(Item) /\ Len(new) = n + Len(A)
             /\ \A k \in 1 .. n : new[k] = s[k]
             /\ \A m \in 1 .. Len(A) : new[n + m] = TaskItem(A[m])
<1> DEFINE tasks == TaskItems(A)
           n == Len(s)
           a == Len(A)
<1>1. /\ tasks \in Seq(Item) /\ Len(tasks) = a /\ a \in Nat /\ n \in Nat
      /\ \A k \in 1 .. a : tasks[k] = TaskItem(A[k])
  BY TaskItemsFacts, SeqFacts
<1> HIDE DEF tasks, n, a
<1>2. /\ s \o tasks \in Seq(Item) /\ Len(s \o tasks) = n + a
      /\ \A i \in 1 .. n + a : (s \o tasks)[i] = IF i <= n THEN s[i] ELSE tasks[i - n]
  BY <1>1, ConcatProperties DEF n
<1>3. \A k \in 1 .. n : (s \o tasks)[k] = s[k]
  BY <1>1, <1>2
<1>4. \A m \in 1 .. a : (s \o tasks)[n + m] = TaskItem(A[m])
  <2> TAKE m \in 1 .. a
  <2>1. n + m \in 1 .. n + a /\ ~(n + m <= n) /\ (n + m) - n = m
    BY <1>1
  <2> QED BY <1>1, <1>2, <2>1
<1> QED BY <1>2, <1>3, <1>4 DEF tasks, n, a

LEMMA PlaceTheoryStep ==
  ASSUME WorkbookTypeOK, LoopsInTurn, PicksByRank, TheoryCoversApart, PlacesInTurn, PlaceTheory
  PROVE  PlacesInTurn' /\ items' \in Seq(Item)
<1> DEFINE t == theory[next]
           S == TasksOf(t) \ PlacedTasks
           A == Among(selected, S)
           n == Len(items)
           a == Len(A)
           new == items'
<1>0. /\ stage = "layout" /\ stage' = "layout" /\ next <= Len(theory) /\ next' = next + 1
      /\ ranked' = ranked /\ selected' = selected /\ theory' = theory
      /\ items' = items \o <<TheoryItem(t)>> \o TaskItems(A)
  BY DEF PlaceTheory, input
<1>1. /\ n \in Nat /\ DOMAIN items = 1 .. n /\ items \in Seq(Item) /\ next \in Nat \ {0}
      /\ Len(theory) \in Nat /\ DOMAIN theory = 1 .. Len(theory) /\ next \in DOMAIN theory
      /\ t \in Theory /\ IsFiniteSet(Picked)
  <2>1. next \in Nat \ {0} /\ Len(theory) \in Nat /\ DOMAIN theory = 1 .. Len(theory)
    BY WorkbookTypes
  <2>2. next \in DOMAIN theory
    BY <1>0, <2>1
  <2> QED BY <2>1, <2>2, WorkbookTypes DEF WorkbookTypeOK
<1>2. Picked \cap S = S
  BY DEF TasksOf
<1>3. /\ A \in Seq(1 .. MaxRanked) /\ a \in Nat
      /\ \A k \in 1 .. a : A[k] \in S
      /\ \A i \in S : \E k \in 1 .. a : A[k] = i
      /\ \A k, l \in 1 .. a : k # l => A[k] # A[l]
      /\ IsFiniteSet(S) /\ Cardinality(S) = a
  <2> HIDE DEF S
  <2> QED BY <1>2, AddedTasks
<1>4. /\ new \in Seq(Item) /\ Len(new) = n + 1 + a
      /\ \A k \in 1 .. n : new[k] = items[k]
      /\ new[n + 1] = TheoryItem(t)
      /\ \A m \in 1 .. a : new[n + 1 + m] = TaskItem(A[m])
  <2> HIDE DEF t, A
  <2> QED BY <1>0, <1>1, <1>3, ItemsPlaced, SMTT(30)
<1>5. DOMAIN new = 1 .. n + 1 + a
  BY <1>4, SeqFacts
<1>6. S \subseteq Picked \ PlacedTasks /\ \A i \in S : TaskTopics(i) \cap TheoryTopics[t] # {}
  BY DEF TasksOf
<1>7. /\ Mixed(items) /\ PlacedTasks \subseteq Picked
      /\ \A i : i \in PlacedTasks <=> \E k \in 1 .. n : items[k] = TaskItem(i)
  BY <1>0, <1>1, MixedItems
<1>8. /\ Picked' = Picked /\ \A i : TaskTopics(i)' = TaskTopics(i)
  BY <1>0, TopicsKept
<1>9. /\ \A k, l \in 1 .. n : k # l => items[k] # items[l]
      /\ \A k \in 1 .. n : \/ \E i \in Picked : items[k] = TaskItem(i)
                           \/ \E j \in 1 .. next - 1 : items[k] = TheoryItem(theory[j])
      /\ \A j \in 1 .. next - 1 : \E k \in 1 .. n : items[k] = TheoryItem(theory[j])
      /\ n = next - 1 + Cardinality(PlacedTasks)
      /\ next > 1 => Opened
      /\ \A k, l \in 1 .. n :
           Under(k, l) => BelongsTo(l, items[k].id)
      /\ \A i \in Picked \ PlacedTasks, j \in 1 .. next - 1 : TaskTopics(i) \cap TheoryTopics[theory[j]] = {}
  <2>1. ItemsInTurn /\ TasksUnderTheory /\ LeftBelongToNone /\ (next > 1 => Opened)
    BY <1>0 DEF PlacesInTurn
  <2> QED BY <1>0, <1>1, <2>1 DEF ItemsInTurn, TasksUnderTheory, LeftBelongToNone, Done
<1>10. next = 1 => n = 0 /\ PlacedTasks = {}
  <2>1. ASSUME next = 1 PROVE items = <<>>
    BY <1>0, <2>1 DEF LoopsInTurn
  <2>2. ASSUME next = 1 PROVE n = 0
    BY <2>1, <2>2
  <2> HIDE DEF n
  <2> QED BY <1>7, <2>2
<1> HIDE DEF t, S, A, n, a, new
<1>11. \A k \in 1 .. n + 1 + a :
         \/ k \in 1 .. n /\ new[k] = items[k]
         \/ k = n + 1 /\ new[k] = TheoryItem(t)
         \/ \E m \in 1 .. a : k = n + 1 + m /\ new[k] = TaskItem(A[m])
  <2> TAKE k \in 1 .. n + 1 + a
  <2>1. k \in 1 .. n \/ k = n + 1 \/ (k - (n + 1) \in 1 .. a /\ k = n + 1 + (k - (n + 1)))
    BY <1>1, <1>3
  <2> QED BY <1>4, <2>1
<1>12. 1 .. n \subseteq 1 .. n + 1 + a /\ n + 1 \in 1 .. n + 1 + a
       /\ \A m \in 1 .. a : n + 1 + m \in 1 .. n + 1 + a
  BY <1>1, <1>3
<1>13. \A j \in 1 .. next : j \in 1 .. next - 1 \/ j = next
  BY <1>1
<1>14. 1 .. next - 1 \subseteq 1 .. next /\ next \in 1 .. next
  BY <1>1
<1>15. \A j \in 1 .. next - 1 : theory[j] # t
  <2>1. \A j \in 1 .. next - 1 : j \in DOMAIN theory /\ j # next
    BY <1>0, <1>1
  <2> QED BY <1>1, <2>1, TheoriesDiffer DEF t
<1>a. \A k \in 1 .. n + 1 + a : \/ \E i \in Picked : new[k] = TaskItem(i)
                                \/ \E j \in 1 .. next : new[k] = TheoryItem(theory[j])
  <2> TAKE k \in 1 .. n + 1 + a
  <2>1. CASE k \in 1 .. n /\ new[k] = items[k]
    BY <1>9, <1>14, <2>1
  <2>2. CASE k = n + 1 /\ new[k] = TheoryItem(t)
    BY <1>14, <2>2 DEF t
  <2>3. CASE \E m \in 1 .. a : k = n + 1 + m /\ new[k] = TaskItem(A[m])
    BY <1>3, <1>6, <2>3
  <2> QED BY <1>11, <2>1, <2>2, <2>3
<1>b. \A k, l \in 1 .. n + 1 + a : k # l => new[k] # new[l]
  <2>1. \A k \in 1 .. n : items[k] # TheoryItem(t)
    BY <1>9, <1>15, ItemKinds
  <2>2. \A k \in 1 .. n, m \in 1 .. a : items[k] # TaskItem(A[m])
    BY <1>3, <1>6, <1>7
  <2>3. \A l, m \in 1 .. a : l # m => TaskItem(A[l]) # TaskItem(A[m])
    BY <1>3, ItemKinds
  <2>4. \A m \in 1 .. a : TaskItem(A[m]) # TheoryItem(t)
    BY ItemKinds
  <2> QED BY <1>9, <1>11, <2>1, <2>2, <2>3, <2>4
<1>c. \A j \in 1 .. next : \E k \in 1 .. n + 1 + a : new[k] = TheoryItem(theory[j])
  <2> TAKE j \in 1 .. next
  <2>1. CASE j \in 1 .. next - 1
    BY <1>4, <1>9, <1>12, <2>1
  <2>2. CASE j = next
    BY <1>4, <1>12, <2>2 DEF t
  <2> QED BY <1>13, <2>1, <2>2
<1>d. PlacedTasks' = PlacedTasks \cup S
  <2>1. Mixed(new)
    BY <1>5, <1>a DEF Mixed
  <2>2. \A i : i \in TasksIn(new) <=> \E k \in 1 .. n + 1 + a : new[k] = TaskItem(i)
    BY <1>5, <2>1, TasksInFacts
  <2>3. PlacedTasks' = TasksIn(new)
    BY DEF PlacedTasks, TasksIn, new
  <2>4. ASSUME NEW i, NEW k \in 1 .. n + 1 + a, new[k] = TaskItem(i) PROVE i \in PlacedTasks \cup S
    BY <1>3, <1>7, <1>11, <2>4, ItemKinds
  <2>5. ASSUME NEW i \in PlacedTasks PROVE \E k \in 1 .. n + 1 + a : new[k] = TaskItem(i)
    BY <1>4, <1>7, <1>12
  <2>6. ASSUME NEW i \in S PROVE \E k \in 1 .. n + 1 + a : new[k] = TaskItem(i)
    BY <1>3, <1>4, <1>12
  <2> QED BY <2>2, <2>3, <2>4, <2>5, <2>6
<1>e. Len(new) = next' - 1 + Cardinality(PlacedTasks')
  <2>1. IsFiniteSet(PlacedTasks) /\ PlacedTasks \cap S = {}
    BY <1>1, <1>6, <1>7, FS_Subset
  <2>2. Cardinality(PlacedTasks) \in Nat /\ Cardinality(PlacedTasks \cap S) = 0
    BY <2>1, FS_CardinalityType, FS_EmptySet
  <2>3. Cardinality(PlacedTasks \cup S) = Cardinality(PlacedTasks) + Cardinality(S) - 0
    BY <1>3, <2>1, <2>2, FS_Union
  <2>4. Len(new) = n + 1 + a /\ n = next - 1 + Cardinality(PlacedTasks) /\ Cardinality(S) = a
    BY <1>3, <1>4, <1>9
  <2>5. next' = next + 1 /\ Cardinality(PlacedTasks') = Cardinality(PlacedTasks) + a
    BY <1>0, <1>3, <1>d, <2>2, <2>3
  <2>6. n \in Nat /\ a \in Nat /\ next \in Nat
    BY <1>1, <1>3
  <2> QED BY ONLY <2>2, <2>4, <2>5, <2>6
<1>f. Opened'
  <2>1. CASE next = 1
    <3>1. n = 0 /\ S = TasksOf(t)
      BY <1>10, <2>1 DEF S
    <3>2. S # {}
      <4>1. Related(t)
        BY <1>1 DEF TheoryCoversApart, PickedTheory, t
      <4> QED BY <3>1, <4>1 DEF TasksOf, Related
    <3>3. 1 \in 1 .. a
      BY <1>3, <3>2
    <3>4. A[1] \in S /\ TaskTopics(A[1]) \cap TheoryTopics[t] # {}
      BY <1>3, <1>6, <3>3
    <3>5. 0 + 1 = 1 /\ 0 + 1 + 1 = 2 /\ 0 + 1 + a >= 2
      BY <1>3, <3>3
    <3>6. new[1] = TheoryItem(t) /\ new[2] = TaskItem(A[1]) /\ Len(new) >= 2
      BY <1>4, <3>1, <3>3, <3>5
    <3>7. TaskItem(A[1]).kind = "task" /\ TaskItem(A[1]).id = A[1]
      BY ItemKinds
    <3>8. items'[1] = TheoryItem(theory'[1]) /\ items'[2].kind = "task" /\ Len(items') >= 2
          /\ TaskTopics(items'[2].id) \cap TheoryTopics[theory'[1]] # {}
      BY <1>0, <2>1, <3>4, <3>6, <3>7 DEF new, t
    <3> QED BY <1>8, <3>8 DEF Opened, BelongsTo, TheoryItem
  <2>2. CASE next > 1
    <3>1. /\ n >= 2 /\ items[1] = TheoryItem(theory[1]) /\ items[2].kind = "task"
          /\ TaskTopics(items[2].id) \cap TheoryTopics[theory[1]] # {}
      BY <1>9, <2>2 DEF Opened, BelongsTo, n
    <3>a. n \in Nat /\ a \in Nat
      BY <1>1, <1>3
    <3>b. 1 \in 1 .. n /\ 2 \in 1 .. n /\ n + 1 + a >= 2
      BY ONLY <3>1, <3>a
    <3>2. new[1] = items[1] /\ new[2] = items[2] /\ Len(new) >= 2
      BY <1>4, <3>b
    <3>3. items'[1] = TheoryItem(theory'[1]) /\ items'[2].kind = "task" /\ Len(items') >= 2
          /\ TaskTopics(items'[2].id) \cap TheoryTopics[theory'[1]] # {}
      BY <1>0, <3>1, <3>2 DEF new
    <3> QED BY <1>8, <3>3 DEF Opened, BelongsTo, TheoryItem
  <2> QED BY <1>1, <2>1, <2>2
<1>g. ASSUME NEW k \in 1 .. n + 1 + a, NEW l \in 1 .. n + 1 + a, Under(k, l)'
      PROVE  TaskTopics(new[l].id) \cap TheoryTopics[new[k].id] # {}
  <2>1. /\ new[k].kind = "theory" /\ new[l].kind = "task" /\ k < l
        /\ \A m \in k + 1 .. l : new[m].kind = "task"
    BY <1>g DEF Under, new
  <2>2. CASE l \in 1 .. n
    <3>1. k \in 1 .. n /\ \A m \in k + 1 .. l : m \in 1 .. n
      BY <1>1, <2>1, <2>2
    <3>2. Under(k, l)
      BY <1>4, <2>1, <2>2, <3>1 DEF Under
    <3> QED BY <1>4, <1>9, <2>2, <3>1, <3>2 DEF BelongsTo
  <2>3. CASE l = n + 1
    BY <1>4, <2>1, <2>3, ItemKinds
  <2>4. ASSUME NEW m \in 1 .. a, l = n + 1 + m PROVE TaskTopics(new[l].id) \cap TheoryTopics[new[k].id] # {}
    <3>1. CASE k \in 1 .. n
      <4>1. n + 1 \in k + 1 .. l
        BY <1>1, <2>4, <3>1
      <4> QED BY <1>4, <2>1, <4>1, ItemKinds
    <3>2. CASE k = n + 1
      <4>1. new[l] = TaskItem(A[m]) /\ new[k] = TheoryItem(t) /\ A[m] \in S
        BY <1>3, <1>4, <2>4, <3>2
      <4>2. new[l].id = A[m] /\ new[k].id = t
        BY <4>1, ItemKinds
      <4> QED BY <1>6, <4>1, <4>2
    <3>3. CASE \E j \in 1 .. a : new[k] = TaskItem(A[j])
      BY <2>1, <3>3, ItemKinds
    <3> QED BY <1>11, <3>1, <3>2, <3>3
  <2> QED BY <1>11, <2>2, <2>3, <2>4
<1>h. ASSUME NEW i \in Picked \ PlacedTasks', NEW j \in 1 .. next
      PROVE  TaskTopics(i) \cap TheoryTopics[theory[j]] = {}
  <2>1. i \in Picked \ PlacedTasks /\ i \notin S
    BY <1>d
  <2>2. CASE j \in 1 .. next - 1
    BY <1>9, <2>1, <2>2
  <2>3. CASE j = next
    BY <2>1, <2>3 DEF S, TasksOf, t
  <2> QED BY <1>13, <2>2, <2>3
<1>i. next' - 1 = next /\ DOMAIN items' = 1 .. n + 1 + a
  BY <1>0, <1>1, <1>5 DEF new
<1>j. ItemsInTurn'
  <2>1. \A k, l \in DOMAIN items' : k # l => items'[k] # items'[l]
    BY <1>b, <1>i DEF new
  <2>2. \A k \in DOMAIN items' : \/ \E i \in Picked' : items'[k] = TaskItem(i)
                                 \/ \E j \in 1 .. next' - 1 : items'[k] = TheoryItem(theory'[j])
    BY <1>0, <1>8, <1>a, <1>i DEF new
  <2>3. \A j \in 1 .. next' - 1 : \E k \in DOMAIN items' : items'[k] = TheoryItem(theory'[j])
    BY <1>0, <1>c, <1>i DEF new
  <2>4. Len(items') = next' - 1 + Cardinality(PlacedTasks')
    BY <1>e DEF new
  <2> QED BY <2>1, <2>2, <2>3, <2>4 DEF ItemsInTurn, TaskItem, TheoryItem
<1>k. TasksUnderTheory'
  <2>1. \A k, l \in 1 .. n + 1 + a : Under(k, l)' => BelongsTo(l, items[k].id)'
    BY <1>0, <1>g DEF BelongsTo, TaskTopics, new
  <2> QED BY <1>i, <2>1 DEF TasksUnderTheory
<1>l. LeftBelongToNone'
  BY <1>0, <1>8, <1>h, <1>i DEF LeftBelongToNone, TaskTopics
<1> QED BY <1>0, <1>4, <1>f, <1>j, <1>k, <1>l DEF PlacesInTurn, new

LEMMA PlaceRestStep ==
  ASSUME WorkbookTypeOK, LoopsInTurn, PicksByRank, TheoryCoversApart, PlacesInTurn, PlaceRest
  PROVE  PlacesInTurn' /\ items' \in Seq(Item)
<1> DEFINE S == Picked \ PlacedTasks
           A == Among(selected, S)
           n == Len(items)
           a == Len(A)
           new == items'
<1>0. /\ stage = "layout" /\ stage' = "done" /\ next > Len(theory) /\ next' = next
      /\ ranked' = ranked /\ selected' = selected /\ theory' = theory
      /\ items' = items \o TaskItems(A)
  BY DEF PlaceRest, input
<1>1. /\ n \in Nat /\ DOMAIN items = 1 .. n /\ items \in Seq(Item) /\ next \in Nat \ {0}
      /\ Len(theory) \in Nat /\ DOMAIN theory = 1 .. Len(theory) /\ IsFiniteSet(Picked)
      /\ next - 1 = Len(theory)
  <2>1. next <= Len(theory) + 1 /\ next > Len(theory)
    BY <1>0 DEF LoopsInTurn
  <2>2. /\ next \in Nat \ {0} /\ Len(theory) \in Nat /\ DOMAIN theory = 1 .. Len(theory)
        /\ Len(items) \in Nat /\ DOMAIN items = 1 .. Len(items) /\ IsFiniteSet(Picked)
    BY WorkbookTypes
  <2>3. items \in Seq(Item)
    BY DEF WorkbookTypeOK
  <2>4. next - 1 = Len(theory)
    BY ONLY <2>1, <2>2
  <2> QED BY <2>2, <2>3, <2>4
<1>2. Picked \cap S = S
  OBVIOUS
<1>3. /\ A \in Seq(1 .. MaxRanked) /\ a \in Nat
      /\ \A k \in 1 .. a : A[k] \in S
      /\ \A i \in S : \E k \in 1 .. a : A[k] = i
      /\ \A k, l \in 1 .. a : k # l => A[k] # A[l]
      /\ IsFiniteSet(S) /\ Cardinality(S) = a
  <2> HIDE DEF S
  <2> QED BY <1>2, AddedTasks
<1>4. /\ new \in Seq(Item) /\ Len(new) = n + a
      /\ \A k \in 1 .. n : new[k] = items[k]
      /\ \A m \in 1 .. a : new[n + m] = TaskItem(A[m])
  <2>1. new = items \o TaskItems(A)
    BY <1>0
  <2>2. items \in Seq(Item) /\ A \in Seq(1 .. MaxRanked)
    BY <1>1, <1>3
  <2> HIDE DEF A, new, n, a
  <2>3. /\ new \in Seq(Item) /\ Len(new) = Len(items) + Len(A)
        /\ \A k \in 1 .. Len(items) : new[k] = items[k]
        /\ \A m \in 1 .. Len(A) : new[Len(items) + m] = TaskItem(A[m])
    BY ONLY <2>1, <2>2, ItemsClosed
  <2> QED BY ONLY <2>3 DEF n, a
<1>5. DOMAIN new = 1 .. n + a
  BY <1>4, SeqFacts
<1>7. /\ PlacedTasks \subseteq Picked
      /\ \A i : i \in PlacedTasks <=> \E k \in 1 .. n : items[k] = TaskItem(i)
  BY <1>0, <1>1, MixedItems
<1>8. /\ Picked' = Picked /\ \A i : TaskTopics(i)' = TaskTopics(i)
  BY <1>0, TopicsKept
<1>9. /\ \A k, l \in 1 .. n : k # l => items[k] # items[l]
      /\ \A k \in 1 .. n : \/ \E i \in Picked : items[k] = TaskItem(i)
                           \/ \E j \in 1 .. next - 1 : items[k] = TheoryItem(theory[j])
      /\ \A j \in 1 .. next - 1 : \E k \in 1 .. n : items[k] = TheoryItem(theory[j])
      /\ n = next - 1 + Cardinality(PlacedTasks)
      /\ next > 1 => Opened
      /\ \A k, l \in 1 .. n : Under(k, l) => BelongsTo(l, items[k].id)
      /\ \A i \in S, j \in 1 .. next - 1 : TaskTopics(i) \cap TheoryTopics[theory[j]] = {}
  <2>1. ItemsInTurn /\ TasksUnderTheory /\ LeftBelongToNone /\ (next > 1 => Opened)
    BY <1>0 DEF PlacesInTurn
  <2> QED BY <1>0, <1>1, <2>1 DEF ItemsInTurn, TasksUnderTheory, LeftBelongToNone, Done
<1>10. \A i \in S : TaskTopics(i) \cap Covered = {}
  BY <1>1, <1>9 DEF Covered, PickedTheory
<1>11. S \subseteq Picked /\ S \cap PlacedTasks = {} /\ PlacedTasks \cup S = Picked
  BY <1>7
<1> HIDE DEF S, A, n, a, new
<1>12. \A k \in 1 .. n + a : \/ k \in 1 .. n /\ new[k] = items[k]
                             \/ \E m \in 1 .. a : k = n + m /\ new[k] = TaskItem(A[m])
  <2> TAKE k \in 1 .. n + a
  <2>1. k \in 1 .. n \/ (k - n \in 1 .. a /\ k = n + (k - n))
    BY <1>1, <1>3
  <2> QED BY <1>4, <2>1
<1>13. 1 .. n \subseteq 1 .. n + a /\ \A m \in 1 .. a : n + m \in 1 .. n + a
  BY <1>1, <1>3
<1>a. \A k \in 1 .. n + a : \/ \E i \in Picked : new[k] = TaskItem(i)
                            \/ \E j \in 1 .. next - 1 : new[k] = TheoryItem(theory[j])
  <2> TAKE k \in 1 .. n + a
  <2>1. CASE k \in 1 .. n /\ new[k] = items[k]
    BY <1>9, <2>1
  <2>2. CASE \E m \in 1 .. a : k = n + m /\ new[k] = TaskItem(A[m])
    BY <1>3, <1>11, <2>2
  <2> QED BY <1>12, <2>1, <2>2
<1>b. \A k, l \in 1 .. n + a : k # l => new[k] # new[l]
  <2>1. \A k \in 1 .. n, m \in 1 .. a : items[k] # TaskItem(A[m])
    BY <1>3, <1>7, <1>11
  <2>2. \A l, m \in 1 .. a : l # m => TaskItem(A[l]) # TaskItem(A[m])
    BY <1>3, ItemKinds
  <2> QED BY <1>9, <1>12, <2>1, <2>2
<1>c. \A j \in 1 .. next - 1 : \E k \in 1 .. n + a : new[k] = TheoryItem(theory[j])
  BY <1>4, <1>9, <1>13
<1>d. PlacedTasks' = Picked
  <2>1. Mixed(new)
    BY <1>5, <1>a DEF Mixed
  <2>2. \A i : i \in TasksIn(new) <=> \E k \in 1 .. n + a : new[k] = TaskItem(i)
    BY <1>5, <2>1, TasksInFacts
  <2>3. PlacedTasks' = TasksIn(new)
    BY DEF PlacedTasks, TasksIn, new
  <2>4. ASSUME NEW i, NEW k \in 1 .. n + a, new[k] = TaskItem(i) PROVE i \in Picked
    BY <1>3, <1>7, <1>11, <1>12, <2>4, ItemKinds
  <2>5. ASSUME NEW i \in PlacedTasks PROVE \E k \in 1 .. n + a : new[k] = TaskItem(i)
    BY <1>4, <1>7, <1>13
  <2>6. ASSUME NEW i \in S PROVE \E k \in 1 .. n + a : new[k] = TaskItem(i)
    BY <1>3, <1>4, <1>13
  <2> QED BY <1>11, <2>2, <2>3, <2>4, <2>5, <2>6
<1>e. Len(new) = next' - 1 + Cardinality(PlacedTasks')
  <2>1. IsFiniteSet(PlacedTasks) /\ PlacedTasks \cap S = {}
    BY <1>1, <1>7, <1>11, FS_Subset
  <2>2. Cardinality(PlacedTasks) \in Nat /\ Cardinality(PlacedTasks \cap S) = 0
    BY <2>1, FS_CardinalityType, FS_EmptySet
  <2>3. Cardinality(PlacedTasks \cup S) = Cardinality(PlacedTasks) + Cardinality(S) - 0
    BY <1>3, <2>1, <2>2, FS_Union
  <2>a. PlacedTasks' = PlacedTasks \cup S
    BY <1>11, <1>d
  <2>b. Cardinality(S) = a /\ a \in Nat
    BY <1>3
  <2>4. Cardinality(PlacedTasks') = Cardinality(PlacedTasks) + a
    BY ONLY <2>2, <2>3, <2>a, <2>b
  <2> QED BY <1>0, <1>1, <1>3, <1>4, <1>9, <2>2, <2>4
<1>f. next > 1 => Opened'
  <2> SUFFICES ASSUME next > 1 PROVE Opened'
    OBVIOUS
  <2>1. /\ n >= 2 /\ items[1] = TheoryItem(theory[1]) /\ items[2].kind = "task"
        /\ TaskTopics(items[2].id) \cap TheoryTopics[theory[1]] # {}
    BY <1>9 DEF Opened, BelongsTo, n
  <2>a. n \in Nat /\ a \in Nat
    BY <1>1, <1>3
  <2>b. 1 \in 1 .. n /\ 2 \in 1 .. n /\ n + a >= 2
    BY ONLY <2>1, <2>a
  <2>2. new[1] = items[1] /\ new[2] = items[2] /\ Len(new) >= 2
    BY <1>4, <2>b
  <2>3. items'[1] = TheoryItem(theory'[1]) /\ items'[2].kind = "task" /\ Len(items') >= 2
        /\ TaskTopics(items'[2].id) \cap TheoryTopics[theory'[1]] # {}
    BY <1>0, <2>1, <2>2 DEF new
  <2> QED BY <1>8, <2>3 DEF Opened, BelongsTo, TheoryItem
<1>g. ASSUME NEW k \in 1 .. n + a, NEW l \in 1 .. n + a, Under(k, l)'
      PROVE  \/ TaskTopics(new[l].id) \cap TheoryTopics[new[k].id] # {}
             \/ TaskTopics(new[l].id) \cap Covered = {}
  <2>1. /\ new[k].kind = "theory" /\ new[l].kind = "task" /\ k < l
        /\ \A m \in k + 1 .. l : new[m].kind = "task"
    BY <1>g DEF Under, new
  <2>2. CASE l \in 1 .. n
    <3>1. k \in 1 .. n /\ \A m \in k + 1 .. l : m \in 1 .. n
      BY <1>1, <2>1, <2>2
    <3>2. Under(k, l)
      BY <1>4, <2>1, <2>2, <3>1 DEF Under
    <3> QED BY <1>4, <1>9, <2>2, <3>1, <3>2 DEF BelongsTo
  <2>3. ASSUME NEW m \in 1 .. a, new[l] = TaskItem(A[m])
        PROVE  TaskTopics(new[l].id) \cap Covered = {}
    <3>1. new[l].id = A[m] /\ A[m] \in S
      BY <1>3, <2>3, ItemKinds
    <3> QED BY <1>10, <3>1
  <2> QED BY <1>12, <2>2, <2>3
<1>i. DOMAIN items' = 1 .. n + a
  BY <1>5 DEF new
<1>j. ItemsInTurn'
  <2>1. \A k, l \in DOMAIN items' : k # l => items'[k] # items'[l]
    BY <1>b, <1>i DEF new
  <2>2. \A k \in DOMAIN items' : \/ \E i \in Picked' : items'[k] = TaskItem(i)
                                 \/ \E j \in 1 .. next' - 1 : items'[k] = TheoryItem(theory'[j])
    BY <1>0, <1>8, <1>a, <1>i DEF new
  <2>3. \A j \in 1 .. next' - 1 : \E k \in DOMAIN items' : items'[k] = TheoryItem(theory'[j])
    BY <1>0, <1>c, <1>i DEF new
  <2>4. Len(items') = next' - 1 + Cardinality(PlacedTasks')
    BY <1>e DEF new
  <2> QED BY <2>1, <2>2, <2>3, <2>4 DEF ItemsInTurn, TaskItem, TheoryItem
<1>k. TasksUnderTheory'
  <2>1. Covered' = Covered /\ Done'
    BY <1>0 DEF Covered, PickedTheory, Done
  <2>2. \A k, l \in 1 .. n + a : Under(k, l)' => BelongsTo(l, items[k].id)' \/ BelongsToNone(l)'
    BY <1>0, <1>g, <2>1 DEF BelongsTo, BelongsToNone, TaskTopics, new
  <2> QED BY <1>i, <2>1, <2>2 DEF TasksUnderTheory
<1>l. LeftBelongToNone'
  BY <1>8, <1>d DEF LeftBelongToNone
<1> QED BY <1>0, <1>4, <1>8, <1>d, <1>f, <1>j, <1>k, <1>l DEF PlacesInTurn, new

\* Before the layout nothing is placed.
LEMMA NothingPlaced ==
  ASSUME WorkbookTypeOK, LoopsInTurn,
         Spread \/ EndSpread \/ Refill \/ EndRefill \/ RankTheory \/ SelectTheory \/ EndTheory
  PROVE  PlacesInTurn' /\ items' \in Seq(Item)
<1>1. items' = <<>> /\ (stage' \in {"layout", "done"} => stage' = "layout" /\ next' = 1)
  BY DEF LoopsInTurn, Spread, EndSpread, Refill, EndRefill, RankTheory, SelectTheory, EndTheory
<1>2. items' \in Seq(Item) /\ Len(items') = 0 /\ DOMAIN items' = {} /\ PlacedTasks' = {}
  BY <1>1 DEF PlacedTasks
<1>3. CASE stage' = "layout" /\ next' = 1
  <2>1. Cardinality(PlacedTasks') = 0 /\ 1 .. next' - 1 = {}
    BY <1>2, <1>3, FS_EmptySet
  <2>2. ItemsInTurn'
    BY <1>2, <1>3, <2>1 DEF ItemsInTurn
  <2>3. TasksUnderTheory' /\ LeftBelongToNone'
    BY <1>2, <2>1 DEF TasksUnderTheory, LeftBelongToNone
  <2> QED BY <1>2, <1>3, <2>2, <2>3 DEF PlacesInTurn
<1> QED BY <1>1, <1>2, <1>3 DEF PlacesInTurn

LEMMA PlacesStep ==
  ASSUME WorkbookTypeOK, LoopsInTurn, PicksByRank, TheoryCoversApart, PlacesInTurn, NextWorkbook
  PROVE  PlacesInTurn' /\ items' \in Seq(Item)
  BY PlaceTheoryStep, PlaceRestStep, NothingPlaced DEF NextWorkbook

-----------------------------------------------------------------------------
(* The inductive invariant. *)

LEMMA InitWorkbookInv == InitWorkbook => WorkbookInv
<1> SUFFICES ASSUME InitWorkbook PROVE WorkbookInv
  OBVIOUS
<1>1. PICK n \in 0 .. MaxRanked : ranked \in [1 .. n -> TopicLists]
  BY DEF InitWorkbook
<1>2. n \in Nat /\ n <= MaxRanked
  BY <1>1, WorkbookBoundsAssumption
<1>3. ranked \in Seq(TopicLists) /\ Len(ranked) = n
  BY <1>1, <1>2, FunctionIsSeq
<1>4. /\ stage = "spread" /\ next = 1 /\ selected = <<>> /\ candidates = <<>>
      /\ theory = <<>> /\ items = <<>>
      /\ max_tasks \in 1 .. MaxTasks /\ max_theory \in 1 .. MaxTheory
  BY DEF InitWorkbook
<1>5. DOMAIN selected = {} /\ Len(selected) = 0 /\ Picked = {} /\ PickedTheory = {}
  BY <1>4 DEF Picked, PickedTheory
<1>6. WorkbookTypeOK
  BY <1>2, <1>3, <1>4, <1>5, WorkbookBoundsAssumption DEF WorkbookTypeOK
<1>7. EachPlacedOnce /\ PlacesInTurn
  BY <1>4 DEF EachPlacedOnce, PlacesInTurn, Done
<1>8. TheoryCoversApart /\ LoopsInTurn
  BY <1>2, <1>3, <1>4, <1>5 DEF TheoryCoversApart, LoopsInTurn
<1>9. PicksByRank
  <2>1. OverQuota = {} /\ 1 .. next - 1 = {}
    BY <1>4, <1>5 DEF OverQuota
  <2> QED BY <1>4, <1>5, <2>1 DEF PicksByRank
<1> QED BY <1>6, <1>7, <1>8, <1>9 DEF WorkbookInv

LEMMA SelectionTyped ==
  ASSUME WorkbookTypeOK, NextWorkbook
  PROVE  selected' \in Seq(Tasks) /\ Len(selected') <= max_tasks
<1>1. CASE UNCHANGED selected
  BY <1>1 DEF WorkbookTypeOK
<1>2. CASE next \in Tasks /\ ~Full /\ Pick(next)
  <2>1. selected \in Seq(Tasks) /\ selected' = Append(selected, next)
    BY <1>2 DEF WorkbookTypeOK, Pick
  <2>2. selected' \in Seq(Tasks) /\ Len(selected') = Len(selected) + 1
    BY <1>2, <2>1, AppendFacts
  <2>3. Len(selected) \in Nat /\ max_tasks \in Nat /\ Len(selected) < max_tasks
    BY <1>2, WorkbookTypes DEF Full
  <2> QED BY <2>2, <2>3
<1> QED BY <1>1, <1>2 DEF NextWorkbook, Spread, EndSpread, Refill, EndRefill, RankTheory,
                          SelectTheory, EndTheory, PlaceTheory, PlaceRest

LEMMA TheoryTyped ==
  ASSUME WorkbookTypeOK, NextWorkbook
  PROVE  theory' \in Seq(Theory) /\ Len(theory') <= max_theory
<1>1. CASE theory' = theory
  BY <1>1 DEF WorkbookTypeOK
<1>2. CASE SelectTheory /\ theory' # theory
  <2>1. /\ theory \in Seq(Theory) /\ theory' = Append(theory, candidates[next])
        /\ next <= Len(candidates) /\ Len(theory) < max_theory
    BY <1>2 DEF WorkbookTypeOK, SelectTheory
  <2>2. next \in DOMAIN candidates
    BY <2>1, WorkbookTypes
  <2>3. candidates[next] \in Theory
    BY <2>2, WorkbookTypes
  <2>4. theory' \in Seq(Theory) /\ Len(theory') = Len(theory) + 1
    BY <2>1, <2>3, AppendFacts
  <2> QED BY <2>1, <2>4, WorkbookTypes
<1> QED BY <1>1, <1>2 DEF NextWorkbook, Spread, EndSpread, Refill, EndRefill, RankTheory,
                          EndTheory, PlaceTheory, PlaceRest

LEMMA CandidatesTyped ==
  ASSUME WorkbookTypeOK, NextWorkbook
  PROVE  candidates' \in Seq(Theory)
<1>1. CASE candidates' = candidates
  BY <1>1 DEF WorkbookTypeOK
<1>2. CASE candidates' = <<>>
  BY <1>2
<1>3. CASE candidates' \in Rankings
  BY <1>3, RankedCandidates
<1> QED BY <1>1, <1>2, <1>3 DEF NextWorkbook, Spread, EndSpread, Refill, EndRefill, RankTheory,
                                SelectTheory, EndTheory, PlaceTheory, PlaceRest

LEMMA TypesStep ==
  ASSUME WorkbookTypeOK, LoopsInTurn, LoopsInTurn', items' \in Seq(Item), NextWorkbook
  PROVE  WorkbookTypeOK'
<1>1. /\ ranked' = ranked /\ max_tasks' = max_tasks /\ max_theory' = max_theory
      /\ stage' \in {"spread", "refill", "rank", "theory", "layout", "done"}
      /\ next' \in {next, next + 1, 1}
  BY DEF NextWorkbook, Spread, EndSpread, Refill, EndRefill, RankTheory,
         SelectTheory, EndTheory, PlaceTheory, PlaceRest, input
<1>2. /\ selected' \in Seq(Tasks) /\ Len(selected') <= max_tasks
      /\ theory' \in Seq(Theory) /\ Len(theory') <= max_theory /\ candidates' \in Seq(Theory)
  BY SelectionTyped, TheoryTyped, CandidatesTyped
<1>3. next' \in 1 .. Len(ranked') + Len(candidates') + 1
  <2>1. /\ next' \in Nat \ {0} /\ Len(ranked') \in Nat /\ Len(candidates') \in Nat
        /\ Len(theory') \in Nat
    BY <1>1, <1>2, WorkbookTypes, SMTT(30)
  <2>2. \/ next' <= Len(ranked') + 1 \/ next' <= Len(candidates') + 1
        \/ (next' <= Len(theory') + 1 /\ Len(theory') <= Len(candidates'))
    BY <1>1 DEF LoopsInTurn
  <2> QED BY <2>1, <2>2
<1>4. Tasks' = Tasks
  BY <1>1 DEF Tasks
<1> QED BY <1>1, <1>2, <1>3, <1>4 DEF WorkbookTypeOK

\* A finished layout is complete and single.
LEMMA WorkbookComplete ==
  WorkbookTypeOK /\ LoopsInTurn /\ PicksByRank /\ TheoryCoversApart /\ PlacesInTurn => EachPlacedOnce
<1> SUFFICES ASSUME WorkbookTypeOK, LoopsInTurn, PicksByRank, TheoryCoversApart, PlacesInTurn, Done
             PROVE  /\ \A i \in Picked : Cardinality(Places(TaskItem(i))) = 1
                    /\ \A t \in PickedTheory : Cardinality(Places(TheoryItem(t))) = 1
                    /\ Len(items) = Cardinality(Picked) + Len(theory)
                    /\ Len(selected) = IF Len(ranked) < max_tasks THEN Len(ranked) ELSE max_tasks
  BY DEF EachPlacedOnce
<1>1. /\ ItemsInTurn /\ PlacedTasks = Picked /\ next - 1 = Len(theory)
      /\ Full \/ Picked = Tasks
      /\ Single(selected)
  <2>1. stage = "done" /\ next = Len(theory) + 1
    BY DEF Done, LoopsInTurn
  <2> QED BY <2>1, WorkbookTypes DEF PlacesInTurn, PicksByRank, Single
<1>2. ASSUME NEW item, NEW k \in DOMAIN items, items[k] = item PROVE Cardinality(Places(item)) = 1
  <2>1. Places(item) = {k}
    BY <1>1, <1>2 DEF Places, ItemsInTurn
  <2> QED BY <2>1, FS_Singleton
<1>3. \A i \in Picked : Cardinality(Places(TaskItem(i))) = 1
  <2>1. \A i \in Picked : \E k \in DOMAIN items : items[k] = TaskItem(i)
    BY <1>1, MixedItems DEF Done
  <2> QED BY <1>2, <2>1
<1>4. \A t \in PickedTheory : Cardinality(Places(TheoryItem(t))) = 1
  <2>1. \A t \in PickedTheory : \E j \in 1 .. next - 1 : theory[j] = t
    BY <1>1, WorkbookTypes DEF PickedTheory
  <2>2. \A t \in PickedTheory : \E k \in DOMAIN items : items[k] = TheoryItem(t)
    BY <1>1, <2>1 DEF ItemsInTurn
  <2> QED BY <1>2, <2>2
<1>5. Len(items) = Cardinality(Picked) + Len(theory)
  <2>1. Cardinality(Picked) \in Nat
    BY WorkbookTypes, FS_CardinalityType
  <2>2. Len(items) = next - 1 + Cardinality(PlacedTasks) /\ PlacedTasks = Picked
        /\ next - 1 = Len(theory)
    BY <1>1 DEF ItemsInTurn
  <2>3. Len(theory) \in Nat
    BY WorkbookTypes
  <2> QED BY ONLY <2>1, <2>2, <2>3
<1>6. Len(selected) = IF Len(ranked) < max_tasks THEN Len(ranked) ELSE max_tasks
  <2>1. Cardinality(Picked) = Len(selected) /\ IsFiniteSet(Picked)
    BY <1>1, WorkbookTypes, SingleLength DEF WorkbookTypeOK
  <2>2. IsFiniteSet(Tasks) /\ Cardinality(Tasks) = Len(ranked)
    <3>1. Tasks = 1 .. Len(ranked) /\ Len(ranked) \in Nat
      BY WorkbookTypes
    <3>2. /\ IsFiniteSet(1 .. Len(ranked))
          /\ Cardinality(1 .. Len(ranked)) = IF 1 > Len(ranked) THEN 0 ELSE Len(ranked) - 1 + 1
      <4>1. Len(ranked) \in Int /\ 1 \in Int
        BY <3>1
      <4> QED BY ONLY <4>1, FS_Interval
    <3> QED BY ONLY <3>1, <3>2
  <2>3. Len(selected) <= Len(ranked)
    BY <2>1, <2>2, WorkbookTypes, FS_Subset
  <2>4. Len(selected) = max_tasks \/ Len(selected) = Len(ranked)
    BY <1>1, <2>1, <2>2 DEF Full
  <2>5. Len(selected) \in Nat /\ Len(ranked) \in Nat /\ max_tasks \in Nat /\ Len(selected) <= max_tasks
    BY WorkbookTypes
  <2> QED BY <2>3, <2>4, <2>5
<1> QED BY <1>3, <1>4, <1>5, <1>6

LEMMA WorkbookCompleteNext ==
  (WorkbookTypeOK /\ LoopsInTurn /\ PicksByRank /\ TheoryCoversApart /\ PlacesInTurn => EachPlacedOnce)'
  BY WorkbookComplete, PTL

LEMMA NextWorkbookInv == WorkbookInv /\ [NextWorkbook]_workbookVars => WorkbookInv'
<1> SUFFICES ASSUME WorkbookInv, [NextWorkbook]_workbookVars PROVE WorkbookInv'
  OBVIOUS
<1>0. /\ WorkbookTypeOK /\ EachPlacedOnce /\ TheoryCoversApart
      /\ LoopsInTurn /\ PicksByRank /\ PlacesInTurn
  BY DEF WorkbookInv
<1>1. CASE NextWorkbook
  <2>1. LoopsInTurn' /\ PicksByRank' /\ TheoryCoversApart' /\ PlacesInTurn' /\ items' \in Seq(Item)
    BY <1>0, <1>1, LoopsStep, PicksStep, CoversStep, PlacesStep
  <2>2. WorkbookTypeOK'
    BY <1>0, <1>1, <2>1, TypesStep
  <2> QED BY <2>1, <2>2, WorkbookCompleteNext DEF WorkbookInv
<1>2. CASE UNCHANGED workbookVars
  <2>1. /\ ranked' = ranked /\ max_tasks' = max_tasks /\ max_theory' = max_theory /\ stage' = stage
        /\ next' = next /\ selected' = selected /\ candidates' = candidates /\ theory' = theory
        /\ items' = items
    BY <1>2 DEF workbookVars, input
  <2>2. /\ Tasks' = Tasks /\ Picked' = Picked /\ PickedTheory' = PickedTheory
        /\ PlacedTasks' = PlacedTasks /\ (Full' <=> Full) /\ (Done' <=> Done)
        /\ \A i : Primary(i)' = Primary(i)
        /\ \A i : TaskTopics(i)' = TaskTopics(i)
        /\ \A i : PickedLast(i)' <=> PickedLast(i)
        /\ \A item : Places(item)' = Places(item)
        /\ \A k, l : Under(k, l)' <=> Under(k, l)
    BY <2>1 DEF Tasks, Picked, PickedTheory, PlacedTasks, Full, Done, Primary, TaskTopics,
                PickedLast, Places, Under
  <2>3. /\ Covered' = Covered
        /\ \A t : PickedWith(t)' = PickedWith(t)
        /\ \A t, i : EarlierWith(t, i)' = EarlierWith(t, i)
        /\ AllRelated(candidates)' <=> AllRelated(candidates)
        /\ \A t : Related(t)' <=> Related(t)
    BY <2>1, <2>2 DEF Covered, PickedWith, EarlierWith, AllRelated, Related
  <2>4. /\ OverQuota' = OverQuota
        /\ \A i : QuotaIsFull(i)' <=> QuotaIsFull(i)
        /\ \A i : QuotaWasFull(i)' <=> QuotaWasFull(i)
    BY <2>2, <2>3 DEF OverQuota, QuotaIsFull, QuotaWasFull
  <2>5. WorkbookTypeOK' /\ EachPlacedOnce'
    BY <1>0, <2>1, <2>2 DEF WorkbookTypeOK, EachPlacedOnce, TaskItem, TheoryItem
  <2>6. TheoryCoversApart' /\ LoopsInTurn'
    BY <1>0, <2>1, <2>2, <2>3 DEF TheoryCoversApart, LoopsInTurn, AllRelated
  <2>7. PicksByRank'
    BY <1>0, <2>1, <2>2, <2>4 DEF PicksByRank
  <2>8. PlacesInTurn'
    <3>1. /\ \A k, l : BelongsTo(l, items[k].id)' <=> BelongsTo(l, items[k].id)
          /\ \A l : BelongsToNone(l)' <=> BelongsToNone(l)
          /\ Opened' <=> Opened
      BY <2>1, <2>3 DEF BelongsTo, BelongsToNone, Opened, TaskTopics, TheoryItem
    <3>2. ItemsInTurn' <=> ItemsInTurn
      BY <2>1, <2>2 DEF ItemsInTurn, TaskItem, TheoryItem
    <3>3. TasksUnderTheory' <=> TasksUnderTheory
      BY <2>1, <2>2, <3>1 DEF TasksUnderTheory
    <3>4. LeftBelongToNone' <=> LeftBelongToNone
      BY <2>1, <2>2 DEF LeftBelongToNone
    <3> QED BY <1>0, <2>1, <2>2, <3>1, <3>2, <3>3, <3>4 DEF PlacesInTurn
  <2> QED BY <2>5, <2>6, <2>7, <2>8 DEF WorkbookInv
<1> QED BY <1>1, <1>2

\* The loops of the assembly pick and place as the inductive invariant says:
\* every picked task and theory stands in the workbook once and nothing else
\* does, as many tasks as were asked for or exist, and no two theories share a
\* topic.
THEOREM WorkbookInvariant == WorkbookSpec => []WorkbookInv
  BY InitWorkbookInv, NextWorkbookInv, PTL DEF WorkbookSpec

\* More than one task over the quota are picked only when no task was left out
\* whose primary topic still had room.
THEOREM QuotaYieldsLastAlways == WorkbookSpec => []QuotaYieldsLast
<1>1. ASSUME WorkbookInv PROVE QuotaYieldsLast
  <2> SUFFICES ASSUME Done, Cardinality(OverQuota) > 1, NEW i \in Tasks \ Picked
               PROVE  \E t \in Primary(i) : PickedWith(t) >= 2
    BY DEF QuotaYieldsLast
  <2>1. PicksByRank /\ WorkbookTypeOK
    BY <1>1 DEF WorkbookInv
  <2>2. CASE \A j \in OverQuota : PickedLast(j)
    <3> DEFINE last == {selected[max_tasks]}
    <3>1. OverQuota \in SUBSET last
      BY <2>2 DEF PickedLast
    <3>2. IsFiniteSet(last) /\ Cardinality(last) = 1
      BY FS_Singleton
    <3> HIDE DEF last
    <3>3. Cardinality(OverQuota) \in Nat /\ Cardinality(OverQuota) <= 1
      BY <3>1, <3>2, FS_Subset, FS_CardinalityType
    <3> QED BY <3>3
  <2>3. CASE \A j \in Tasks \ Picked : QuotaIsFull(j)
    BY <2>3 DEF QuotaIsFull
  <2> QED BY <2>1, <2>2, <2>3 DEF PicksByRank, Done
<1> QED BY <1>1, WorkbookInvariant, PTL

\* Of two tasks with one primary topic the better ranked is picked first; only
\* the last place may go to the worse one.
THEOREM BetterRankedFirstAlways == WorkbookSpec => []BetterRankedFirst
<1>1. WorkbookInv => BetterRankedFirst
  BY DEF WorkbookInv, PicksByRank, PickedLast, BetterRankedFirst, Done
<1> QED BY <1>1, WorkbookInvariant, PTL

\* A theory at the head of the workbook is followed by a task of its topics, and
\* a task under a theory belongs to it or to no theory of the workbook.
THEOREM TheoryIntroducesTasksAlways == WorkbookSpec => []TheoryIntroducesTasks
<1>1. ASSUME WorkbookInv PROVE TheoryIntroducesTasks
  <2> SUFFICES ASSUME Done
               PROVE  /\ theory # <<>> => Opened
                      /\ \A k, l \in DOMAIN items :
                           Under(k, l) => BelongsTo(l, items[k].id) \/ BelongsToNone(l)
    BY DEF TheoryIntroducesTasks
  <2>1. PlacesInTurn /\ LoopsInTurn /\ WorkbookTypeOK
    BY <1>1 DEF WorkbookInv
  <2>2. next = Len(theory) + 1 /\ TasksUnderTheory /\ (next > 1 => Opened)
    BY <2>1 DEF PlacesInTurn, LoopsInTurn, Done
  <2>3. theory # <<>> => Len(theory) > 0
    BY <2>1 DEF WorkbookTypeOK
  <2> QED BY <2>1, <2>2, <2>3, WorkbookTypes DEF TasksUnderTheory
<1> QED BY <1>1, WorkbookInvariant, PTL
=============================================================================
