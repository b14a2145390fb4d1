-------------------------- MODULE ContentTasks_proofs --------------------------
(***************************************************************************)
(* What content-service stores is what the teacher asked for, for any      *)
(* requests, topics, tags and weights: lemmas about the functions that     *)
(* merge, sum and share weights, the inductive invariant, and the          *)
(* properties that follow from it.                                         *)
(***************************************************************************)
EXTENDS ContentTasks, SequenceTheorems, WellFoundedInduction, TLAPS

-----------------------------------------------------------------------------
(* Naturals. *)

LEMMA LeastElement ==
  ASSUME NEW S, S \subseteq Nat, S # {}
  PROVE  \E x \in S : \A y \in S : x <= y
<1>1. PICK x \in S : \A y \in S : ~(<<y, x>> \in OpToRel(<, Nat))
  BY NatLessThanWellFounded, WFMin
<1>2. \A y \in S : ~(y < x)
  BY <1>1 DEF OpToRel
<1> QED BY <1>2

\* What holds of 0 and passes from each number to the next holds of all; the
\* library's induction theorems in a form the provers can instantiate.
LEMMA NaturalInduction ==
  ASSUME NEW S, 0 \in S, \A n \in Nat : n \in S => n + 1 \in S
  PROVE  Nat \subseteq S
<1> SUFFICES ASSUME Nat \ S # {} PROVE FALSE
  OBVIOUS
<1>1. PICK x \in Nat \ S : \A y \in Nat \ S : x <= y
  <2> DEFINE T == Nat \ S
  <2>1. T \subseteq Nat /\ T # {}
    OBVIOUS
  <2> HIDE DEF T
  <2>2. \E x \in T : \A y \in T : x <= y
    BY <2>1, LeastElement
  <2> QED BY <2>2 DEF T
<1>2. x - 1 \in Nat /\ x - 1 \in S
  BY <1>1
<1>3. (x - 1) + 1 \in S
  BY <1>2
<1>4. (x - 1) + 1 = x
  OBVIOUS
<1> QED BY <1>3, <1>4

LEMMA MinMax ==
  ASSUME NEW n \in Nat, NEW S \in SUBSET (1 .. n), S # {}
  PROVE  Min(S) \in S /\ Max(S) \in S
<1>0. S \subseteq Nat
  OBVIOUS
<1>1. \E x \in S : \A y \in S : x <= y
  BY <1>0, LeastElement
<1> DEFINE Bounds == {k \in Nat : \A y \in S : y <= k}
<1>2. n \in Bounds /\ Bounds \subseteq Nat
  OBVIOUS
<1>3. PICK x \in Bounds : \A k \in Bounds : x <= k
  <2> HIDE DEF Bounds
  <2> QED BY <1>2, LeastElement
<1>4. x \in S
  <2> SUFFICES ASSUME x \notin S PROVE FALSE
    OBVIOUS
  <2>1. PICK y \in S : y <= x
    OBVIOUS
  <2>2. x - 1 \in Nat
    BY <2>1
  <2>3. \A z \in S : z <= x - 1
    OBVIOUS
  <2>4. x - 1 \in Bounds
    BY <2>2, <2>3
  <2> QED BY <2>4, <1>3
<1> QED BY <1>1, <1>3, <1>4 DEF Min, Max

-----------------------------------------------------------------------------
(* Sequences and sums. *)

LEMMA FunctionIsSeq ==
  ASSUME NEW S, NEW n \in Nat, NEW f \in [1 .. n -> S]
  PROVE  f \in Seq(S) /\ Len(f) = n /\ DOMAIN f = 1 .. n
  OBVIOUS

PartialSums(numbers) ==
  LET sum[i \in 0 .. Len(numbers)] == IF i = 0 THEN 0 ELSE sum[i - 1] + numbers[i]
  IN  sum

LEMMA PartialSumsDef ==
  ASSUME NEW s \in Seq(Nat)
  PROVE  PartialSums(s) = [i \in 0 .. Len(s) |-> IF i = 0 THEN 0 ELSE PartialSums(s)[i - 1] + s[i]]
<1> DEFINE f == PartialSums(s)
<1>1. FiniteNatInductiveDefHypothesis(f, 0, LAMBDA v, i : v + s[i], 0, Len(s))
  BY DEF FiniteNatInductiveDefHypothesis, PartialSums
<1>2. 0 \in Nat /\ Len(s) \in Nat
  OBVIOUS
<1> HIDE DEF f
<1>3. FiniteNatInductiveDefConclusion(f, 0, LAMBDA v, i : v + s[i], 0, Len(s))
  BY ONLY <1>1, <1>2, FiniteNatInductiveDef, Zenon
<1>4. f = [i \in 0 .. Len(s) |-> IF i = 0 THEN 0 ELSE f[i - 1] + s[i]]
  BY <1>3 DEF FiniteNatInductiveDefConclusion
<1> QED BY <1>4 DEF f

\* A sum of naturals is a natural, is positive exactly when a summand is, and
\* counts summands that are all 1.
LEMMA SumOfNaturals ==
  ASSUME NEW s \in Seq(Nat)
  PROVE  /\ SumOf(s) \in Nat
         /\ SumOf(s) > 0 <=> \E i \in DOMAIN s : s[i] > 0
         /\ (\A i \in DOMAIN s : s[i] = 1) => SumOf(s) = Len(s)
<1> DEFINE f == PartialSums(s)
           Good(k) == /\ f[k] \in Nat
                      /\ f[k] > 0 <=> \E i \in 1 .. k : s[i] > 0
                      /\ (\A i \in DOMAIN s : s[i] = 1) => f[k] = k
           S == {k \in Nat : k <= Len(s) => Good(k)}
<1>1. f = [i \in 0 .. Len(s) |-> IF i = 0 THEN 0 ELSE f[i - 1] + s[i]]
  BY PartialSumsDef
<1>2. SumOf(s) = f[Len(s)]
  BY DEF SumOf, PartialSums
<1> HIDE DEF f
<1>3. 0 \in S
  BY <1>1
<1>4. ASSUME NEW n \in Nat, n \in S PROVE n + 1 \in S
  <2> SUFFICES ASSUME n + 1 <= Len(s) PROVE Good(n + 1)
    OBVIOUS
  <2>1. Good(n)
    BY <1>4
  <2>2. f[n + 1] = f[n] + s[n + 1] /\ s[n + 1] \in Nat
    BY <1>1
  <2>3. (\E i \in 1 .. n + 1 : s[i] > 0) <=> s[n + 1] > 0 \/ \E i \in 1 .. n : s[i] > 0
    OBVIOUS
  <2>4. (\A i \in DOMAIN s : s[i] = 1) => f[n + 1] = n + 1
    <3>1. n + 1 \in DOMAIN s
      OBVIOUS
    <3> QED BY <2>1, <2>2, <3>1
  <2>5. /\ f[n + 1] \in Nat
        /\ f[n + 1] > 0 <=> s[n + 1] > 0 \/ f[n] > 0
    BY <2>1, <2>2
  <2>6. f[n + 1] > 0 <=> \E i \in 1 .. n + 1 : s[i] > 0
    BY <2>1, <2>3, <2>5
  <2> QED BY <2>4, <2>5, <2>6
<1>5. Len(s) \in S
  <2>1. Len(s) \in Nat
    OBVIOUS
  <2> HIDE DEF S, Good
  <2>2. Nat \subseteq S
    BY ONLY <1>3, <1>4, NaturalInduction
  <2> QED BY <2>1, <2>2
<1>6. Good(Len(s))
  BY <1>5
<1> QED BY <1>2, <1>6

LEMMA TotalOfWeights ==
  ASSUME NEW tags \in Seq(Weighted)
  PROVE  /\ Total(tags) \in Nat
         /\ Total(tags) > 0 <=> \E i \in DOMAIN tags : tags[i].weight > 0
         /\ (\A i \in DOMAIN tags : tags[i].weight = 1) => Total(tags) = Len(tags)
<1> DEFINE s == [i \in DOMAIN tags |-> IF tags[i].weight > 0 THEN tags[i].weight ELSE 0]
<1>0. s \in [1 .. Len(tags) -> Nat] /\ DOMAIN tags = 1 .. Len(tags)
  <2>1. DOMAIN tags = 1 .. Len(tags)
    OBVIOUS
  <2>2. \A i \in 1 .. Len(tags) : tags[i] \in Weighted
    OBVIOUS
  <2>3. \A i \in 1 .. Len(tags) : tags[i].weight \in Int
    BY <2>2 DEF Weighted
  <2> QED BY <2>1, <2>3
<1>1. s \in Seq(Nat) /\ Len(s) = Len(tags) /\ DOMAIN s = DOMAIN tags
  <2>1. Len(tags) \in Nat
    OBVIOUS
  <2> HIDE DEF s
  <2>2. s \in Seq(Nat) /\ Len(s) = Len(tags) /\ DOMAIN s = 1 .. Len(tags)
    BY ONLY <1>0, <2>1, FunctionIsSeq
  <2> QED BY <1>0, <2>2
<1>2. \A i \in DOMAIN tags : /\ s[i] > 0 <=> tags[i].weight > 0
                             /\ tags[i].weight = 1 => s[i] = 1
  BY <1>0 DEF Weighted
<1>3. Total(tags) = SumOf(s)
  BY DEF Total
<1> HIDE DEF s
<1> QED BY <1>1, <1>2, <1>3, SumOfNaturals

-----------------------------------------------------------------------------
(* Merging the tags of a scope. *)

PartialUniques(values) ==
  LET out[i \in 0 .. Len(values)] == IF i = 0 THEN <<>> ELSE Including(out[i - 1], values[i])
  IN  out

LEMMA PartialUniquesDef ==
  ASSUME NEW S, NEW values \in Seq(S)
  PROVE  PartialUniques(values) =
           [i \in 0 .. Len(values) |->
              IF i = 0 THEN <<>> ELSE Including(PartialUniques(values)[i - 1], values[i])]
<1> DEFINE f == PartialUniques(values)
<1>1. FiniteNatInductiveDefHypothesis(f, <<>>, LAMBDA v, i : Including(v, values[i]), 0, Len(values))
  BY DEF FiniteNatInductiveDefHypothesis, PartialUniques
<1>2. 0 \in Nat /\ Len(values) \in Nat
  OBVIOUS
<1> HIDE DEF f
<1>3. FiniteNatInductiveDefConclusion(f, <<>>, LAMBDA v, i : Including(v, values[i]), 0, Len(values))
  BY ONLY <1>1, <1>2, FiniteNatInductiveDef, Zenon
<1>4. f = [i \in 0 .. Len(values) |-> IF i = 0 THEN <<>> ELSE Including(f[i - 1], values[i])]
  BY <1>3 DEF FiniteNatInductiveDefConclusion
<1> QED BY <1>4 DEF f

\* A sequence that holds no value twice keeps that when a value is included.
LEMMA IncludingKeepsUnique ==
  ASSUME NEW S, NEW out \in Seq(S), IsInjective(out), NEW v \in S
  PROVE  /\ Including(out, v) \in Seq(S)
         /\ IsInjective(Including(out, v))
         /\ \A w : Contains(Including(out, v), w) <=> w = v \/ Contains(out, w)
<1>1. CASE Contains(out, v)
  BY <1>1 DEF Including
<1>2. CASE ~Contains(out, v)
  <2>1. Including(out, v) = Append(out, v)
    BY <1>2 DEF Including
  <2>2. /\ Append(out, v) \in Seq(S)
        /\ Len(Append(out, v)) = Len(out) + 1
        /\ DOMAIN Append(out, v) = 1 .. Len(out) + 1
        /\ Append(out, v)[Len(out) + 1] = v
        /\ \A i \in 1 .. Len(out) : Append(out, v)[i] = out[i]
    OBVIOUS
  <2>3. \A i \in 1 .. Len(out) : out[i] # v
    BY <1>2 DEF Contains
  <2>4. \A i, j \in 1 .. Len(out) : out[i] = out[j] => i = j
    BY DEF IsInjective
  <2>5. IsInjective(Append(out, v))
    <3> DEFINE app == Append(out, v)
    <3>1. SUFFICES ASSUME NEW i \in 1 .. Len(out) + 1, NEW j \in 1 .. Len(out) + 1, app[i] = app[j]
                   PROVE  i = j
      BY <2>2 DEF IsInjective
    <3>2. CASE i \in 1 .. Len(out) /\ j \in 1 .. Len(out)
      BY <3>1, <3>2, <2>2, <2>4
    <3>3. CASE i = Len(out) + 1 /\ j \in 1 .. Len(out)
      BY <3>1, <3>3, <2>2, <2>3
    <3>4. CASE j = Len(out) + 1 /\ i \in 1 .. Len(out)
      BY <3>1, <3>4, <2>2, <2>3
    <3> QED BY <3>2, <3>3, <3>4
  <2>6. \A w : Contains(Append(out, v), w) <=> w = v \/ Contains(out, w)
    BY <2>2 DEF Contains
  <2> QED BY <2>1, <2>2, <2>5, <2>6
<1> QED BY <1>1, <1>2

\* uniqueStrings drops what it has seen and nothing else.
LEMMA UniqueStringsOnce ==
  ASSUME NEW S, NEW values \in Seq(S)
  PROVE  /\ UniqueStrings(values) \in Seq(S)
         /\ IsInjective(UniqueStrings(values))
         /\ \A w : Contains(UniqueStrings(values), w) <=> Contains(values, w)
<1> DEFINE f == PartialUniques(values)
           Good(k) == /\ f[k] \in Seq(S)
                      /\ IsInjective(f[k])
                      /\ \A w : Contains(f[k], w) <=> \E i \in 1 .. k : values[i] = w
           N == {k \in Nat : k <= Len(values) => Good(k)}
<1>1. f = [i \in 0 .. Len(values) |-> IF i = 0 THEN <<>> ELSE Including(f[i - 1], values[i])]
  BY PartialUniquesDef
<1>2. UniqueStrings(values) = f[Len(values)]
  BY DEF UniqueStrings, PartialUniques
<1> HIDE DEF f
<1>3. 0 \in N
  <2>1. f[0] = <<>>
    BY <1>1
  <2>2. <<>> \in Seq(S) /\ IsInjective(<<>>) /\ \A w : ~Contains(<<>>, w)
    BY DEF IsInjective, Contains
  <2>3. \A w : ~(\E i \in 1 .. 0 : values[i] = w)
    OBVIOUS
  <2>4. Good(0)
    BY <2>1, <2>2, <2>3
  <2> QED BY <2>4
<1>4. ASSUME NEW n \in Nat, n \in N PROVE n + 1 \in N
  <2> SUFFICES ASSUME n + 1 <= Len(values) PROVE Good(n + 1)
    OBVIOUS
  <2>1. Good(n)
    BY <1>4
  <2>2. f[n + 1] = Including(f[n], values[n + 1]) /\ values[n + 1] \in S
    BY <1>1
  <2>3. /\ f[n + 1] \in Seq(S)
        /\ IsInjective(f[n + 1])
        /\ \A w : Contains(f[n + 1], w) <=> w = values[n + 1] \/ Contains(f[n], w)
    BY <2>1, <2>2, IncludingKeepsUnique
  <2>4. \A w : (\E i \in 1 .. n + 1 : values[i] = w) <=>
               w = values[n + 1] \/ \E i \in 1 .. n : values[i] = w
    OBVIOUS
  <2> QED BY <2>1, <2>3, <2>4
<1>5. Len(values) \in N
  <2> HIDE DEF N
  <2> QED BY <1>3, <1>4, NaturalInduction
<1>6. Good(Len(values))
  BY <1>5
<1> QED BY <1>2, <1>6 DEF Contains

\* The tags of a scope's task: weighted, each once.
LEMMA MergedTagsOnce ==
  ASSUME NEW scopeIDs \in Seq(Tags), NEW itemIDs \in Seq(Tags), NEW explicit \in Seq(Weighted)
  PROVE  /\ MergeScopeTags(scopeIDs, itemIDs, explicit) \in Seq(Weighted)
         /\ IsInjective(TagIDs(MergeScopeTags(scopeIDs, itemIDs, explicit)))
<1> DEFINE bare == scopeIDs \o itemIDs
           values == bare \o TagIDs(explicit)
           ids == UniqueStrings(values)
           Given(t) == {k \in DOMAIN explicit : explicit[k].tag = t}
           Positive(t) == {k \in Given(t) : explicit[k].weight > 0}
           Weight(t) == IF Positive(t) # {} THEN explicit[Max(Positive(t))].weight
                        ELSE IF Contains(bare, t) THEN 0 ELSE explicit[Min(Given(t))].weight
           merged == [i \in DOMAIN ids |-> [tag |-> ids[i], weight |-> Weight(ids[i])]]
<1>1. MergeScopeTags(scopeIDs, itemIDs, explicit) = merged
  BY DEF MergeScopeTags
<1>2. /\ Len(explicit) \in Nat /\ DOMAIN explicit = 1 .. Len(explicit)
      /\ \A k \in DOMAIN explicit : explicit[k].tag \in Tags /\ explicit[k].weight \in Int
  <2>1. \A k \in DOMAIN explicit : explicit[k] \in Weighted
    OBVIOUS
  <2> QED BY <2>1 DEF Weighted
<1>3. /\ TagIDs(explicit) \in Seq(Tags)
      /\ Len(TagIDs(explicit)) = Len(explicit)
      /\ \A k \in DOMAIN explicit : TagIDs(explicit)[k] = explicit[k].tag
  <2>1. TagIDs(explicit) \in [1 .. Len(explicit) -> Tags]
    BY <1>2 DEF TagIDs
  <2>2. \A k \in DOMAIN explicit : TagIDs(explicit)[k] = explicit[k].tag
    BY DEF TagIDs
  <2> QED BY <1>2, <2>1, <2>2, FunctionIsSeq
<1>4. bare \in Seq(Tags) /\ values \in Seq(Tags)
  BY <1>3
<1>5. /\ ids \in Seq(Tags) /\ IsInjective(ids)
      /\ \A t : Contains(ids, t) <=> Contains(values, t)
  <2> HIDE DEF values
  <2> QED BY <1>4, UniqueStringsOnce
<1>6. ASSUME NEW t, Contains(values, t), ~Contains(bare, t) PROVE Given(t) # {}
  <2>1. PICK i \in 1 .. Len(values) : values[i] = t
    BY <1>6 DEF Contains
  <2>2. /\ Len(values) = Len(bare) + Len(explicit)
        /\ i > Len(bare) => values[i] = TagIDs(explicit)[i - Len(bare)]
        /\ i <= Len(bare) => values[i] = bare[i]
    <3> DEFINE tagged == TagIDs(explicit)
    <3> HIDE DEF bare, tagged
    <3>1. bare \in Seq(Tags) /\ tagged \in Seq(Tags) /\ Len(tagged) = Len(explicit)
      BY <1>3, <1>4 DEF tagged
    <3>2. /\ Len(bare \o tagged) = Len(bare) + Len(tagged)
          /\ \A k \in 1 .. Len(bare) + Len(tagged) :
               (bare \o tagged)[k] = IF k <= Len(bare) THEN bare[k] ELSE tagged[k - Len(bare)]
      BY <3>1, ConcatProperties
    <3> QED BY <3>1, <3>2 DEF tagged
  <2>3. i > Len(bare)
    BY <1>4, <1>6, <2>1, <2>2 DEF Contains
  <2>4. i - Len(bare) \in DOMAIN explicit
    BY <1>2, <1>4, <2>1, <2>2, <2>3
  <2> QED BY <1>3, <2>1, <2>2, <2>3, <2>4
<1>7. ASSUME NEW i \in DOMAIN ids PROVE Weight(ids[i]) \in Int
  <2> DEFINE t == ids[i]
  <2>1. Contains(values, t)
    <3> HIDE DEF ids, values
    <3>1. i \in 1 .. Len(ids)
      BY <1>5, <1>7
    <3>2. Contains(ids, ids[i])
      BY <3>1 DEF Contains
    <3> QED BY <1>5, <3>2
  <2>2. CASE Positive(t) # {}
    <3>1. Max(Positive(t)) \in Positive(t)
      <4>1. Positive(t) \in SUBSET (1 .. Len(explicit))
        BY <1>2
      <4> HIDE DEF Positive
      <4> QED BY <1>2, <2>2, <4>1, MinMax
    <3> QED BY <1>2, <2>2, <3>1
  <2>3. CASE Positive(t) = {} /\ ~Contains(bare, t)
    <3>1. Min(Given(t)) \in Given(t)
      <4>1. Given(t) \in SUBSET (1 .. Len(explicit)) /\ Given(t) # {}
        BY <1>2, <1>6, <2>1, <2>3
      <4> HIDE DEF Given
      <4> QED BY <1>2, <4>1, MinMax
    <3> QED BY <1>2, <2>3, <3>1
  <2>4. CASE Positive(t) = {} /\ Contains(bare, t)
    BY <2>4
  <2> QED BY <2>2, <2>3, <2>4
<1>8. /\ DOMAIN ids = 1 .. Len(ids) /\ Len(ids) \in Nat
      /\ \A i \in DOMAIN ids : ids[i] \in Tags
  BY <1>5
<1>9. merged \in Seq(Weighted) /\ DOMAIN merged = DOMAIN ids
  <2>1. \A i \in DOMAIN ids : [tag |-> ids[i], weight |-> Weight(ids[i])] \in Weighted
    <3> HIDE DEF Weight, ids
    <3> QED BY <1>7, <1>8 DEF Weighted
  <2>2. merged \in [1 .. Len(ids) -> Weighted]
    <3> HIDE DEF Weight, ids
    <3> QED BY <1>8, <2>1
  <2> HIDE DEF merged
  <2> QED BY <1>8, <2>2, FunctionIsSeq
<1>10. TagIDs(merged) = ids
  <2> HIDE DEF Weight, ids
  <2>1. \A i \in DOMAIN ids : merged[i].tag = ids[i]
    OBVIOUS
  <2>2. DOMAIN merged = DOMAIN ids
    OBVIOUS
  <2>3. TagIDs(merged) = [i \in DOMAIN ids |-> ids[i]]
    BY <2>1, <2>2 DEF TagIDs
  <2> QED BY <1>5, <2>3
<1> QED BY <1>1, <1>5, <1>9, <1>10

\* A scope asks for tasks like those a teacher could ask for one by one, save
\* that none names a tag twice.
LEMMA ScopeAsksForTasks ==
  ASSUME NEW scope \in Scope
  PROVE  /\ TasksOf(scope) \in Seq(Task) \ {<<>>}
         /\ \A i \in DOMAIN TasksOf(scope) : IsInjective(TagIDs(TasksOf(scope)[i].tags))
<1> DEFINE asked == TasksOf(scope)
           Topic(i) == UniqueStrings(scope.topicIDs \o scope.items[i].topicIDs)
           Tag(i) == MergeScopeTags(scope.tagIDs, scope.items[i].tagIDs, scope.items[i].tags)
<1>1. /\ scope.topicIDs \in Seq(TopicIds) /\ scope.tagIDs \in Seq(Tags)
      /\ scope.items \in Seq(ScopeItem) /\ scope.items # <<>>
  BY DEF Scope
<1>2. /\ Len(scope.items) \in Nat \ {0}
      /\ DOMAIN scope.items = 1 .. Len(scope.items)
      /\ \A i \in DOMAIN scope.items : scope.items[i] \in ScopeItem
  BY <1>1
<1>3. ASSUME NEW i \in DOMAIN scope.items
      PROVE  /\ scope.items[i].difficulty \in Int
             /\ Topic(i) \in Seq(TopicIds)
             /\ Tag(i) \in Seq(Weighted)
             /\ IsInjective(TagIDs(Tag(i)))
  <2> DEFINE item == scope.items[i]
  <2>1. /\ item.difficulty \in Int /\ item.topicIDs \in Seq(TopicIds)
        /\ item.tagIDs \in Seq(Tags) /\ item.tags \in Seq(Weighted)
    BY <1>2, <1>3 DEF ScopeItem
  <2>2. scope.topicIDs \o item.topicIDs \in Seq(TopicIds)
    BY <1>1, <2>1
  <2> HIDE DEF item
  <2>3. UniqueStrings(scope.topicIDs \o item.topicIDs) \in Seq(TopicIds)
    BY <2>2, UniqueStringsOnce
  <2>4. /\ MergeScopeTags(scope.tagIDs, item.tagIDs, item.tags) \in Seq(Weighted)
        /\ IsInjective(TagIDs(MergeScopeTags(scope.tagIDs, item.tagIDs, item.tags)))
    BY <1>1, <2>1, MergedTagsOnce
  <2> QED BY <2>1, <2>3, <2>4 DEF item
<1>4. asked = [i \in DOMAIN scope.items |->
                 [difficulty |-> scope.items[i].difficulty, topics |-> Topic(i), tags |-> Tag(i)]]
  BY DEF TasksOf
<1> HIDE DEF asked, Topic, Tag
<1>5. \A i \in DOMAIN scope.items : asked[i] \in Task /\ asked[i].tags = Tag(i)
  BY <1>3, <1>4 DEF Task
<1>6. asked \in [1 .. Len(scope.items) -> Task]
  BY <1>2, <1>4, <1>5
<1>7. asked \in Seq(Task) /\ Len(asked) = Len(scope.items) /\ DOMAIN asked = DOMAIN scope.items
  BY <1>2, <1>6, FunctionIsSeq
<1> QED BY <1>2, <1>3, <1>5, <1>7 DEF asked

-----------------------------------------------------------------------------
(* Weights. *)

LEMMA WeightedSeq ==
  ASSUME NEW tags \in Seq(Weighted)
  PROVE  /\ Len(tags) \in Nat /\ DOMAIN tags = 1 .. Len(tags)
         /\ \A i \in DOMAIN tags : tags[i] \in Weighted /\ tags[i].tag \in Tags /\ tags[i].weight \in Int
<1>1. Len(tags) \in Nat /\ DOMAIN tags = 1 .. Len(tags) /\ \A i \in DOMAIN tags : tags[i] \in Weighted
  OBVIOUS
<1> QED BY <1>1 DEF Weighted

\* What is stored adds up; a tag is left without a positive share only when
\* another one has the teacher's or the evaluator's.
LEMMA SharesOfWhole ==
  ASSUME NEW asked, NEW tags \in Seq(Weighted)
  PROVE  LET shared == Shares(asked, tags) IN
         /\ shared.of \in Seq(Weighted) /\ Len(shared.of) = Len(tags) /\ DOMAIN shared.of = DOMAIN tags
         /\ \A i \in DOMAIN tags : shared.of[i].tag = tags[i].tag
         /\ shared.whole \in Nat \ {0}
         /\ shared.of # <<>> => Total(shared.of) = shared.whole
         /\ (\E i \in DOMAIN tags : tags[i].weight > 0) => shared.of = tags
         /\ ~(\E i \in DOMAIN tags : tags[i].weight > 0) =>
              \A i \in DOMAIN tags : shared.of[i].weight = 1
<1> DEFINE shared == Shares(asked, tags)
           ones == [i \in DOMAIN tags |-> [tags[i] EXCEPT !.weight = 1]]
<1>1. CASE Total(tags) > 0
  <2>1. shared = [of |-> tags, whole |-> Total(tags)]
    BY <1>1 DEF Shares
  <2> QED BY <1>1, <2>1, TotalOfWeights
<1>2. CASE ~(Total(tags) > 0)
  <2>1. shared = [of |-> ones, whole |-> AtLeast1(Len(tags))]
    BY <1>2 DEF Shares
  <2>2. \A i \in DOMAIN tags : ones[i] \in Weighted /\ ones[i].weight = 1 /\ ones[i].tag = tags[i].tag
    <3> SUFFICES ASSUME NEW i \in DOMAIN tags
                 PROVE  ones[i] \in Weighted /\ ones[i].weight = 1 /\ ones[i].tag = tags[i].tag
      OBVIOUS
    <3>1. tags[i] \in [tag : Tags, weight : Int]
      BY WeightedSeq DEF Weighted
    <3>2. ones[i] = [tags[i] EXCEPT !.weight = 1]
      OBVIOUS
    <3> HIDE DEF ones
    <3> QED BY <3>1, <3>2 DEF Weighted
  <2>3. ones \in Seq(Weighted) /\ Len(ones) = Len(tags) /\ DOMAIN ones = DOMAIN tags
    <3>1. ones \in [1 .. Len(tags) -> Weighted]
      BY <2>2, WeightedSeq
    <3> HIDE DEF ones
    <3> QED BY <3>1, WeightedSeq, FunctionIsSeq
  <2> HIDE DEF ones
  <2>4. Total(ones) = Len(tags)
    BY <2>2, <2>3, TotalOfWeights
  <2>5. ones # <<>> => Len(tags) > 0
    BY <2>3, WeightedSeq
  <2>6. AtLeast1(Len(tags)) \in Nat \ {0} /\ (Len(tags) > 0 => AtLeast1(Len(tags)) = Len(tags))
    BY WeightedSeq DEF AtLeast1
  <2> QED BY <1>2, <2>1, <2>2, <2>3, <2>4, <2>5, <2>6, TotalOfWeights
<1> QED BY <1>1, <1>2

LEMMA RoundedNatural ==
  ASSUME NEW num \in Nat, NEW den \in Nat \ {0}
  PROVE  Rounded(num, den) \in Nat
<1>1. num \div den \in Nat
  OBVIOUS
<1> QED BY <1>1 DEF Rounded

\* The evaluator's shares are never negative.
LEMMA NormalizedWeights ==
  ASSUME NEW tags \in Seq(Weighted), NEW raw \in [Tags -> RawWeights]
  PROVE  /\ DOMAIN NormalizeWeights(tags, raw) = {tags[i].tag : i \in DOMAIN tags}
         /\ \A t \in DOMAIN NormalizeWeights(tags, raw) :
              t \in Tags /\ NormalizeWeights(tags, raw)[t] \in Nat
<1> DEFINE weight == [t \in Tags |-> IF raw[t] <= 0 THEN Unit ELSE raw[t]]
           proposed == [i \in DOMAIN tags |-> weight[tags[i].tag]]
           named == ToSet(TagIDs(tags))
<1>1. NormalizeWeights(tags, raw) = [t \in named |-> Rounded(weight[t] * Unit, SumOf(proposed))]
  BY DEF NormalizeWeights
<1>2. named = {tags[i].tag : i \in DOMAIN tags} /\ named \subseteq Tags
  BY WeightedSeq DEF ToSet, TagIDs
<1>3. \A t \in Tags : weight[t] \in Nat \ {0} /\ weight[t] * Unit \in Nat
  <2>1. \A t \in Tags : raw[t] \in Int
    BY EvaluatorAssumption
  <2>2. \A t \in Tags : weight[t] \in Nat \ {0}
    BY <2>1, UnitAssumption
  <2> QED BY <2>2, UnitAssumption
<1>4. /\ proposed \in [1 .. Len(tags) -> Nat]
      /\ \A i \in DOMAIN tags : proposed[i] > 0
  <2> HIDE DEF weight
  <2> QED BY <1>3, WeightedSeq
<1>5. tags # <<>> => SumOf(proposed) \in Nat \ {0}
  <2> HIDE DEF proposed
  <2>1. proposed \in Seq(Nat) /\ DOMAIN proposed = DOMAIN tags
    BY <1>4, WeightedSeq, FunctionIsSeq
  <2>2. tags # <<>> => 1 \in DOMAIN tags
    BY WeightedSeq
  <2> QED BY <1>4, <2>1, <2>2, SumOfNaturals
<1> HIDE DEF weight, proposed
<1>6. ASSUME NEW t \in named PROVE Rounded(weight[t] * Unit, SumOf(proposed)) \in Nat
  <2>1. tags # <<>>
    BY <1>2, <1>6
  <2> QED BY <1>2, <1>3, <1>5, <2>1, RoundedNatural
<1> QED BY <1>1, <1>2, <1>6

\* A gap takes the evaluator's answer when that is positive.
LEMMA FilledFills ==
  ASSUME NEW task \in Task, NEW asked \in Task, Fills(task, asked),
         NEW difficulty \in Difficulties, NEW raw \in [Tags -> RawWeights]
  PROVE  LET weights == NormalizeWeights(task.tags, raw)
             filled == Filled(task, difficulty, weights)
         IN  /\ filled \in Task /\ Fills(filled, asked)
             /\ Len(filled.tags) = Len(task.tags) /\ DOMAIN filled.tags = DOMAIN task.tags
             /\ \A i \in DOMAIN task.tags :
                  /\ filled.tags[i].tag = task.tags[i].tag
                  /\ filled.tags[i].weight <= 0 =>
                       /\ filled.tags[i].tag \in DOMAIN weights
                       /\ weights[filled.tags[i].tag] = 0
<1> DEFINE weights == NormalizeWeights(task.tags, raw)
           filled == Filled(task, difficulty, weights)
           tags == task.tags
<1>1. /\ tags \in Seq(Weighted) /\ task.difficulty \in Int /\ task.topics \in Seq(TopicIds)
      /\ asked.tags \in Seq(Weighted) /\ asked.difficulty \in Int
  BY DEF Task
<1>2. /\ DOMAIN weights = {tags[i].tag : i \in DOMAIN tags}
      /\ \A t \in DOMAIN weights : t \in Tags /\ weights[t] \in Nat
  BY <1>1, NormalizedWeights
<1> DEFINE Weight(i) == IF tags[i].weight <= 0 /\ weights[tags[i].tag] > 0
                          THEN weights[tags[i].tag] ELSE tags[i].weight
<1> HIDE DEF weights
<1>3. /\ filled.topics = task.topics
      /\ filled.difficulty = IF task.difficulty <= 0 THEN difficulty ELSE task.difficulty
      /\ filled.tags = [i \in DOMAIN tags |-> [tags[i] EXCEPT !.weight = Weight(i)]]
      /\ DOMAIN filled.tags = DOMAIN tags
      /\ filled = [difficulty |-> filled.difficulty, topics |-> filled.topics, tags |-> filled.tags]
  BY DEF Filled
<1>4. ASSUME NEW i \in DOMAIN tags
      PROVE  /\ filled.tags[i] \in Weighted
             /\ filled.tags[i].tag = tags[i].tag
             /\ filled.tags[i].weight = Weight(i)
             /\ weights[tags[i].tag] \in Nat
  <2>1. tags[i] \in [tag : Tags, weight : Int] /\ tags[i].weight \in Int
    BY <1>1, WeightedSeq DEF Weighted
  <2>2. weights[tags[i].tag] \in Nat
    BY <1>2
  <2>3. filled.tags[i] = [tags[i] EXCEPT !.weight = Weight(i)] /\ Weight(i) \in Int
    BY <1>3, <2>1, <2>2
  <2> HIDE DEF filled, Weight
  <2> QED BY <2>1, <2>2, <2>3 DEF Weighted
<1>5. filled.tags \in Seq(Weighted) /\ Len(filled.tags) = Len(tags)
  <2>1. filled.tags \in [1 .. Len(tags) -> Weighted]
    <3> HIDE DEF filled
    <3>1. DOMAIN filled.tags = 1 .. Len(tags)
      BY <1>1, <1>3, WeightedSeq
    <3> QED BY <1>3, <1>4, <3>1
  <2> HIDE DEF filled
  <2> QED BY <1>1, <2>1, WeightedSeq, FunctionIsSeq
<1>6. filled \in Task
  <2>1. filled.difficulty \in Int
    <3>1. difficulty \in Int
      BY EvaluatorAssumption
    <3> HIDE DEF filled
    <3> QED BY <1>1, <1>3, <3>1
  <2> HIDE DEF filled
  <2> QED BY <1>1, <1>3, <1>5, <2>1 DEF Task
<1>7. TagIDs(filled.tags) = TagIDs(asked.tags)
  <2>1. TagIDs(filled.tags) = TagIDs(tags)
    <3> HIDE DEF filled
    <3> QED BY <1>3, <1>4 DEF TagIDs
  <2> QED BY <2>1 DEF Fills
<1>8. \A i \in DOMAIN asked.tags :
        asked.tags[i].weight > 0 => filled.tags[i].weight = asked.tags[i].weight
  <2>1. DOMAIN asked.tags = DOMAIN tags
    BY DEF Fills, TagIDs
  <2>2. \A i \in DOMAIN tags : asked.tags[i].weight \in Int /\ tags[i].weight \in Int
    BY <1>1, <2>1, WeightedSeq
  <2> HIDE DEF filled
  <2> QED BY <1>4, <2>1, <2>2 DEF Fills
<1>9. Fills(filled, asked)
  <2>1. asked.difficulty > 0 => filled.difficulty = asked.difficulty
    BY <1>1, <1>3 DEF Fills
  <2> QED BY <1>3, <1>7, <1>8, <2>1 DEF Fills
<1>10. ASSUME NEW i \in DOMAIN tags, filled.tags[i].weight <= 0
       PROVE  filled.tags[i].tag \in DOMAIN weights /\ weights[filled.tags[i].tag] = 0
  <2>1. tags[i].weight \in Int
    BY <1>1, WeightedSeq
  <2> HIDE DEF filled
  <2> QED BY <1>2, <1>4, <1>10, <2>1
<1> QED BY <1>3, <1>4, <1>5, <1>6, <1>9, <1>10 DEF weights

-----------------------------------------------------------------------------
(* The inductive invariant. *)

ContentIInv == ContentInv /\ TeacherProportionsKept /\ LowShareHasCause /\ ScopeStoresPrefix

\* What is said of stored tasks and of the requests that stored them.
StoredInv ==
  SharesAddUp /\ StoredFollowsTask /\ TeacherProportionsKept /\ LowShareHasCause

LEMMA ContentInit == Init => ContentIInv
<1> SUFFICES ASSUME Init PROVE ContentIInv
  OBVIOUS
<1> USE DEF Init
<1>1. NoTask \in Task /\ <<>> \in Seq(Task) /\ <<>> \in Seq(StoredTask)
  BY DEF NoTask, Task
<1>2. TypeOK
  <2>1. draft \in [Requests -> Task] /\ todo \in [Requests -> Seq(Task)]
    BY <1>1
  <2> QED BY <1>1, <2>1 DEF TypeOK, Running
<1>3. DOMAIN tasks = {} /\ tasks = <<>>
  OBVIOUS
<1>4. StoredInv
  BY <1>3 DEF StoredInv, SharesAddUp, StoredFollowsTask, TeacherProportionsKept, LowShareHasCause
<1>5. ScopeStoresPrefix /\ DraftFollowsTask
  BY <1>3 DEF ScopeStoresPrefix, StoredBy, DraftFollowsTask, FollowsTask, Running
<1>6. ScopesAreInsertable /\ ScopesNameTagsOnce
  BY DEF ScopesAreInsertable, ScopesNameTagsOnce
<1> QED BY <1>2, <1>4, <1>5, <1>6 DEF ContentIInv, ContentInv, StoredInv

\* A scope of several tasks can be inserted because the draft's tags are the
\* task's.
LEMMA ScopesInsertable ==
  ASSUME TypeOK', DraftFollowsTask', ScopesNameTagsOnce'
  PROVE  ScopesAreInsertable'
<1> SUFFICES ASSUME NEW r \in Requests, pc'[r] = "save", Len(todo'[r]) > 1
             PROVE  Insertable(r)'
  BY DEF ScopesAreInsertable
<1>1. at'[r] \in DOMAIN todo'[r] /\ Fills(draft[r], todo[r][at[r]])'
  BY DEF TypeOK, DraftFollowsTask, FollowsTask, Running
<1> QED BY <1>1 DEF ScopesNameTagsOnce, Fills, Insertable

LEMMA StoredTasks ==
  ASSUME TypeOK, NEW n \in DOMAIN tasks
  PROVE  /\ tasks[n] \in StoredTask /\ tasks[n].by \in Requests /\ tasks[n].item \in Nat \ {0}
         /\ tasks[n].topics \in Seq(TopicIds) /\ tasks[n].tags \in Seq(Weighted)
         /\ n \in 1 .. Len(tasks) /\ Len(tasks) \in Nat
<1>1. tasks \in Seq(StoredTask)
  BY DEF TypeOK
<1>2. tasks[n] \in StoredTask /\ n \in 1 .. Len(tasks) /\ Len(tasks) \in Nat
  BY <1>1
<1> QED BY <1>2 DEF StoredTask

\* What was stored stays true as long as nothing is stored and no request that
\* has begun is exchanged for another.
LEMMA StoredKept ==
  ASSUME ContentIInv, UNCHANGED <<evaluator, tasks, taskTags>>,
         catalogue \subseteq catalogue',
         \A q \in Requests : pc[q] # "idle" => pc'[q] # "idle" /\ todo'[q] = todo[q]
  PROVE  StoredInv'
<1> USE DEF ContentIInv, ContentInv
<1>1. \A n \in DOMAIN tasks : tasks[n] \in StoredTask /\ tasks[n].by \in Requests
  BY StoredTasks
<1>2. \A n \in DOMAIN tasks : /\ pc'[tasks[n].by] # "idle"
                              /\ todo'[tasks[n].by] = todo[tasks[n].by]
  BY <1>1 DEF StoredFollowsTask
<1>3. \A n \in DOMAIN tasks : Asked(tasks[n])' = Asked(tasks[n])
  BY <1>2 DEF Asked
<1>4. SharesAddUp'
  BY DEF SharesAddUp
<1>5. StoredFollowsTask'
  BY <1>2, <1>3 DEF StoredFollowsTask
<1>6. TeacherProportionsKept'
  BY <1>3 DEF TeacherProportionsKept
<1>7. LowShareHasCause'
  BY <1>3 DEF LowShareHasCause
<1> QED BY <1>4, <1>5, <1>6, <1>7 DEF StoredInv

\* The parts of the invariant that speak of handlers and of the order of what
\* they store.
HandlerInv == TypeOK /\ DraftFollowsTask /\ ScopesNameTagsOnce /\ ScopeStoresPrefix

LEMMA InvFromParts ==
  ASSUME HandlerInv', StoredInv'
  PROVE  ContentIInv'
  BY ScopesInsertable DEF HandlerInv, StoredInv, ContentIInv, ContentInv

\* Handlers of other requests go on as they were.
LEMMA OthersFollow ==
  ASSUME DraftFollowsTask, NEW q \in Requests, UNCHANGED evaluator, catalogue \subseteq catalogue',
         /\ pc'[q] = pc[q] /\ todo'[q] = todo[q] /\ at'[q] = at[q]
         /\ known'[q] = known[q] /\ draft'[q] = draft[q] /\ nothing'[q] = nothing[q]
  PROVE  FollowsTask(q)'
<1>1. FollowsTask(q)
  BY DEF DraftFollowsTask
<1>2. Fills(draft[q], todo[q][at[q]])' <=> Fills(draft[q], todo[q][at[q]])
  BY DEF Fills
<1> QED BY <1>1, <1>2 DEF FollowsTask

LEMMA TopicStep ==
  ASSUME ContentIInv, NEW p \in Topics, CreateTopic(p)
  PROVE  ContentIInv'
<1> USE DEF CreateTopic, handler, ContentIInv, ContentInv
<1>1. TypeOK'
  BY DEF TypeOK
<1>2. DraftFollowsTask'
  BY OthersFollow DEF DraftFollowsTask
<1>3. ScopesNameTagsOnce' /\ ScopeStoresPrefix'
  BY DEF ScopesNameTagsOnce, ScopeStoresPrefix, StoredBy, ItemsStored
<1> QED BY <1>1, <1>2, <1>3, StoredKept, InvFromParts DEF HandlerInv

LEMMA TagStep ==
  ASSUME ContentIInv, NEW t \in Tags, CreateTag(t)
  PROVE  ContentIInv'
<1> USE DEF CreateTag, handler, ContentIInv, ContentInv
<1>1. TypeOK'
  BY DEF TypeOK
<1>2. DraftFollowsTask'
  BY OthersFollow DEF DraftFollowsTask
<1>3. ScopesNameTagsOnce' /\ ScopeStoresPrefix'
  BY DEF ScopesNameTagsOnce, ScopeStoresPrefix, StoredBy, ItemsStored
<1> QED BY <1>1, <1>2, <1>3, StoredKept, InvFromParts DEF HandlerInv

-----------------------------------------------------------------------------
(* Steps that store nothing. *)

\* A handler that goes on with its task, or gives it up, owes only what its
\* own draft must satisfy.
LEMMA Proceeds ==
  ASSUME ContentIInv, NEW r \in Requests, pc[r] \in Running,
         NEW next \in Running \cup {"refused"}, pc' = [pc EXCEPT ![r] = next],
         UNCHANGED <<evaluator, topics, catalogue, todo, at, tasks, taskTags>>,
         known' \in [Requests -> Nat], draft' \in [Requests -> Task],
         titled' \in [Requests -> SUBSET Topics], nothing' \in [Requests -> SUBSET Tags],
         \A q \in Requests \ {r} :
           known'[q] = known[q] /\ draft'[q] = draft[q] /\ nothing'[q] = nothing[q],
         next \in Running => known'[r] \in 0 .. Len(draft'[r].tags),
         FollowsTask(r)'
  PROVE  ContentIInv'
<1> USE DEF ContentIInv, ContentInv
<1>1. /\ pc' \in [Requests -> Running \cup {"idle", "created", "refused"}]
      /\ pc'[r] = next /\ \A q \in Requests \ {r} : pc'[q] = pc[q]
      /\ "refused" \notin Running /\ "idle" \notin Running /\ "created" \notin Running
  BY DEF TypeOK, Running
<1>2. TypeOK'
  <2>1. /\ at[r] \in DOMAIN todo[r]
    BY DEF TypeOK, Running
  <2>2. \A q \in Requests : /\ pc'[q] # "idle" => at'[q] \in DOMAIN todo'[q]
                            /\ pc'[q] \in Running => known'[q] \in 0 .. Len(draft'[q].tags)
    BY <1>1, <2>1 DEF TypeOK
  <2> QED BY <1>1, <2>2 DEF TypeOK
<1>3. DraftFollowsTask'
  <2>1. \A q \in Requests \ {r} : FollowsTask(q)'
    BY <1>1, OthersFollow
  <2> QED BY <2>1 DEF DraftFollowsTask
<1>4. ScopesNameTagsOnce'
  BY DEF ScopesNameTagsOnce
<1>5. ScopeStoresPrefix'
  <2>1. \A q \in Requests : StoredBy(q)' = StoredBy(q) /\ ItemsStored(q)' = ItemsStored(q)
    BY DEF StoredBy, ItemsStored
  <2> QED BY <1>1, <2>1 DEF ScopeStoresPrefix
<1>6. StoredInv'
  <2>1. \A q \in Requests : pc[q] # "idle" => pc'[q] # "idle" /\ todo'[q] = todo[q]
    BY <1>1
  <2> QED BY <2>1, StoredKept
<1> QED BY <1>2, <1>3, <1>4, <1>5, <1>6, InvFromParts DEF HandlerInv

LEMMA RunningTask ==
  ASSUME ContentIInv, NEW r \in Requests, pc[r] \in Running
  PROVE  /\ FollowsTask(r) /\ todo[r] \in Seq(Task) /\ at[r] \in DOMAIN todo[r]
         /\ draft[r] \in Task /\ draft[r].tags \in Seq(Weighted)
         /\ todo[r][at[r]] \in Task /\ todo[r][at[r]].tags \in Seq(Weighted)
         /\ Len(draft[r].tags) \in Nat /\ DOMAIN draft[r].tags = 1 .. Len(draft[r].tags)
         /\ known[r] \in 0 .. Len(draft[r].tags)
<1>1. /\ FollowsTask(r) /\ todo[r] \in Seq(Task) /\ at[r] \in DOMAIN todo[r]
      /\ draft[r] \in Task /\ known[r] \in 0 .. Len(draft[r].tags)
  BY DEF ContentIInv, ContentInv, TypeOK, DraftFollowsTask, Running
<1>2. todo[r][at[r]] \in Task
  BY <1>1
<1>3. draft[r].tags \in Seq(Weighted) /\ todo[r][at[r]].tags \in Seq(Weighted)
  BY <1>1, <1>2 DEF Task
<1> QED BY <1>1, <1>2, <1>3, WeightedSeq

LEMMA TagFoundStep ==
  ASSUME ContentIInv, NEW r \in Requests, GetTag(r)
  PROVE  ContentIInv'
<1> USE DEF GetTag
<1>1. pc[r] = "tags" /\ "tags" \in Running
  BY DEF Running
<1>2. pc' = [pc EXCEPT ![r] = "tags"]
  BY <1>1 DEF ContentIInv, ContentInv, TypeOK
<1>3. /\ known' \in [Requests -> Nat] /\ known'[r] = known[r] + 1
      /\ known'[r] \in 0 .. Len(draft'[r].tags)
      /\ \A q \in Requests \ {r} : known'[q] = known[q]
  BY <1>1, RunningTask DEF ContentIInv, ContentInv, TypeOK
<1>4. /\ draft' \in [Requests -> Task] /\ titled' \in [Requests -> SUBSET Topics]
      /\ nothing' \in [Requests -> SUBSET Tags]
  BY DEF ContentIInv, ContentInv, TypeOK
<1>5. FollowsTask(r)'
  <2>1. FollowsTask(r)
    BY <1>1, RunningTask
  <2>2. \A i \in DOMAIN draft[r].tags : i <= known[r] + 1 => draft[r].tags[i].tag \in catalogue
    <3>1. \A i \in DOMAIN draft[r].tags : i <= known[r] => draft[r].tags[i].tag \in catalogue
      BY <1>1, <2>1 DEF FollowsTask
    <3>2. \A i \in DOMAIN draft[r].tags : i <= known[r] + 1 => i <= known[r] \/ i = known[r] + 1
      BY <1>1, RunningTask
    <3> QED BY <3>1, <3>2 DEF NextTag
  <2>3. Fills(draft[r], todo[r][at[r]])' <=> Fills(draft[r], todo[r][at[r]])
    BY DEF Fills
  <2> QED BY <1>1, <1>3, <2>1, <2>2, <2>3 DEF FollowsTask
<1> HIDE DEF GetTag
<1> QED BY <1>1, <1>2, <1>3, <1>4, <1>5, Proceeds DEF GetTag

\* A handler that gives up: an unknown tag, a failed query, an evaluator that
\* does not answer.
LEMMA RefuseStep ==
  ASSUME ContentIInv, NEW r \in Requests, pc[r] \in Running, Refuse(r), UNCHANGED <<tasks, taskTags>>
  PROVE  ContentIInv'
<1>1. "refused" \in Running \cup {"refused"} /\ "refused" \notin Running
  BY DEF Running
<1>2. /\ known' \in [Requests -> Nat] /\ draft' \in [Requests -> Task]
      /\ titled' \in [Requests -> SUBSET Topics] /\ nothing' \in [Requests -> SUBSET Tags]
      /\ pc'[r] = "refused"
  BY DEF Refuse, ContentIInv, ContentInv, TypeOK
<1>3. FollowsTask(r)'
  BY <1>1, <1>2 DEF FollowsTask
<1> QED BY <1>1, <1>2, <1>3, Proceeds DEF Refuse

LEMMA TagsDoneStep ==
  ASSUME ContentIInv, NEW r \in Requests, TagsDone(r)
  PROVE  ContentIInv'
<1> USE DEF TagsDone
<1>1. pc[r] = "tags" /\ "tags" \in Running /\ "topics" \in Running
  BY DEF Running
<1>2. /\ known' \in [Requests -> Nat] /\ draft' \in [Requests -> Task]
      /\ titled' \in [Requests -> SUBSET Topics] /\ nothing' \in [Requests -> SUBSET Tags]
      /\ pc'[r] = "topics" /\ known'[r] \in 0 .. Len(draft'[r].tags)
  BY <1>1, RunningTask DEF ContentIInv, ContentInv, TypeOK
<1>3. FollowsTask(r)'
  <2>1. FollowsTask(r)
    BY <1>1, RunningTask
  <2>2. \A i \in DOMAIN draft[r].tags : i <= known[r]
    BY <1>1, RunningTask
  <2>3. Fills(draft[r], todo[r][at[r]])' <=> Fills(draft[r], todo[r][at[r]])
    BY DEF Fills
  <2> QED BY <1>1, <1>2, <2>1, <2>2, <2>3 DEF FollowsTask
<1> HIDE DEF TagsDone
<1> QED BY <1>1, <1>2, <1>3, Proceeds DEF TagsDone

\* Without an evaluator, or with nothing left for it to say, the handler goes
\* straight to the transaction.
LEMMA TopicTitlesStep ==
  ASSUME ContentIInv, NEW r \in Requests, TopicTitles(r)
  PROVE  ContentIInv'
<1> USE DEF TopicTitles
<1> DEFINE then == IF evaluator /\ NeedsEvaluation(draft[r]) THEN "evaluate" ELSE "save"
<1>1. pc[r] = "topics" /\ "topics" \in Running /\ then \in Running /\ pc' = [pc EXCEPT ![r] = then]
  BY DEF Running
<1>2. /\ known' \in [Requests -> Nat] /\ draft' \in [Requests -> Task]
      /\ titled' \in [Requests -> SUBSET Topics] /\ nothing' \in [Requests -> SUBSET Tags]
      /\ pc'[r] = then /\ known'[r] \in 0 .. Len(draft'[r].tags)
  <2>1. ToSet(draft[r].topics) \cap ListTopics \subseteq Topics
    BY DEF ListTopics, ContentIInv, ContentInv, TypeOK
  <2> QED BY <1>1, <2>1, RunningTask DEF ContentIInv, ContentInv, TypeOK
<1>3. FollowsTask(r)'
  <2>1. FollowsTask(r)
    BY <1>1, RunningTask
  <2>2. then = "save" /\ evaluator => \A i \in DOMAIN draft[r].tags : ~(draft[r].tags[i].weight <= 0)
    BY DEF NeedsEvaluation
  <2>3. Fills(draft[r], todo[r][at[r]])' <=> Fills(draft[r], todo[r][at[r]])
    BY DEF Fills
  <2> HIDE DEF then
  <2>4. /\ draft' = draft /\ catalogue' = catalogue /\ evaluator' = evaluator /\ nothing' = nothing
        /\ todo' = todo /\ at' = at
    OBVIOUS
  <2>5. /\ Fills(draft[r], todo[r][at[r]]) /\ draft[r] = todo[r][at[r]]
        /\ \A i \in DOMAIN draft[r].tags : draft[r].tags[i].tag \in catalogue
    BY <1>1, <2>1 DEF FollowsTask
  <2> HIDE DEF TopicTitles
  <2> QED BY <1>2, <2>2, <2>3, <2>4, <2>5 DEF FollowsTask
<1> HIDE DEF TopicTitles, then
<1> QED BY <1>1, <1>2, <1>3, Proceeds DEF TopicTitles

\* The evaluator fills gaps only, and what it leaves it has rounded to nothing.
LEMMA EvaluateStep ==
  ASSUME ContentIInv, NEW r \in Requests,
         NEW difficulty \in Difficulties, NEW raw \in [Tags -> RawWeights],
         EvaluateTask(r, difficulty, raw)
  PROVE  ContentIInv'
<1> DEFINE weights == NormalizeWeights(draft[r].tags, raw)
           filled == Filled(draft[r], difficulty, weights)
           left == {t \in DOMAIN weights : weights[t] = 0}
<1>1. /\ pc[r] = "evaluate" /\ "evaluate" \in Running /\ "save" \in Running
      /\ draft' = [draft EXCEPT ![r] = filled] /\ nothing' = [nothing EXCEPT ![r] = left]
      /\ pc' = [pc EXCEPT ![r] = "save"]
      /\ UNCHANGED <<evaluator, topics, catalogue, todo, at, known, titled, tasks, taskTags>>
  BY DEF EvaluateTask, Running
<1>2. FollowsTask(r) /\ draft[r] \in Task /\ todo[r][at[r]] \in Task
  BY <1>1, RunningTask
<1>3. Fills(draft[r], todo[r][at[r]])
  BY <1>1, <1>2 DEF FollowsTask
<1>4. /\ filled \in Task /\ Fills(filled, todo[r][at[r]])
      /\ Len(filled.tags) = Len(draft[r].tags) /\ DOMAIN filled.tags = DOMAIN draft[r].tags
      /\ \A i \in DOMAIN draft[r].tags :
           /\ filled.tags[i].tag = draft[r].tags[i].tag
           /\ filled.tags[i].weight <= 0 =>
                filled.tags[i].tag \in DOMAIN weights /\ weights[filled.tags[i].tag] = 0
  BY <1>2, <1>3, FilledFills
<1>5. left \subseteq Tags
  BY <1>1, RunningTask, NormalizedWeights
<1> HIDE DEF weights, filled
<1>6. /\ known' \in [Requests -> Nat] /\ draft' \in [Requests -> Task]
      /\ titled' \in [Requests -> SUBSET Topics] /\ nothing' \in [Requests -> SUBSET Tags]
      /\ pc'[r] = "save" /\ draft'[r] = filled /\ nothing'[r] = left
      /\ known'[r] \in 0 .. Len(draft'[r].tags)
  BY <1>1, <1>4, <1>5, RunningTask DEF ContentIInv, ContentInv, TypeOK
<1>7. FollowsTask(r)'
  <2>1. Fills(draft[r], todo[r][at[r]])' <=> Fills(filled, todo[r][at[r]])
    BY <1>1, <1>6 DEF Fills
  <2>2. \A i \in DOMAIN draft[r].tags : draft[r].tags[i].tag \in catalogue
    BY <1>1, <1>2 DEF FollowsTask
  <2>3. \A i \in DOMAIN filled.tags : /\ filled.tags[i].tag \in catalogue
                                      /\ filled.tags[i].weight <= 0 => filled.tags[i].tag \in left
    BY <1>4, <2>2
  <2> HIDE DEF left
  <2> QED BY <1>1, <1>4, <1>6, <2>1, <2>3 DEF FollowsTask
<1> HIDE DEF left
<1> QED BY <1>1, <1>6, <1>7, Proceeds

\* A request starts with the tasks it asks for; it has stored none before.
LEMMA BeginStep ==
  ASSUME ContentIInv, NEW r \in Requests, NEW list \in Seq(Task), list # <<>>,
         Len(list) > 1 => \A i \in DOMAIN list : IsInjective(TagIDs(list[i].tags)),
         Begin(r, list)
  PROVE  ContentIInv'
<1> USE DEF Begin, Turn
<1>1. /\ 1 \in DOMAIN list /\ list[1] \in Task /\ list[1].tags \in Seq(Weighted)
      /\ Len(list[1].tags) \in Nat
  <2> HIDE DEF Begin
  <2>1. 1 \in DOMAIN list /\ list[1] \in Task
    OBVIOUS
  <2>2. list[1].tags \in Seq(Weighted)
    BY <2>1 DEF Task
  <2> QED BY <2>1, <2>2, WeightedSeq
<1>2. /\ pc'[r] = "tags" /\ at'[r] = 1 /\ known'[r] = 0 /\ draft'[r] = list[1] /\ todo'[r] = list
      /\ \A q \in Requests \ {r} :
           /\ pc'[q] = pc[q] /\ todo'[q] = todo[q] /\ at'[q] = at[q]
           /\ known'[q] = known[q] /\ draft'[q] = draft[q] /\ nothing'[q] = nothing[q]
  BY DEF ContentIInv, ContentInv, TypeOK
<1>3. TypeOK'
  <2>1. /\ pc' \in [Requests -> Running \cup {"idle", "created", "refused"}]
        /\ todo' \in [Requests -> Seq(Task)] /\ at' \in [Requests -> Nat \ {0}]
        /\ known' \in [Requests -> Nat] /\ draft' \in [Requests -> Task]
        /\ titled' \in [Requests -> SUBSET Topics] /\ nothing' \in [Requests -> SUBSET Tags]
    BY <1>1 DEF ContentIInv, ContentInv, TypeOK, Running
  <2>2. \A q \in Requests : /\ pc'[q] # "idle" => at'[q] \in DOMAIN todo'[q]
                            /\ pc'[q] \in Running => known'[q] \in 0 .. Len(draft'[q].tags)
    BY <1>1, <1>2 DEF ContentIInv, ContentInv, TypeOK
  <2> QED BY <2>1, <2>2 DEF ContentIInv, ContentInv, TypeOK
<1>4. DraftFollowsTask'
  <2>1. \A q \in Requests \ {r} : FollowsTask(q)'
    BY <1>2, OthersFollow DEF ContentIInv, ContentInv
  <2>2. FollowsTask(r)'
    <3>1. \A i \in DOMAIN list[1].tags : ~(i <= 0)
      BY <1>1, WeightedSeq
    <3> HIDE DEF Begin
    <3> QED BY <1>2, <3>1 DEF FollowsTask, Fills
  <2> QED BY <2>1, <2>2 DEF DraftFollowsTask
<1>5. ScopesNameTagsOnce'
  BY <1>2 DEF ContentIInv, ContentInv, ScopesNameTagsOnce
<1>6. ScopeStoresPrefix'
  <2>1. \A q \in Requests : StoredBy(q)' = StoredBy(q) /\ ItemsStored(q)' = ItemsStored(q)
    BY DEF StoredBy, ItemsStored
  <2>2. StoredBy(r) = {} /\ ItemsStored(r) = {}
    BY DEF ContentIInv, ContentInv, StoredFollowsTask, StoredBy, ItemsStored
  <2>3. ScopeStoresPrefix
    BY DEF ContentIInv
  <2>4. 1 .. at'[r] - 1 = {} /\ tasks' = tasks
    BY <1>2
  <2> HIDE DEF Begin
  <2> SUFFICES ASSUME NEW q \in Requests
               PROVE  /\ \A m, n \in StoredBy(q) : m < n => tasks[m].item < tasks[n].item
                      /\ pc'[q] \in Running => ItemsStored(q) = 1 .. at'[q] - 1
                      /\ pc'[q] = "refused" => ItemsStored(q) \in {1 .. at'[q] - 1, 1 .. at'[q]}
                      /\ pc'[q] = "created" => ItemsStored(q) = DOMAIN todo'[q]
    BY <2>1, <2>4 DEF ScopeStoresPrefix
  <2>5. CASE q = r
    BY <1>2, <2>2, <2>4, <2>5
  <2>6. CASE q # r
    BY <1>2, <2>3, <2>6 DEF ScopeStoresPrefix
  <2> QED BY <2>5, <2>6
<1>7. StoredInv'
  <2>1. \A q \in Requests : pc[q] # "idle" => pc'[q] # "idle" /\ todo'[q] = todo[q]
    BY <1>2
  <2> QED BY <2>1, StoredKept
<1> QED BY <1>3, <1>4, <1>5, <1>6, <1>7, InvFromParts DEF HandlerInv

-----------------------------------------------------------------------------
(* The transaction. *)

\* The task a transaction adds.
Added(r) ==
  [by |-> r, item |-> at[r], difficulty |-> AtLeast1(draft[r].difficulty),
   topics |-> draft[r].topics, tags |-> Shared(r).of, whole |-> Shared(r).whole,
   nothing |-> nothing[r]]

AddedRows(r) ==
  {[task |-> Len(tasks) + 1, tag |-> Shared(r).of[i].tag, share |-> Shared(r).of[i].weight] :
     i \in DOMAIN Shared(r).of}

LEMMA InsertAdds ==
  ASSUME ContentIInv, NEW r \in Requests, pc[r] = "save", InsertTask(r)
  PROVE  /\ Added(r) \in StoredTask
         /\ tasks' \in Seq(StoredTask) /\ Len(tasks') = Len(tasks) + 1 /\ Len(tasks) \in Nat
         /\ DOMAIN tasks = 1 .. Len(tasks) /\ DOMAIN tasks' = 1 .. Len(tasks) + 1
         /\ DOMAIN tasks' = DOMAIN tasks \cup {Len(tasks) + 1}
         /\ tasks'[Len(tasks) + 1] = Added(r)
         /\ \A n \in DOMAIN tasks : tasks'[n] = tasks[n]
         /\ taskTags' = taskTags \cup AddedRows(r)
         /\ taskTags' \subseteq [task : DOMAIN tasks', tag : Tags, share : Int]
<1> USE DEF ContentIInv, ContentInv
<1>1. pc[r] \in Running
  BY DEF Running
<1>2. tasks \in Seq(StoredTask) /\ Len(tasks) \in Nat /\ DOMAIN tasks = 1 .. Len(tasks)
      /\ nothing[r] \subseteq Tags /\ at[r] \in Nat \ {0}
  BY DEF TypeOK
<1>3. /\ Shared(r).of \in Seq(Weighted) /\ Shared(r).whole \in Nat \ {0}
  BY <1>1, RunningTask, SharesOfWhole DEF Shared
<1>4. draft[r].difficulty \in Int /\ draft[r].topics \in Seq(TopicIds)
  BY <1>1, RunningTask DEF Task
<1>5. Added(r) \in StoredTask
  BY <1>2, <1>3, <1>4 DEF Added, StoredTask, AtLeast1
<1>6. tasks' = Append(tasks, Added(r)) /\ taskTags' = taskTags \cup AddedRows(r)
  BY DEF InsertTask, Added, AddedRows
<1>7. AddedRows(r) \subseteq [task : {Len(tasks) + 1}, tag : Tags, share : Int]
  BY <1>3, WeightedSeq DEF AddedRows
<1>8. /\ tasks' \in Seq(StoredTask) /\ Len(tasks') = Len(tasks) + 1
      /\ DOMAIN tasks' = 1 .. Len(tasks) + 1
      /\ tasks'[Len(tasks) + 1] = Added(r)
      /\ \A n \in DOMAIN tasks : tasks'[n] = tasks[n]
  BY <1>2, <1>5, <1>6
<1>9. taskTags' \subseteq [task : DOMAIN tasks', tag : Tags, share : Int]
  <2>1. taskTags \subseteq [task : DOMAIN tasks, tag : Tags, share : Int]
    BY DEF TypeOK
  <2>2. DOMAIN tasks \subseteq DOMAIN tasks' /\ Len(tasks) + 1 \in DOMAIN tasks'
    BY <1>2, <1>8
  <2> QED BY <1>6, <1>7, <2>1, <2>2
<1>10. DOMAIN tasks' = DOMAIN tasks \cup {Len(tasks) + 1}
  BY <1>2, <1>8
<1> QED BY <1>2, <1>5, <1>6, <1>8, <1>9, <1>10

\* What the draft owes to the task it was asked for passes to what is stored.
LEMMA AddedFollows ==
  ASSUME ContentIInv, NEW r \in Requests, pc[r] = "save"
  PROVE  LET asked == todo[r][at[r]]
             added == Added(r)
         IN  /\ added.by = r /\ added.item = at[r] /\ at[r] \in DOMAIN todo[r]
             /\ added.topics = asked.topics
             /\ TagIDs(added.tags) = TagIDs(asked.tags)
             /\ ToSet(TagIDs(added.tags)) \subseteq catalogue
             /\ added.tags # <<>> => Total(added.tags) = added.whole
             /\ asked.difficulty > 0 => added.difficulty = asked.difficulty
             /\ \A i, j \in DOMAIN asked.tags :
                  asked.tags[i].weight > 0 /\ asked.tags[j].weight > 0 =>
                    added.tags[i].weight * asked.tags[j].weight
                      = added.tags[j].weight * asked.tags[i].weight
             /\ \A i \in DOMAIN added.tags :
                  added.tags[i].weight <= 0 =>
                    /\ asked.tags[i].weight <= 0
                    /\ \E j \in DOMAIN added.tags : added.tags[j].weight > 0
                    /\ evaluator => added.tags[i].tag \in added.nothing
<1> DEFINE asked == todo[r][at[r]]
           added == Added(r)
           tags == draft[r].tags
<1>1. /\ FollowsTask(r) /\ at[r] \in DOMAIN todo[r] /\ pc[r] \in Running
      /\ asked \in Task /\ draft[r] \in Task
      /\ tags \in Seq(Weighted) /\ asked.tags \in Seq(Weighted)
  BY RunningTask DEF Running
<1>2. /\ Fills(draft[r], asked)
      /\ \A i \in DOMAIN tags : /\ tags[i].tag \in catalogue
                                /\ evaluator /\ tags[i].weight <= 0 => tags[i].tag \in nothing[r]
  BY <1>1 DEF FollowsTask
<1>3. /\ DOMAIN asked.tags = DOMAIN tags
      /\ \A i \in DOMAIN tags : asked.tags[i].weight > 0 => tags[i].weight = asked.tags[i].weight
      /\ \A i \in DOMAIN tags : asked.tags[i].weight \in Int /\ tags[i].weight \in Int
  <2>1. DOMAIN asked.tags = DOMAIN tags
    BY <1>2 DEF Fills, TagIDs
  <2> HIDE DEF asked, tags
  <2>2. \A i \in DOMAIN tags : asked.tags[i].weight \in Int /\ tags[i].weight \in Int
    BY <1>1, <2>1, WeightedSeq
  <2> QED BY <1>2, <2>1, <2>2 DEF Fills, tags
<1>4. /\ added.by = r /\ added.item = at[r] /\ added.topics = draft[r].topics
      /\ added.difficulty = AtLeast1(draft[r].difficulty)
      /\ added.tags = Shared(r).of /\ added.whole = Shared(r).whole /\ added.nothing = nothing[r]
  BY DEF Added
<1>5. /\ added.tags \in Seq(Weighted) /\ DOMAIN added.tags = DOMAIN tags
      /\ \A i \in DOMAIN tags : added.tags[i].tag = tags[i].tag
      /\ added.tags # <<>> => Total(added.tags) = added.whole
      /\ (\E i \in DOMAIN tags : tags[i].weight > 0) => added.tags = tags
      /\ ~(\E i \in DOMAIN tags : tags[i].weight > 0) => \A i \in DOMAIN tags : added.tags[i].weight = 1
  <2> DEFINE shared == Shares(asked.tags, tags)
  <2>1. added.tags = shared.of /\ added.whole = shared.whole
    BY <1>4 DEF Shared
  <2> HIDE DEF added, asked, tags
  <2>2. /\ shared.of \in Seq(Weighted) /\ DOMAIN shared.of = DOMAIN tags
        /\ \A i \in DOMAIN tags : shared.of[i].tag = tags[i].tag
        /\ shared.of # <<>> => Total(shared.of) = shared.whole
        /\ (\E i \in DOMAIN tags : tags[i].weight > 0) => shared.of = tags
        /\ ~(\E i \in DOMAIN tags : tags[i].weight > 0) => \A i \in DOMAIN tags : shared.of[i].weight = 1
    BY <1>1, SharesOfWhole
  <2> HIDE DEF shared
  <2> QED BY <2>1, <2>2
<1>6. added.topics = asked.topics
      /\ (asked.difficulty > 0 => added.difficulty = asked.difficulty)
  <2>1. asked.difficulty > 0 => draft[r].difficulty = asked.difficulty
    BY <1>2 DEF Fills
  <2>2. asked.difficulty \in Int
    BY <1>1 DEF Task
  <2> HIDE DEF asked, added
  <2> QED BY <1>2, <1>4, <2>1, <2>2 DEF Fills, AtLeast1
<1>7. TagIDs(added.tags) = TagIDs(asked.tags) /\ ToSet(TagIDs(added.tags)) \subseteq catalogue
  <2>1. TagIDs(added.tags) = TagIDs(tags)
    <3> HIDE DEF added, tags
    <3> QED BY <1>5 DEF TagIDs
  <2>2. TagIDs(tags) = TagIDs(asked.tags)
    BY <1>2 DEF Fills
  <2>3. ToSet(TagIDs(tags)) \subseteq catalogue
    BY <1>2 DEF TagIDs, ToSet
  <2> HIDE DEF added, asked, tags
  <2> QED BY <2>1, <2>2, <2>3
<1> HIDE DEF added, asked, tags
<1>8. ASSUME NEW i \in DOMAIN asked.tags, NEW j \in DOMAIN asked.tags,
             asked.tags[i].weight > 0, asked.tags[j].weight > 0
      PROVE  added.tags[i].weight * asked.tags[j].weight = added.tags[j].weight * asked.tags[i].weight
  <2>1. tags[i].weight = asked.tags[i].weight /\ tags[j].weight = asked.tags[j].weight
    BY <1>3, <1>8
  <2>2. added.tags = tags
    BY <1>3, <1>5, <1>8, <2>1
  <2> QED BY <1>3, <2>1, <2>2
<1>9. ASSUME NEW i \in DOMAIN added.tags, added.tags[i].weight <= 0
      PROVE  /\ asked.tags[i].weight <= 0
             /\ \E j \in DOMAIN added.tags : added.tags[j].weight > 0
             /\ evaluator => added.tags[i].tag \in added.nothing
  <2>1. PICK j \in DOMAIN tags : tags[j].weight > 0
    BY <1>5, <1>9
  <2>2. added.tags = tags
    BY <1>5, <2>1
  <2>3. ~(asked.tags[i].weight > 0)
    BY <1>3, <1>9, <2>2
  <2>4. evaluator => tags[i].tag \in nothing[r]
    BY <1>2, <1>9, <2>2 DEF tags
  <2> QED BY <1>3, <1>4, <1>9, <2>1, <2>2, <2>3, <2>4
<1> QED BY <1>1, <1>4, <1>5, <1>6, <1>7, <1>8, <1>9 DEF added, asked

LEMMA InsertKeepsStored ==
  ASSUME ContentIInv, NEW r \in Requests, pc[r] = "save", InsertTask(r),
         UNCHANGED <<evaluator, catalogue, todo>>,
         \A q \in Requests : pc[q] # "idle" => pc'[q] # "idle"
  PROVE  StoredInv'
<1> DEFINE asked == todo[r][at[r]]
           added == Added(r)
<1>0. PICK N : N = Len(tasks) + 1
  OBVIOUS
<1>1. /\ tasks'[N] = added /\ Len(tasks) \in Nat
      /\ DOMAIN tasks' = DOMAIN tasks \cup {N} /\ N \notin DOMAIN tasks
      /\ \A n \in DOMAIN tasks : tasks'[n] = tasks[n]
      /\ taskTags' = taskTags \cup AddedRows(r)
  <2>1. N \notin 1 .. Len(tasks)
    BY <1>0, InsertAdds
  <2> QED BY <1>0, <2>1, InsertAdds
<1>2. \A n \in DOMAIN tasks : /\ tasks[n] \in StoredTask /\ tasks[n].by \in Requests
                              /\ pc'[tasks[n].by] # "idle"
  <2>1. \A n \in DOMAIN tasks : tasks[n] \in StoredTask /\ tasks[n].by \in Requests
    BY StoredTasks DEF ContentIInv, ContentInv
  <2> QED BY <2>1 DEF ContentIInv, ContentInv, StoredFollowsTask
<1>3. /\ added.by = r /\ added.item = at[r] /\ at[r] \in DOMAIN todo[r]
      /\ added.topics = asked.topics
      /\ TagIDs(added.tags) = TagIDs(asked.tags)
      /\ ToSet(TagIDs(added.tags)) \subseteq catalogue
      /\ added.tags # <<>> => Total(added.tags) = added.whole
      /\ asked.difficulty > 0 => added.difficulty = asked.difficulty
      /\ \A i, j \in DOMAIN asked.tags :
           asked.tags[i].weight > 0 /\ asked.tags[j].weight > 0 =>
             added.tags[i].weight * asked.tags[j].weight = added.tags[j].weight * asked.tags[i].weight
      /\ \A i \in DOMAIN added.tags :
           added.tags[i].weight <= 0 =>
             /\ asked.tags[i].weight <= 0
             /\ \E j \in DOMAIN added.tags : added.tags[j].weight > 0
             /\ evaluator => added.tags[i].tag \in added.nothing
  BY AddedFollows
<1>4. /\ Asked(tasks[N])' = asked
      /\ \A n \in DOMAIN tasks : Asked(tasks[n])' = Asked(tasks[n])
  BY <1>1, <1>3 DEF Asked
<1>5. AddedRows(r) = {[task |-> N, tag |-> tag.tag, share |-> tag.weight] : tag \in ToSet(added.tags)}
  BY <1>0 DEF AddedRows, Added, ToSet
<1>6. \A row \in taskTags : row.task \in DOMAIN tasks
  BY DEF ContentIInv, ContentInv, TypeOK
<1> HIDE DEF asked, added
<1>7. SharesAddUp'
  BY <1>1, <1>3 DEF ContentIInv, ContentInv, SharesAddUp
<1>8. StoredFollowsTask'
  <2>1. ASSUME NEW n \in DOMAIN tasks
        PROVE  {row \in taskTags' : row.task = n} = {row \in taskTags : row.task = n}
    BY <1>1, <1>5, <2>1
  <2>2. {row \in taskTags' : row.task = N} = AddedRows(r)
    BY <1>1, <1>5, <1>6
  <2>3. pc'[r] # "idle"
    OBVIOUS
  <2> SUFFICES ASSUME NEW n \in DOMAIN tasks'
               PROVE  /\ pc'[tasks'[n].by] # "idle"
                      /\ tasks'[n].item \in DOMAIN todo'[tasks'[n].by]
                      /\ tasks'[n].topics = Asked(tasks[n])'.topics
                      /\ TagIDs(tasks'[n].tags) = TagIDs(Asked(tasks[n])'.tags)
                      /\ ToSet(TagIDs(tasks'[n].tags)) \subseteq catalogue'
                      /\ {row \in taskTags' : row.task = n} =
                           {[task |-> n, tag |-> tag.tag, share |-> tag.weight] : tag \in ToSet(tasks'[n].tags)}
    BY DEF StoredFollowsTask
  <2>4. CASE n = N
    BY <1>1, <1>3, <1>4, <1>5, <2>2, <2>3, <2>4
  <2>5. CASE n \in DOMAIN tasks
    BY <1>1, <1>2, <1>4, <2>1, <2>5 DEF ContentIInv, ContentInv, StoredFollowsTask
  <2> QED BY <1>1, <2>4, <2>5
<1>9. TeacherProportionsKept'
  <2> SUFFICES ASSUME NEW n \in DOMAIN tasks'
               PROVE  LET task == tasks'[n]
                          wanted == Asked(tasks[n])'
                      IN /\ wanted.difficulty > 0 => task.difficulty = wanted.difficulty
                         /\ \A i, j \in DOMAIN wanted.tags :
                              wanted.tags[i].weight > 0 /\ wanted.tags[j].weight > 0 =>
                                task.tags[i].weight * wanted.tags[j].weight
                                  = task.tags[j].weight * wanted.tags[i].weight
    BY DEF TeacherProportionsKept
  <2>1. CASE n = N
    BY <1>1, <1>3, <1>4, <2>1
  <2>2. CASE n \in DOMAIN tasks
    BY <1>1, <1>4, <2>2 DEF ContentIInv, TeacherProportionsKept
  <2> QED BY <1>1, <2>1, <2>2
<1>10. LowShareHasCause'
  <2> SUFFICES ASSUME NEW n \in DOMAIN tasks', NEW i \in DOMAIN tasks'[n].tags,
                      tasks'[n].tags[i].weight <= 0
               PROVE  /\ Asked(tasks[n])'.tags[i].weight <= 0
                      /\ \E j \in DOMAIN tasks'[n].tags : tasks'[n].tags[j].weight > 0
                      /\ evaluator' => tasks'[n].tags[i].tag \in tasks'[n].nothing
    BY DEF LowShareHasCause
  <2>1. CASE n = N
    BY <1>1, <1>3, <1>4, <2>1
  <2>2. CASE n \in DOMAIN tasks
    BY <1>1, <1>4, <2>2 DEF ContentIInv, LowShareHasCause
  <2> QED BY <1>1, <2>1, <2>2
<1> QED BY <1>7, <1>8, <1>9, <1>10 DEF StoredInv

\* The transaction extends what the request has stored by exactly the task it
\* is at.
LEMMA InsertExtendsPrefix ==
  ASSUME ContentIInv, NEW r \in Requests, pc[r] = "save", InsertTask(r)
  PROVE  /\ ItemsStored(r)' = 1 .. at[r]
         /\ \A q \in Requests \ {r} : ItemsStored(q)' = ItemsStored(q)
         /\ \A q \in Requests : \A m, n \in StoredBy(q)' : m < n => tasks'[m].item < tasks'[n].item
<1>0. PICK N : N = Len(tasks) + 1
  OBVIOUS
<1>1. /\ tasks'[N].by = r /\ tasks'[N].item = at[r] /\ Len(tasks) \in Nat
      /\ DOMAIN tasks' = DOMAIN tasks \cup {N} /\ DOMAIN tasks = 1 .. Len(tasks)
      /\ \A n \in DOMAIN tasks : tasks'[n] = tasks[n]
  <2>1. Added(r).by = r /\ Added(r).item = at[r]
    BY DEF Added
  <2> QED BY <1>0, <2>1, InsertAdds
<1>2. /\ StoredBy(r)' = StoredBy(r) \cup {N}
      /\ \A q \in Requests \ {r} : StoredBy(q)' = StoredBy(q)
      /\ \A q \in Requests : StoredBy(q) \subseteq 1 .. Len(tasks)
  BY <1>1 DEF StoredBy
<1>3. /\ ItemsStored(r) = 1 .. at[r] - 1
      /\ \A q \in Requests : \A m, n \in StoredBy(q) : m < n => tasks[m].item < tasks[n].item
  BY DEF ContentIInv, ScopeStoresPrefix, Running
<1>4. at[r] \in Nat \ {0}
  BY DEF ContentIInv, ContentInv, TypeOK
<1>5. ItemsStored(r)' = ItemsStored(r) \cup {at[r]}
  BY <1>1, <1>2 DEF ItemsStored
<1>6. \A q \in Requests \ {r} : ItemsStored(q)' = ItemsStored(q)
  BY <1>1, <1>2 DEF ItemsStored
<1>7. ItemsStored(r)' = 1 .. at[r]
  BY <1>3, <1>4, <1>5
<1>8. ASSUME NEW q \in Requests, NEW m \in StoredBy(q)', NEW n \in StoredBy(q)', m < n
      PROVE  tasks'[m].item < tasks'[n].item
  <2>1. CASE n = N /\ q = r
    <3>1. m \in StoredBy(r) /\ m \in DOMAIN tasks
      BY <1>0, <1>1, <1>2, <1>8, <2>1
    <3>2. tasks[m].item \in 1 .. at[r] - 1
      BY <1>3, <3>1 DEF ItemsStored
    <3> QED BY <1>1, <1>4, <2>1, <3>1, <3>2
  <2>2. CASE ~(n = N /\ q = r)
    <3>1. n \in StoredBy(q)
      BY <1>2, <2>2
    <3>2. n \in 1 .. Len(tasks)
      BY <1>2, <3>1
    <3>3. m # N
      <4>1. m \in DOMAIN tasks'
        BY <1>8 DEF StoredBy
      <4> QED BY <1>0, <1>1, <1>8, <3>2, <4>1
    <3>4. m \in StoredBy(q) /\ m \in 1 .. Len(tasks)
      BY <1>2, <3>3
    <3> QED BY <1>1, <1>3, <1>8, <3>1, <3>2, <3>4
  <2> QED BY <2>1, <2>2
<1> QED BY <1>6, <1>7, <1>8

LEMMA SaveFailsLateStep ==
  ASSUME ContentIInv, NEW r \in Requests, SaveTaskFailsLate(r)
  PROVE  ContentIInv'
<1>1. /\ pc[r] = "save" /\ InsertTask(r) /\ pc' = [pc EXCEPT ![r] = "refused"]
      /\ UNCHANGED <<evaluator, topics, catalogue, todo, at, known, draft, titled, nothing>>
  BY DEF SaveTaskFailsLate, Refuse
<1>2. /\ pc'[r] = "refused" /\ \A q \in Requests \ {r} : pc'[q] = pc[q]
      /\ pc' \in [Requests -> Running \cup {"idle", "created", "refused"}]
      /\ "refused" \notin Running /\ "save" \in Running
  BY <1>1 DEF ContentIInv, ContentInv, TypeOK, Running
<1>3. StoredInv'
  <2>1. \A q \in Requests : pc[q] # "idle" => pc'[q] # "idle"
    BY <1>2
  <2> QED BY <1>1, <2>1, InsertKeepsStored
<1>4. TypeOK'
  <2>1. at[r] \in DOMAIN todo[r]
    BY <1>1, <1>2, RunningTask
  <2>2. \A q \in Requests : /\ pc'[q] # "idle" => at'[q] \in DOMAIN todo'[q]
                            /\ pc'[q] \in Running => known'[q] \in 0 .. Len(draft'[q].tags)
    BY <1>1, <1>2, <2>1 DEF ContentIInv, ContentInv, TypeOK
  <2>3. tasks' \in Seq(StoredTask) /\ taskTags' \subseteq [task : DOMAIN tasks', tag : Tags, share : Int]
    BY <1>1, InsertAdds
  <2> QED BY <1>1, <1>2, <2>2, <2>3 DEF ContentIInv, ContentInv, TypeOK
<1>5. DraftFollowsTask'
  <2>1. \A q \in Requests \ {r} : FollowsTask(q)'
    BY <1>1, <1>2, OthersFollow DEF ContentIInv, ContentInv
  <2>2. FollowsTask(r)'
    BY <1>2 DEF FollowsTask
  <2> QED BY <2>1, <2>2 DEF DraftFollowsTask
<1>6. ScopesNameTagsOnce'
  BY <1>1 DEF ContentIInv, ContentInv, ScopesNameTagsOnce
<1>7. ScopeStoresPrefix'
  <2>1. /\ ItemsStored(r)' = 1 .. at[r]
        /\ \A q \in Requests \ {r} : ItemsStored(q)' = ItemsStored(q)
        /\ \A q \in Requests : \A m, n \in StoredBy(q)' : m < n => tasks'[m].item < tasks'[n].item
    BY <1>1, InsertExtendsPrefix
  <2>2. ScopeStoresPrefix
    BY DEF ContentIInv
  <2> QED BY <1>1, <1>2, <2>1, <2>2 DEF ScopeStoresPrefix
<1> QED BY <1>3, <1>4, <1>5, <1>6, <1>7, InvFromParts DEF HandlerInv

\* After a task is stored the handler turns to the next one, or is done.
LEMMA SaveStep ==
  ASSUME ContentIInv, NEW r \in Requests, SaveTask(r)
  PROVE  ContentIInv'
<1>1. /\ pc[r] = "save" /\ InsertTask(r) /\ "save" \in Running
      /\ UNCHANGED <<evaluator, topics, catalogue, todo>>
  BY DEF SaveTask, Running
<1>2. /\ todo[r] \in Seq(Task) /\ at[r] \in Nat \ {0} /\ at[r] \in DOMAIN todo[r]
      /\ Len(todo[r]) \in Nat /\ DOMAIN todo[r] = 1 .. Len(todo[r])
  BY <1>1, RunningTask DEF ContentIInv, ContentInv, TypeOK
<1>3. /\ ItemsStored(r)' = 1 .. at[r]
      /\ \A q \in Requests \ {r} : ItemsStored(q)' = ItemsStored(q)
      /\ \A q \in Requests : \A m, n \in StoredBy(q)' : m < n => tasks'[m].item < tasks'[n].item
  BY <1>1, InsertExtendsPrefix
<1>4. tasks' \in Seq(StoredTask) /\ taskTags' \subseteq [task : DOMAIN tasks', tag : Tags, share : Int]
  BY <1>1, InsertAdds
<1>5. ScopesNameTagsOnce'
  BY <1>1 DEF ContentIInv, ContentInv, ScopesNameTagsOnce
<1>6. CASE at[r] < Len(todo[r])
  <2>1. /\ at' = [at EXCEPT ![r] = at[r] + 1] /\ known' = [known EXCEPT ![r] = 0]
        /\ draft' = [draft EXCEPT ![r] = todo[r][at[r] + 1]]
        /\ titled' = [titled EXCEPT ![r] = {}] /\ nothing' = [nothing EXCEPT ![r] = {}]
        /\ pc' = [pc EXCEPT ![r] = "tags"]
    BY <1>6 DEF SaveTask, Turn
  <2>2. /\ at[r] + 1 \in DOMAIN todo[r] /\ todo[r][at[r] + 1] \in Task
        /\ todo[r][at[r] + 1].tags \in Seq(Weighted) /\ Len(todo[r][at[r] + 1].tags) \in Nat
    <3>1. at[r] + 1 \in DOMAIN todo[r] /\ todo[r][at[r] + 1] \in Task
      BY <1>2, <1>6
    <3>2. todo[r][at[r] + 1].tags \in Seq(Weighted)
      BY <3>1 DEF Task
    <3> QED BY <3>1, <3>2, WeightedSeq
  <2>3. /\ pc'[r] = "tags" /\ at'[r] = at[r] + 1 /\ known'[r] = 0
        /\ draft'[r] = todo[r][at[r] + 1] /\ todo'[r] = todo[r]
        /\ \A q \in Requests \ {r} :
             /\ pc'[q] = pc[q] /\ todo'[q] = todo[q] /\ at'[q] = at[q]
             /\ known'[q] = known[q] /\ draft'[q] = draft[q] /\ nothing'[q] = nothing[q]
    BY <1>1, <2>1 DEF ContentIInv, ContentInv, TypeOK
  <2>4. TypeOK'
    <3>1. /\ pc' \in [Requests -> Running \cup {"idle", "created", "refused"}]
          /\ todo' \in [Requests -> Seq(Task)] /\ at' \in [Requests -> Nat \ {0}]
          /\ known' \in [Requests -> Nat] /\ draft' \in [Requests -> Task]
          /\ titled' \in [Requests -> SUBSET Topics] /\ nothing' \in [Requests -> SUBSET Tags]
      BY <1>1, <1>2, <2>1, <2>2 DEF ContentIInv, ContentInv, TypeOK, Running
    <3>2. \A q \in Requests : /\ pc'[q] # "idle" => at'[q] \in DOMAIN todo'[q]
                              /\ pc'[q] \in Running => known'[q] \in 0 .. Len(draft'[q].tags)
      <4> DEFINE Placed(q) == /\ pc'[q] # "idle" => at'[q] \in DOMAIN todo'[q]
                              /\ pc'[q] \in Running => known'[q] \in 0 .. Len(draft'[q].tags)
      <4>1. Placed(r)
        BY <2>2, <2>3
      <4>2. \A q \in Requests \ {r} : Placed(q)
        BY <2>3 DEF ContentIInv, ContentInv, TypeOK
      <4> QED BY <4>1, <4>2
    <3> QED BY <1>1, <1>4, <3>1, <3>2 DEF ContentIInv, ContentInv, TypeOK
  <2>5. DraftFollowsTask'
    <3>1. \A q \in Requests \ {r} : FollowsTask(q)'
      BY <1>1, <2>3, OthersFollow DEF ContentIInv, ContentInv
    <3>2. FollowsTask(r)'
      <4>1. \A i \in DOMAIN todo[r][at[r] + 1].tags : ~(i <= 0)
        BY <2>2, WeightedSeq
      <4> QED BY <2>3, <4>1 DEF FollowsTask, Fills
    <3> QED BY <3>1, <3>2 DEF DraftFollowsTask
  <2>6. ScopeStoresPrefix'
    <3> SUFFICES ASSUME NEW q \in Requests
                 PROVE  /\ pc'[q] \in Running => ItemsStored(q)' = 1 .. at'[q] - 1
                        /\ pc'[q] = "refused" => ItemsStored(q)' \in {1 .. at'[q] - 1, 1 .. at'[q]}
                        /\ pc'[q] = "created" => ItemsStored(q)' = DOMAIN todo'[q]
      BY <1>3 DEF ScopeStoresPrefix
    <3>1. CASE q = r
      <4>1. (at[r] + 1) - 1 = at[r]
        BY <1>2
      <4> QED BY <1>3, <2>3, <3>1, <4>1
    <3>2. CASE q # r
      BY <1>3, <2>3, <3>2 DEF ContentIInv, ScopeStoresPrefix
    <3> QED BY <3>1, <3>2
  <2>7. StoredInv'
    <3>1. \A q \in Requests : pc[q] # "idle" => pc'[q] # "idle"
      BY <2>3
    <3> QED BY <1>1, <3>1, InsertKeepsStored
  <2> QED BY <1>5, <2>4, <2>5, <2>6, <2>7, InvFromParts DEF HandlerInv
<1>7. CASE ~(at[r] < Len(todo[r]))
  <2>1. pc' = [pc EXCEPT ![r] = "created"] /\ UNCHANGED <<at, known, draft, titled, nothing>>
    BY <1>7 DEF SaveTask
  <2>2. at[r] = Len(todo[r])
    BY <1>2, <1>7
  <2>3. /\ pc'[r] = "created" /\ \A q \in Requests \ {r} : pc'[q] = pc[q]
        /\ pc' \in [Requests -> Running \cup {"idle", "created", "refused"}]
        /\ "created" \notin Running
    BY <2>1 DEF ContentIInv, ContentInv, TypeOK, Running
  <2>4. TypeOK'
    <3>1. \A q \in Requests : /\ pc'[q] # "idle" => at'[q] \in DOMAIN todo'[q]
                              /\ pc'[q] \in Running => known'[q] \in 0 .. Len(draft'[q].tags)
      BY <1>1, <1>2, <2>1, <2>3 DEF ContentIInv, ContentInv, TypeOK
    <3> QED BY <1>1, <1>4, <2>1, <2>3, <3>1 DEF ContentIInv, ContentInv, TypeOK
  <2>5. DraftFollowsTask'
    <3>1. \A q \in Requests \ {r} : FollowsTask(q)'
      BY <1>1, <2>1, <2>3, OthersFollow DEF ContentIInv, ContentInv
    <3>2. FollowsTask(r)'
      BY <2>3 DEF FollowsTask
    <3> QED BY <3>1, <3>2 DEF DraftFollowsTask
  <2>6. ScopeStoresPrefix'
    <3>1. ScopeStoresPrefix
      BY DEF ContentIInv
    <3> QED BY <1>1, <1>2, <1>3, <2>1, <2>2, <2>3, <3>1 DEF ScopeStoresPrefix
  <2>7. StoredInv'
    <3>1. \A q \in Requests : pc[q] # "idle" => pc'[q] # "idle"
      BY <2>3
    <3> QED BY <1>1, <3>1, InsertKeepsStored
  <2> QED BY <1>5, <2>4, <2>5, <2>6, <2>7, InvFromParts DEF HandlerInv
<1> QED BY <1>6, <1>7

-----------------------------------------------------------------------------
(* Every step, and what it amounts to. *)

LEMMA ServeStep ==
  ASSUME ContentIInv, NEW r \in Requests, Serve(r)
  PROVE  ContentIInv'
<1>1. ASSUME NEW task \in Plain, CreateTask(r, task) PROVE ContentIInv'
  <2>1. task \in Task
    BY RequestsAssumption
  <2>2. <<task>> \in Seq(Task) /\ <<task>> # <<>> /\ ~(Len(<<task>>) > 1)
    BY <2>1
  <2> QED BY <1>1, <2>2, BeginStep DEF CreateTask
<1>2. ASSUME NEW scope \in Scopes, CreateTasksInScope(r, scope) PROVE ContentIInv'
  <2>1. scope \in Scope
    BY RequestsAssumption
  <2>2. /\ TasksOf(scope) \in Seq(Task) /\ TasksOf(scope) # <<>>
        /\ \A i \in DOMAIN TasksOf(scope) : IsInjective(TagIDs(TasksOf(scope)[i].tags))
    BY <2>1, ScopeAsksForTasks
  <2> QED BY <1>2, <2>2, BeginStep DEF CreateTasksInScope
<1>3. CASE UnknownTag(r)
  BY <1>3, RefuseStep DEF UnknownTag, Running
<1>4. CASE Fail(r)
  BY <1>4, RefuseStep DEF Fail
<1> QED BY <1>1, <1>2, <1>3, <1>4, TagFoundStep, TagsDoneStep, TopicTitlesStep, EvaluateStep,
           SaveStep, SaveFailsLateStep DEF Serve

LEMMA StutterStep == ContentIInv /\ UNCHANGED vars => ContentIInv'
<1> SUFFICES ASSUME ContentIInv, UNCHANGED vars PROVE ContentIInv'
  OBVIOUS
<1> USE DEF vars, handler, ContentIInv, ContentInv
<1>1. TypeOK'
  BY DEF TypeOK
<1>2. DraftFollowsTask'
  BY OthersFollow DEF DraftFollowsTask
<1>3. ScopesNameTagsOnce' /\ ScopeStoresPrefix'
  BY DEF ScopesNameTagsOnce, ScopeStoresPrefix, StoredBy, ItemsStored
<1> QED BY <1>1, <1>2, <1>3, StoredKept, InvFromParts DEF HandlerInv

\* The inductive invariant: content-service's handlers keep to the tasks they
\* were asked for, and so does what they store.
THEOREM ContentInvariant == Spec => []ContentIInv
<1>1. ContentIInv /\ [Next]_vars => ContentIInv'
  BY TopicStep, TagStep, ServeStep, StutterStep DEF Next
<1> QED BY ContentInit, <1>1, PTL DEF Spec

\* Stored tasks are well formed, weigh 1 and name existing tags, and a scope's
\* tags can be inserted (CreateTask and CreateTasksInScope of service.go with
\* the repository's transaction).
THEOREM StoredTasksWellFormed == Spec => []ContentInv
<1>1. ContentIInv => ContentInv
  BY DEF ContentIInv
<1> QED BY <1>1, ContentInvariant, PTL

\* Evaluation and normalisation keep the teacher's difficulty and the
\* proportions of the teacher's weights.
THEOREM ProportionsKept == Spec => []TeacherProportionsKept
<1>1. ContentIInv => TeacherProportionsKept
  BY DEF ContentIInv
<1> QED BY <1>1, ContentInvariant, PTL

\* A tag without a positive share was left so by the teacher, and the
\* evaluator, if there is one, rounded its share to nothing.
THEOREM LowSharesCaused == Spec => []LowShareHasCause
<1>1. ContentIInv => LowShareHasCause
  BY DEF ContentIInv
<1> QED BY <1>1, ContentInvariant, PTL

\* A scope that fails leaves exactly its first tasks, one that succeeds all.
THEOREM PrefixStored == Spec => []ScopeStoresPrefix
<1>1. ContentIInv => ScopeStoresPrefix
  BY DEF ContentIInv
<1> QED BY <1>1, ContentInvariant, PTL

\* Lists, the rows of task_tags and the gRPC answer tell a task alike.
LEMMA TaskReadAlike ==
  ASSUME ContentIInv, NEW n \in DOMAIN tasks
  PROVE  AttachTaskTags(ScanTask(n)) = ScanTask(n)
<1> DEFINE tags == tasks[n].tags
<1>1. tags \in Seq(Weighted)
  BY StoredTasks DEF ContentIInv, ContentInv
<1>2. /\ {row \in taskTags : row.task = n} =
           {[task |-> n, tag |-> tag.tag, share |-> tag.weight] : tag \in ToSet(tags)}
      /\ ToSet(TagIDs(tags)) \subseteq catalogue
  BY DEF ContentIInv, ContentInv, StoredFollowsTask
<1> HIDE DEF tags
<1>3. \A tag \in ToSet(tags) : tag \in [tag : Tags, weight : Int] /\ tag.tag \in catalogue
  <2>1. \A i \in DOMAIN tags : tags[i] \in Weighted /\ tags[i].tag \in catalogue
    BY <1>1, <1>2, WeightedSeq DEF ToSet, TagIDs
  <2> QED BY <2>1 DEF ToSet, Weighted
<1> DEFINE rows == {x \in taskTags : x.task = n /\ x.tag \in catalogue}
<1>4. rows = {[task |-> n, tag |-> tag.tag, share |-> tag.weight] : tag \in ToSet(tags)}
  BY <1>2, <1>3
<1>5. {[tag |-> row.tag, weight |-> row.share] : row \in rows} = ToSet(tags)
  <2>1. \A tag \in ToSet(tags) : [tag |-> tag.tag, weight |-> tag.weight] = tag
    BY <1>3
  <2> HIDE DEF rows
  <2>2. ASSUME NEW row \in rows PROVE [tag |-> row.tag, weight |-> row.share] \in ToSet(tags)
    <3>1. PICK tag \in ToSet(tags) : row = [task |-> n, tag |-> tag.tag, share |-> tag.weight]
      BY <1>4
    <3> QED BY <2>1, <3>1
  <2>3. ASSUME NEW tag \in ToSet(tags) PROVE \E row \in rows : tag = [tag |-> row.tag, weight |-> row.share]
    <3>1. [task |-> n, tag |-> tag.tag, share |-> tag.weight] \in rows
      BY <1>4
    <3> WITNESS [task |-> n, tag |-> tag.tag, share |-> tag.weight] \in rows
    <3> QED BY <2>1
  <2> QED BY <2>2, <2>3
<1>6. /\ ScanTask(n) = [id |-> n, topics |-> tasks[n].topics, difficulty |-> tasks[n].difficulty,
                        tags |-> ToSet(tags)]
      /\ ScanTask(n).id = n
  BY DEF ScanTask, tags
<1>7. AttachTaskTags(ScanTask(n)) = [ScanTask(n) EXCEPT !.tags = ToSet(tags)]
  <2> HIDE DEF rows
  <2>1. {x \in taskTags : x.task = ScanTask(n).id /\ x.tag \in catalogue} = rows
    BY <1>6 DEF rows
  <2> QED BY <1>5, <2>1 DEF AttachTaskTags
<1> QED BY <1>6, <1>7

\* A student who lists a topic, a check, a work and an attempt read the same
\* task, whichever of its two copies they are given (scanTask and
\* attachTaskTags of the repository).
THEOREM ReadersAgree == Spec => []RowsMatchTask
<1>1. ContentIInv => RowsMatchTask
  <2> SUFFICES ASSUME ContentIInv, NEW n \in DOMAIN tasks
               PROVE  /\ \A topic \in ToSet(tasks[n].topics) \cup {EveryTopic} :
                           GetTask(n) \subseteq ListTasks(topic)
                      /\ \A reply \in TaskReply(n) :
                           /\ {tag.tag : tag \in reply.tags} \subseteq ListTags
                           /\ \E task \in ListTasks(EveryTopic) :
                                reply = [topics |-> task.topics, difficulty |-> task.difficulty,
                                         tags |-> task.tags]
    BY DEF RowsMatchTask
  <2>1. GetTask(n) = {ScanTask(n)}
    BY TaskReadAlike DEF GetTask
  <2>2. ASSUME NEW topic \in ToSet(tasks[n].topics) \cup {EveryTopic}
        PROVE  ScanTask(n) \in ListTasks(topic)
    <3>1. tasks[n].topics \in Seq(TopicIds)
      BY StoredTasks DEF ContentIInv, ContentInv
    <3>2. topic = EveryTopic \/ Contains(tasks[n].topics, topic)
      BY <2>2, <3>1 DEF ToSet, Contains
    <3> QED BY <3>2 DEF ListTasks
  <2>3. {tag.tag : tag \in ScanTask(n).tags} \subseteq ListTags
    <3>1. ToSet(TagIDs(tasks[n].tags)) \subseteq catalogue
      BY DEF ContentIInv, ContentInv, StoredFollowsTask
    <3> QED BY <3>1 DEF ScanTask, ListTags, ToSet, TagIDs
  <2> QED BY <2>1, <2>2, <2>3 DEF TaskReply
<1> QED BY <1>1, ContentInvariant, PTL
=============================================================================
