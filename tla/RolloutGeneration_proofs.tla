---------------------- MODULE RolloutGeneration_proofs ----------------------
(***************************************************************************)
(* Proofs about RolloutGeneration, for every value of its constants.       *)
(***************************************************************************)
EXTENDS RolloutGeneration, FiniteSetTheorems, SequenceTheorems, TLAPS

-----------------------------------------------------------------------------
(* Sets of groups and duplicate-free sequences of groups *)

\* Every set of groups is finite.
LEMMA GroupSets ==
  ASSUME NEW S \in SUBSET Groups
  PROVE  IsFiniteSet(S) /\ Cardinality(S) \in Nat
<1>1. IsFiniteSet(Groups)
  BY FS_Interval, ConstAssumption DEF Groups
<1>2. QED
  BY <1>1, FS_Subset, FS_CardinalityType

\* Counting a set of groups by parts.
LEMMA CountSplit ==
  ASSUME NEW S \in SUBSET Groups, NEW T \in SUBSET S
  PROVE  Cardinality(S) = Cardinality(T) + Cardinality(S \ T)
<1>1. IsFiniteSet(S) /\ IsFiniteSet(T) /\ IsFiniteSet(S \ T)
      /\ Cardinality(T) \in Nat /\ Cardinality(S \ T) \in Nat
  BY GroupSets
<1>2. T \union (S \ T) = S /\ T \intersect (S \ T) = {}
  OBVIOUS
<1>3. Cardinality(T \union (S \ T)) = Cardinality(T) + Cardinality(S \ T) - 0
  BY <1>1, <1>2, FS_Union, FS_EmptySet
<1>4. QED
  BY <1>1, <1>2, <1>3

LEMMA CountUnion ==
  ASSUME NEW S \in SUBSET Groups, NEW T \in SUBSET Groups, S \intersect T = {}
  PROVE  Cardinality(S \union T) = Cardinality(S) + Cardinality(T)
<1>1. S \union T \in SUBSET Groups /\ S \in SUBSET (S \union T) /\ (S \union T) \ S = T
  OBVIOUS
<1>2. QED
  BY <1>1, CountSplit

\* A sequence without duplicates has as many elements as its length.
LEMMA ElemsCardinality ==
  ASSUME NEW s \in Seq(Groups), NoDuplicates(s)
  PROVE  Cardinality(Elems(s)) = Len(s)
<1> DEFINE f == [i \in 1 .. Len(s) |-> s[i]]
<1>1. f \in [1 .. Len(s) -> Elems(s)]
  BY DEF Elems
<1>2. f \in Bijection(1 .. Len(s), Elems(s))
  BY <1>1 DEF Bijection, Injection, Surjection, IsInjective, Elems, NoDuplicates
<1>3. ExistsBijection(1 .. Len(s), Elems(s))
  BY <1>2 DEF ExistsBijection
<1>4. Len(s) \in Nat
  BY LenProperties
<1>5. QED
  BY <1>3, <1>4, FS_CountingElements

\* The groups created so far and those created next.
LEMMA IntervalCut ==
  ASSUME NEW a \in Nat, NEW b \in Nat, a <= b
  PROVE  /\ 0 .. b - 1 = (0 .. a - 1) \union (a .. b - 1)
         /\ (0 .. a - 1) \intersect (a .. b - 1) = {}
<1>1. \A x \in 0 .. a - 1 : ~ (x >= a)
  OBVIOUS
<1>2. QED
  BY <1>1

\* Cutting a sequence without duplicates in two.
LEMMA CutSequence ==
  ASSUME NEW s \in Seq(Groups), NEW n \in 0 .. Len(s), NoDuplicates(s)
  PROVE  LET a == SubSeq(s, 1, n)
             b == SubSeq(s, n + 1, Len(s))
         IN  /\ a \in Seq(Groups) /\ NoDuplicates(a) /\ Len(a) = n
             /\ b \in Seq(Groups) /\ NoDuplicates(b)
             /\ Elems(a) \union Elems(b) = Elems(s)
             /\ Elems(a) \intersect Elems(b) = {}
<1> DEFINE a == SubSeq(s, 1, n)
           b == SubSeq(s, n + 1, Len(s))
<1>0. Len(s) \in Nat /\ n \in Nat /\ \A i \in 1 .. Len(s) : s[i] \in Groups
  BY LenProperties, ElementOfSeq
<1>1. /\ a \in Seq(Groups)
      /\ Len(a) = n
      /\ \A i \in 1 .. n : a[i] = s[i]
  BY <1>0, SubSeqProperties
<1>2. /\ b \in Seq(Groups)
      /\ Len(b) = Len(s) - n
      /\ \A i \in 1 .. Len(s) - n : b[i] = s[n + i]
  BY <1>0, SubSeqProperties
<1> HIDE DEF a, b
<1>3. ASSUME NEW j \in 1 .. n, NEW k \in 1 .. n, a[j] = a[k]
      PROVE  j = k
  <2>1. j \in 1 .. Len(s) /\ k \in 1 .. Len(s) /\ s[j] = s[k]
    BY <1>0, <1>1, <1>3
  <2>2. QED
    BY <2>1 DEF NoDuplicates
<1>4. ASSUME NEW j \in 1 .. Len(s) - n, NEW k \in 1 .. Len(s) - n, b[j] = b[k]
      PROVE  j = k
  <2>1. n + j \in 1 .. Len(s) /\ n + k \in 1 .. Len(s) /\ s[n + j] = s[n + k]
    BY <1>0, <1>2, <1>4
  <2>2. n + j = n + k
    BY <2>1 DEF NoDuplicates
  <2>3. QED
    BY <2>2, <1>0
<1>5. ASSUME NEW i \in 1 .. Len(s)
      PROVE  s[i] \in Elems(a) \union Elems(b)
  <2>1. CASE i <= n
    BY <2>1, <1>0, <1>1 DEF Elems
  <2>2. CASE ~ (i <= n)
    <3>1. i - n \in 1 .. Len(s) - n /\ b[i - n] = s[n + (i - n)] /\ n + (i - n) = i
      BY <2>2, <1>0, <1>2
    <3>2. QED
      BY <3>1, <1>2 DEF Elems
  <2>3. QED
    BY <2>1, <2>2
<1>6. Elems(a) \union Elems(b) \subseteq Elems(s)
  <2>1. ASSUME NEW i \in 1 .. n PROVE a[i] \in Elems(s)
    BY <1>0, <1>1 DEF Elems
  <2>2. ASSUME NEW i \in 1 .. Len(s) - n PROVE b[i] \in Elems(s)
    <3>1. n + i \in 1 .. Len(s)
      BY <1>0
    <3>2. QED
      BY <3>1, <1>2 DEF Elems
  <2>3. QED
    BY <2>1, <2>2, <1>1, <1>2 DEF Elems
<1>7. ASSUME NEW i \in 1 .. n, NEW j \in 1 .. Len(s) - n
      PROVE  a[i] # b[j]
  <2>1. i \in 1 .. Len(s) /\ n + j \in 1 .. Len(s) /\ i # n + j
    BY <1>0
  <2>2. s[i] # s[n + j]
    BY <2>1 DEF NoDuplicates
  <2>3. QED
    BY <2>2, <1>1, <1>2
<1>8. NoDuplicates(a) /\ NoDuplicates(b)
  BY <1>1, <1>2, <1>3, <1>4 DEF NoDuplicates
<1>9. Elems(a) \union Elems(b) = Elems(s)
  <2>1. Elems(s) \subseteq Elems(a) \union Elems(b)
    BY <1>5 DEF Elems
  <2>2. QED
    BY <2>1, <1>6
<1>10. Elems(a) \intersect Elems(b) = {}
  BY <1>7, <1>1, <1>2 DEF Elems
<1>11. QED
  BY <1>1, <1>2, <1>8, <1>9, <1>10 DEF a, b

\* Appending a group.
LEMMA ElemsAppend ==
  ASSUME NEW s \in Seq(Groups), NEW g \in Groups
  PROVE  /\ Append(s, g) \in Seq(Groups)
         /\ Elems(Append(s, g)) = Elems(s) \union {g}
         /\ NoDuplicates(s) /\ g \notin Elems(s) => NoDuplicates(Append(s, g))
<1> DEFINE t == Append(s, g)
<1>1. /\ t \in Seq(Groups) /\ Len(t) = Len(s) + 1
      /\ \A i \in 1 .. Len(s) : t[i] = s[i]
      /\ t[Len(s) + 1] = g
      /\ Len(s) \in Nat
  BY AppendProperties, LenProperties
<1> HIDE DEF t
<1>2. Elems(t) = Elems(s) \union {g}
  <2>1. \A i \in 1 .. Len(s) + 1 : i \in 1 .. Len(s) \/ i = Len(s) + 1
    BY <1>1
  <2>2. 1 .. Len(s) \subseteq 1 .. Len(s) + 1 /\ Len(s) + 1 \in 1 .. Len(s) + 1
    BY <1>1
  <2>3. Elems(t) \subseteq Elems(s) \union {g}
    BY <1>1, <2>1 DEF Elems
  <2>4. Elems(s) \union {g} \subseteq Elems(t)
    BY <1>1, <2>2 DEF Elems
  <2>5. QED
    BY <2>3, <2>4
<1>3. ASSUME NoDuplicates(s), g \notin Elems(s),
             NEW j \in 1 .. Len(s) + 1, NEW k \in 1 .. Len(s) + 1, t[j] = t[k]
      PROVE  j = k
  <2>1. CASE j \in 1 .. Len(s) /\ k \in 1 .. Len(s)
    BY <2>1, <1>3, <1>1 DEF NoDuplicates
  <2>2. CASE j = Len(s) + 1 /\ k \in 1 .. Len(s)
    BY <2>2, <1>3, <1>1 DEF Elems
  <2>3. CASE k = Len(s) + 1 /\ j \in 1 .. Len(s)
    BY <2>3, <1>3, <1>1 DEF Elems
  <2>4. QED
    BY <2>1, <2>2, <2>3, <1>1
<1>4. NoDuplicates(s) /\ g \notin Elems(s) => NoDuplicates(t)
  BY <1>1, <1>3 DEF NoDuplicates
<1>5. QED
  BY <1>1, <1>2, <1>4 DEF t

\* Joining two sequences of groups.
LEMMA ElemsConcat ==
  ASSUME NEW s \in Seq(Groups), NEW u \in Seq(Groups)
  PROVE  /\ s \o u \in Seq(Groups)
         /\ Elems(s \o u) = Elems(s) \union Elems(u)
         /\ NoDuplicates(s) /\ NoDuplicates(u) /\ Elems(s) \intersect Elems(u) = {}
              => NoDuplicates(s \o u)
<1> DEFINE t == s \o u
<1>1. Len(s) \in Nat /\ Len(u) \in Nat
  BY LenProperties
<1>2. /\ t \in Seq(Groups) /\ Len(t) = Len(s) + Len(u)
      /\ \A i \in 1 .. Len(s) + Len(u) :
           t[i] = IF i <= Len(s) THEN s[i] ELSE u[i - Len(s)]
  BY <1>1, ConcatProperties
<1> HIDE DEF t
<1>3. \A i \in 1 .. Len(s) + Len(u) :
        \/ i \in 1 .. Len(s) /\ t[i] = s[i]
        \/ i - Len(s) \in 1 .. Len(u) /\ t[i] = u[i - Len(s)]
  BY <1>1, <1>2
<1>4. Elems(t) = Elems(s) \union Elems(u)
  <2>1. Elems(t) \subseteq Elems(s) \union Elems(u)
    BY <1>2, <1>3 DEF Elems
  <2>2. ASSUME NEW i \in 1 .. Len(s) PROVE s[i] \in Elems(t)
    <3>1. i \in 1 .. Len(t) /\ t[i] = s[i]
      BY <1>1, <1>2
    <3>2. QED
      BY <3>1 DEF Elems
  <2>3. ASSUME NEW i \in 1 .. Len(u) PROVE u[i] \in Elems(t)
    <3>1. /\ Len(s) + i \in 1 .. Len(t)
          /\ ~ (Len(s) + i <= Len(s)) /\ Len(s) + i - Len(s) = i
      BY <1>1, <1>2
    <3>2. t[Len(s) + i] = u[i]
      BY <3>1, <1>2
    <3>3. QED
      BY <3>1, <3>2 DEF Elems
  <2>4. QED
    BY <2>1, <2>2, <2>3 DEF Elems
<1>5. ASSUME NoDuplicates(s), NoDuplicates(u), Elems(s) \intersect Elems(u) = {},
             NEW j \in 1 .. Len(t), NEW k \in 1 .. Len(t), t[j] = t[k]
      PROVE  j = k
  <2>1. CASE j \in 1 .. Len(s) /\ k \in 1 .. Len(s)
    <3>1. s[j] = s[k]
      BY <2>1, <1>5, <1>1, <1>2
    <3>2. QED
      BY <3>1, <2>1, <1>5 DEF NoDuplicates
  <2>2. CASE j \notin 1 .. Len(s) /\ k \notin 1 .. Len(s)
    <3>1. /\ j - Len(s) \in 1 .. Len(u) /\ k - Len(s) \in 1 .. Len(u)
          /\ u[j - Len(s)] = u[k - Len(s)]
      BY <2>2, <1>5, <1>2, <1>3
    <3>2. j - Len(s) = k - Len(s)
      BY <3>1, <1>5 DEF NoDuplicates
    <3>3. QED
      BY <3>2, <1>1, <1>2
  <2>3. ASSUME NEW x \in 1 .. Len(t), NEW y \in 1 .. Len(t),
               x \in 1 .. Len(s), y \notin 1 .. Len(s), t[x] = t[y]
        PROVE  FALSE
    <3>1. t[x] = s[x] /\ s[x] \in Elems(s)
      BY <2>3, <1>1, <1>2 DEF Elems
    <3>2. t[y] \in Elems(u)
      BY <2>3, <1>2, <1>3 DEF Elems
    <3>3. QED
      BY <3>1, <3>2, <2>3, <1>5
  <2>4. QED
    BY <2>1, <2>2, <2>3, <1>5
<1>6. NoDuplicates(s) /\ NoDuplicates(u) /\ Elems(s) \intersect Elems(u) = {}
        => NoDuplicates(t)
  BY <1>5 DEF NoDuplicates
<1>7. QED
  BY <1>2, <1>4, <1>6 DEF t
-----------------------------------------------------------------------------
(* The refill *)

\* What Refill does to the pools: it takes drawn from the head of the buffer
\* and from the groups the data set has yet to create, and counts it exactly.
RefillEffect(rem, pend) ==
  \E drawn \in SUBSET Groups :
    /\ pendings' = pend \union drawn
    /\ remaining' = rem + Cardinality(drawn)
    /\ remaining' >= BatchSize
    /\ nextGroup' \in nextGroup .. MaxGroups
    /\ buffer' \in Seq(Groups) /\ NoDuplicates(buffer')
    /\ drawn \union Elems(buffer') = Elems(buffer) \union (nextGroup .. nextGroup' - 1)
    /\ drawn \intersect Elems(buffer') = {}
    /\ Elems(buffer') \subseteq Elems(buffer)
    /\ task' = [g \in Groups |-> IF g \in drawn THEN "created"
                                ELSE IF g \in pend THEN task[g] ELSE "none"]

LEMMA RefillWorks ==
  ASSUME buffer \in Seq(Groups), NoDuplicates(buffer),
         nextGroup \in 0 .. MaxGroups,
         Elems(buffer) \subseteq 0 .. nextGroup - 1,
         NEW rem \in Int, NEW pend, Refill(rem, pend)
  PROVE  RefillEffect(rem, pend)
<1>0. Len(buffer) \in Nat /\ OverSampling \in Nat \ {0} /\ BatchSize \in Nat /\ MaxGroups \in Nat
  BY LenProperties, ConstAssumption
<1>1. PICK calls \in 0 .. BatchSize :
        LET n      == calls * OverSampling
            reused == IF n < Len(buffer) THEN n ELSE Len(buffer)
            fresh  == n - reused
            drawn  == Elems(SubSeq(buffer, 1, reused))
                        \union (nextGroup .. nextGroup + fresh - 1)
        IN /\ rem + n >= BatchSize
           /\ nextGroup + fresh <= MaxGroups
           /\ buffer' = Left(reused)
           /\ nextGroup' = nextGroup + fresh
           /\ pendings' = pend \union drawn
           /\ remaining' = rem + n
           /\ task' = [g \in Groups |-> IF g \in drawn THEN "created"
                                       ELSE IF g \in pend THEN task[g] ELSE "none"]
  BY DEF Refill
<1> DEFINE n      == calls * OverSampling
           reused == IF n < Len(buffer) THEN n ELSE Len(buffer)
           fresh  == n - reused
           head   == SubSeq(buffer, 1, reused)
           new    == nextGroup .. nextGroup + fresh - 1
           drawn  == Elems(head) \union new
<1>2. n \in Nat
  BY <1>0
<1>3. /\ rem + n >= BatchSize
      /\ nextGroup + fresh <= MaxGroups
      /\ buffer' = SubSeq(buffer, reused + 1, Len(buffer))
      /\ nextGroup' = nextGroup + fresh
      /\ pendings' = pend \union drawn
      /\ remaining' = rem + n
      /\ task' = [g \in Groups |-> IF g \in drawn THEN "created"
                                  ELSE IF g \in pend THEN task[g] ELSE "none"]
  BY <1>1 DEF Left
<1> HIDE DEF n
<1>4. reused \in 0 .. Len(buffer) /\ fresh \in Nat /\ reused \in Nat
  BY <1>0, <1>2
<1>5. /\ head \in Seq(Groups) /\ NoDuplicates(head) /\ Len(head) = reused
      /\ buffer' \in Seq(Groups) /\ NoDuplicates(buffer')
      /\ Elems(head) \union Elems(buffer') = Elems(buffer)
      /\ Elems(head) \intersect Elems(buffer') = {}
  <2> HIDE DEF reused
  <2>1. QED
    BY <1>3, <1>4, CutSequence
<1>6. nextGroup' = nextGroup + fresh /\ nextGroup' \in nextGroup .. MaxGroups
  BY <1>3, <1>4
<1> HIDE DEF reused, fresh, head
<1>7. new \subseteq Groups /\ new \intersect Elems(buffer) = {} /\ new = nextGroup .. nextGroup' - 1
  BY <1>6, <1>4, <1>0 DEF Groups
<1>8. Elems(head) \subseteq Groups
  BY <1>5, ElementOfSeq DEF Elems
<1>9. Cardinality(drawn) = n
  <2>1. Cardinality(new) = fresh
    BY <1>4, <1>0, FS_Interval
  <2>2. Cardinality(Elems(head)) = reused
    BY <1>5, ElemsCardinality
  <2>3. Elems(head) \intersect new = {}
    BY <1>5, <1>7
  <2>4. Cardinality(drawn) = reused + fresh - 0
    <3>1. IsFiniteSet(Elems(head)) /\ IsFiniteSet(new)
      BY <1>7, <1>8, GroupSets
    <3>2. Cardinality(Elems(head) \intersect new) = 0
      BY <2>3, FS_EmptySet
    <3>3. Cardinality(Elems(head) \union new) =
            Cardinality(Elems(head)) + Cardinality(new) - Cardinality(Elems(head) \intersect new)
      BY <3>1, FS_Union
    <3>4. QED
      BY <3>2, <3>3, <2>1, <2>2
  <2>5. QED
    BY <2>4, <1>4, <1>2 DEF fresh
<1>10. drawn \in SUBSET Groups
  BY <1>7, <1>8
<1>11. remaining' = rem + Cardinality(drawn) /\ remaining' >= BatchSize
  BY <1>9, <1>3
<1>12. drawn \union Elems(buffer') = Elems(buffer) \union (nextGroup .. nextGroup' - 1)
  BY <1>5, <1>7
<1>13. drawn \intersect Elems(buffer') = {}
  BY <1>5, <1>7
<1>14. Elems(buffer') \subseteq Elems(buffer)
  BY <1>5
<1> HIDE DEF drawn
<1>15. QED
  BY <1>3, <1>5, <1>6, <1>10, <1>11, <1>12, <1>13, <1>14 DEF RefillEffect
-----------------------------------------------------------------------------
(* Conservation of groups and exactness of the counter *)

\* What holds at each place where the rollout coroutine awaits.
AtAwait ==
  /\ pc = "idle" => /\ pendings = {} /\ data = {} /\ collected = <<>>
                    /\ remaining = 0 /\ ~aborted
  /\ pc = "collect" => /\ collected = <<>> /\ ~aborted
                       /\ remaining >= BatchSize
                       /\ Cardinality(data) < BatchSize
                       /\ remaining = Cardinality(pendings) + Cardinality(data)
  /\ pc = "abort" => aborted /\ Cardinality(data) = BatchSize

CoreInv == TypeOK /\ EveryGroupInOnePlace /\ AtAwait

\* Overwriting one field of a sample keeps its type.
LEMMA SetField ==
  ASSUME NEW s \in SampleState
  PROVE  /\ \A p \in Place : [s EXCEPT !.at = p] \in SampleState
         /\ \A n \in Int : [s EXCEPT !.start = n] \in SampleState
         /\ [s EXCEPT !.reward = TRUE] \in SampleState
<1>1. ASSUME NEW p \in Place PROVE [s EXCEPT !.at = p] \in SampleState
  BY DEF SampleState
<1>2. ASSUME NEW n \in Int PROVE [s EXCEPT !.start = n] \in SampleState
  BY DEF SampleState
<1>3. [s EXCEPT !.reward = TRUE] \in SampleState
  <2>1. TRUE \in BOOLEAN
    OBVIOUS
  <2>2. ASSUME NEW b \in BOOLEAN PROVE [s EXCEPT !.reward = b] \in SampleState
    BY DEF SampleState
  <2>3. QED
    BY <2>1, <2>2
<1>4. QED
  BY <1>1, <1>2, <1>3

\* Assignments to one sample keep the type of the table.
LEMMA SetSampleType ==
  ASSUME sample \in [Groups -> [Samples -> SampleState]],
         NEW g \in Groups, NEW i \in Samples, NEW new \in SampleState,
         SetSample(g, i, new)
  PROVE  sample' \in [Groups -> [Samples -> SampleState]]
BY DEF SetSample

\* The steps of the group and sample coroutines touch neither the pools nor
\* the counter.
LEMMA TaskStepsKeepCore ==
  ASSUME CoreInv, UNCHANGED TaskVars,
         sample' \in [Groups -> [Samples -> SampleState]],
         task' \in [Groups -> {"none", "created", "running", "grading", "done"}]
  PROVE  CoreInv'
<1>1. TypeOK'
  BY DEF CoreInv, TypeOK, TaskVars, genVars, sourceVars, fateVars
<1>2. EveryGroupInOnePlace'
  <2>1. UNCHANGED <<pendings, data, collected, buffer, nextGroup, trained, dropped, surplus, discarded>>
    BY DEF TaskVars, genVars, sourceVars, fateVars
  <2>2. UNCHANGED <<Elems(collected), Elems(buffer), Open, Gone, NoDuplicates(collected), NoDuplicates(buffer)>>
    BY <2>1 DEF Open, Gone, Elems, NoDuplicates
  <2>3. QED
    BY <2>1, <2>2 DEF CoreInv, EveryGroupInOnePlace
<1>3. AtAwait'
  BY DEF CoreInv, AtAwait, TaskVars, genVars, sourceVars, fateVars
<1>4. QED
  BY <1>1, <1>2, <1>3 DEF CoreInv

LEMMA CoreInit == Init => CoreInv
<1> SUFFICES ASSUME Init PROVE CoreInv
  OBVIOUS
<1>1. Elems(<<>>) = {} /\ NoDuplicates(<<>>)
  BY DEF Elems, NoDuplicates
<1>2. FreshSample \in SampleState
  BY DEF FreshSample, SampleState, Status, Place, NoStart
<1>3. TypeOK
  <2>1. sample \in [Groups -> [Samples -> SampleState]]
    BY <1>2 DEF Init
  <2>2. collected \in Seq(Groups) /\ buffer \in Seq(Groups)
    BY EmptySeq DEF Init
  <2>3. task \in [Groups -> {"none", "created", "running", "grading", "done"}]
    BY DEF Init
  <2>4. /\ pendings \subseteq Groups /\ data \subseteq Groups /\ toAbort \subseteq Engines
        /\ trained \subseteq Groups /\ dropped \subseteq Groups
        /\ surplus \subseteq Groups /\ discarded \subseteq Groups
    BY DEF Init
  <2>5. /\ nextGroup \in 0 .. MaxGroups /\ rollout \in 0 .. NumRollouts
        /\ remaining \in Int
    BY ConstAssumption DEF Init
  <2>6. aborted \in BOOLEAN
    BY DEF Init
  <2>7. pc \in {"idle", "collect", "abort"}
    BY DEF Init
  <2>8. QED
    BY <2>1, <2>2, <2>3, <2>4, <2>5, <2>6, <2>7 DEF TypeOK
<1>4. EveryGroupInOnePlace
  BY <1>1 DEF Init, EveryGroupInOnePlace, Open, Gone
<1>5. AtAwait
  BY DEF Init, AtAwait
<1>6. QED
  BY <1>3, <1>4, <1>5 DEF CoreInv

LEMMA StartRolloutKeepsCore == CoreInv /\ StartRollout => CoreInv'
<1> SUFFICES ASSUME CoreInv, StartRollout PROVE CoreInv'
  OBVIOUS
<1> USE DEF CoreInv
<1>1. RefillEffect(remaining, pendings)
  <2>1. Elems(buffer) \subseteq 0 .. nextGroup - 1
    BY DEF EveryGroupInOnePlace, Open, Gone
  <2>2. QED
    BY <2>1, RefillWorks DEF TypeOK, EveryGroupInOnePlace, StartRollout
<1>2. PICK drawn \in SUBSET Groups :
        /\ pendings' = pendings \union drawn
        /\ remaining' = remaining + Cardinality(drawn)
        /\ remaining' >= BatchSize
        /\ nextGroup' \in nextGroup .. MaxGroups
        /\ buffer' \in Seq(Groups) /\ NoDuplicates(buffer')
        /\ drawn \union Elems(buffer') = Elems(buffer) \union (nextGroup .. nextGroup' - 1)
        /\ drawn \intersect Elems(buffer') = {}
        /\ task' = [g \in Groups |-> IF g \in drawn THEN "created"
                                    ELSE IF g \in pendings THEN task[g] ELSE "none"]
  BY <1>1 DEF RefillEffect
<1>3. /\ pendings = {} /\ data = {} /\ collected = <<>> /\ remaining = 0 /\ ~aborted
      /\ pc' = "collect" /\ rollout' = rollout + 1 /\ rollout < NumRollouts
      /\ UNCHANGED <<aborted, data, toAbort, collected, sample, trained, dropped, surplus, discarded>>
  BY DEF AtAwait, StartRollout, MoreRollouts
<1>4. Cardinality(drawn) \in Nat /\ Cardinality({}) = 0
  BY GroupSets, FS_EmptySet
<1>5. TypeOK'
  BY <1>2, <1>3, <1>4, ConstAssumption DEF TypeOK
<1>6. EveryGroupInOnePlace'
  <2>1. nextGroup \in Nat /\ nextGroup' \in Nat /\ nextGroup <= nextGroup'
    BY <1>2, ConstAssumption DEF TypeOK
  <2>2. /\ 0 .. nextGroup' - 1 = (0 .. nextGroup - 1) \union (nextGroup .. nextGroup' - 1)
        /\ (0 .. nextGroup - 1) \intersect (nextGroup .. nextGroup' - 1) = {}
    BY <2>1, IntervalCut
  <2>4. Elems(collected) = {} /\ Elems(collected)' = {} /\ NoDuplicates(collected)'
    BY <1>3 DEF Elems, NoDuplicates
  <2>5. Open = Elems(buffer) /\ Open' = drawn \union Elems(buffer') /\ Gone' = Gone
    BY <1>2, <1>3, <2>4 DEF Open, Gone, Elems
  <2>6. Open' = Open \union (nextGroup .. nextGroup' - 1)
    BY <2>5, <1>2
  <2>7. (Open \union Gone)' = 0 .. nextGroup' - 1 /\ (Open \intersect Gone)' = {}
    BY <2>5, <2>6, <2>2 DEF EveryGroupInOnePlace
  <2>8. QED
    BY <2>7, <2>4, <1>2, <1>3 DEF EveryGroupInOnePlace, Elems
<1>7. AtAwait'
  BY <1>2, <1>3, <1>4, ConstAssumption DEF AtAwait
<1>8. QED
  BY <1>5, <1>6, <1>7

LEMMA CollectKeepsCore == CoreInv /\ Collect => CoreInv'
<1> SUFFICES ASSUME CoreInv, Collect PROVE CoreInv'
  OBVIOUS
<1> USE DEF CoreInv
<1> DEFINE done == {g \in pendings : task[g] = "done"}
<1>1. PICK keep \in SUBSET done : \E accepted \in Fitting(keep) :
          /\ data' = data \union accepted
          /\ dropped' = dropped \union (done \ keep)
          /\ surplus' = surplus \union (keep \ accepted)
          /\ \/ /\ Cardinality(data') < BatchSize
                /\ Refill(StillPossible(done, keep), pendings \ done)
                /\ UNCHANGED <<pc, aborted, toAbort>>
             \/ /\ Cardinality(data') >= BatchSize
                /\ pendings' = pendings \ done
                /\ remaining' = StillPossible(done, keep)
                /\ pc' = "abort"
                /\ aborted' = TRUE
                /\ toAbort' = Engines
                /\ task' = [g \in Groups |-> IF g \in done THEN "none" ELSE task[g]]
                /\ UNCHANGED sourceVars
  BY DEF Collect
<1>2. PICK accepted \in Fitting(keep) :
          /\ data' = data \union accepted
          /\ dropped' = dropped \union (done \ keep)
          /\ surplus' = surplus \union (keep \ accepted)
          /\ \/ /\ Cardinality(data') < BatchSize
                /\ Refill(StillPossible(done, keep), pendings \ done)
                /\ UNCHANGED <<pc, aborted, toAbort>>
             \/ /\ Cardinality(data') >= BatchSize
                /\ pendings' = pendings \ done
                /\ remaining' = StillPossible(done, keep)
                /\ pc' = "abort"
                /\ aborted' = TRUE
                /\ toAbort' = Engines
                /\ task' = [g \in Groups |-> IF g \in done THEN "none" ELSE task[g]]
                /\ UNCHANGED sourceVars
  BY <1>1
<1>3. /\ pc = "collect" /\ collected = <<>> /\ ~aborted
      /\ Cardinality(data) < BatchSize
      /\ remaining = Cardinality(pendings) + Cardinality(data)
      /\ UNCHANGED <<collected, sample, rollout, trained, discarded>>
  BY DEF Collect, AtAwait
<1> DEFINE rest == pendings \ done
<1>4. /\ done \in SUBSET Groups /\ rest \in SUBSET Groups /\ keep \in SUBSET Groups
      /\ accepted \in SUBSET Groups /\ accepted \subseteq keep /\ keep \subseteq done
      /\ done \subseteq pendings /\ data \in SUBSET Groups /\ pendings \in SUBSET Groups
  BY DEF TypeOK, Fitting
<1> HIDE DEF done
<1>5. /\ Cardinality(data) \in Nat /\ Cardinality(keep) \in Nat /\ Cardinality(rest) \in Nat
      /\ Cardinality(accepted) \in Nat /\ Cardinality(done \ keep) \in Nat /\ BatchSize \in Nat
      /\ Cardinality(done) \in Nat
  BY <1>4, GroupSets, ConstAssumption
<1>6. Cardinality(data') = Cardinality(data) + Cardinality(accepted)
  <2>1. data \intersect accepted = {}
    BY <1>4 DEF EveryGroupInOnePlace
  <2>2. QED
    BY <2>1, <1>2, <1>4, CountUnion
<1>7. /\ Cardinality(pendings) = Cardinality(done) + Cardinality(rest)
      /\ Cardinality(done) = Cardinality(keep) + Cardinality(done \ keep)
  BY <1>4, CountSplit
<1>8. IF Cardinality(keep) <= BatchSize - Cardinality(data)
      THEN accepted = keep
      ELSE Cardinality(accepted) = BatchSize - Cardinality(data)
  BY DEF Fitting
<1>9. StillPossible(done, keep) = Cardinality(rest) + Cardinality(keep) + Cardinality(data)
  BY <1>3, <1>5, <1>7 DEF StillPossible
<1>10. Elems(collected) = {} /\ Elems(collected') = {} /\ NoDuplicates(collected')
  BY <1>3 DEF Elems, NoDuplicates
<1>11. CASE /\ Cardinality(data') < BatchSize
            /\ Refill(StillPossible(done, keep), rest)
            /\ UNCHANGED <<pc, aborted, toAbort>>
  <2>1. accepted = keep
    BY <1>11, <1>5, <1>6, <1>8
  <2>2. RefillEffect(StillPossible(done, keep), rest)
    <3>1. Elems(buffer) \subseteq 0 .. nextGroup - 1
      BY DEF EveryGroupInOnePlace, Open, Gone
    <3>2. StillPossible(done, keep) \in Int
      BY <1>9, <1>5
    <3>3. QED
      BY <3>1, <3>2, <1>11, RefillWorks DEF TypeOK, EveryGroupInOnePlace
  <2>3. PICK drawn \in SUBSET Groups :
          /\ pendings' = rest \union drawn
          /\ remaining' = StillPossible(done, keep) + Cardinality(drawn)
          /\ remaining' >= BatchSize
          /\ nextGroup' \in nextGroup .. MaxGroups
          /\ buffer' \in Seq(Groups) /\ NoDuplicates(buffer')
          /\ drawn \union Elems(buffer') = Elems(buffer) \union (nextGroup .. nextGroup' - 1)
          /\ drawn \intersect Elems(buffer') = {}
          /\ task' = [g \in Groups |-> IF g \in drawn THEN "created"
                                      ELSE IF g \in rest THEN task[g] ELSE "none"]
    BY <2>2 DEF RefillEffect
  <2>4. /\ nextGroup \in Nat /\ nextGroup' \in Nat /\ nextGroup <= nextGroup'
        /\ nextGroup' \in 0 .. MaxGroups
    BY <2>3, ConstAssumption DEF TypeOK
  <2> DEFINE new == nextGroup .. nextGroup' - 1
  <2>5. /\ 0 .. nextGroup' - 1 = (0 .. nextGroup - 1) \union new
        /\ (0 .. nextGroup - 1) \intersect new = {}
    BY <2>4, IntervalCut
  <2> HIDE DEF new
  <2>6. Cardinality(drawn) \in Nat
    BY GroupSets
  <2>7. TypeOK'
    <3>1. remaining' \in Int
      BY <2>3, <2>6, <1>9, <1>5
    <3>2. QED
      BY <3>1, <2>3, <2>4, <1>2, <1>3, <1>4, <1>11 DEF TypeOK
  <2>8. EveryGroupInOnePlace'
    <3>1. /\ Open = pendings \union data \union Elems(buffer)
          /\ Open' = (rest \union drawn) \union (data \union keep) \union Elems(buffer')
          /\ Gone' = Gone \union (done \ keep)
      BY <2>1, <2>3, <1>2, <1>3, <1>10 DEF Open, Gone, Elems
    <3>2. /\ pendings \subseteq Open /\ data \subseteq Open /\ Elems(buffer) \subseteq Open
          /\ Open \subseteq 0 .. nextGroup - 1 /\ Gone \subseteq 0 .. nextGroup - 1
          /\ Open \union Gone = 0 .. nextGroup - 1 /\ Open \intersect Gone = {}
      BY <3>1 DEF EveryGroupInOnePlace
    <3>3. drawn \union Elems(buffer') = Elems(buffer) \union new
      BY <2>3 DEF new
    <3>4. drawn \intersect (pendings \union data) = {} /\ drawn \intersect Gone = {}
      BY <3>2, <3>3, <2>5 DEF EveryGroupInOnePlace
    <3>5. Open' \union Gone' = 0 .. nextGroup' - 1
      BY <3>1, <3>2, <3>3, <2>5, <1>4
    <3>6. Open' \intersect Gone' = {}
      <4>1. (done \ keep) \intersect ((rest \union drawn) \union (data \union keep) \union Elems(buffer')) = {}
        BY <3>2, <3>3, <3>4, <2>5, <1>4 DEF EveryGroupInOnePlace
      <4>2. Gone \intersect ((rest \union drawn) \union (data \union keep) \union Elems(buffer')) = {}
        BY <3>2, <3>3, <3>4, <2>5, <1>4
      <4>3. QED
        BY <3>1, <4>1, <4>2
    <3>7. Elems(buffer') \intersect (pendings' \union data') = {}
      BY <2>3, <3>2, <3>3, <2>5, <1>2, <1>4 DEF EveryGroupInOnePlace
    <3>8. pendings' \intersect data' = {}
      BY <2>3, <2>1, <3>4, <1>2, <1>4 DEF EveryGroupInOnePlace
    <3>9. /\ trained' \intersect (dropped \union surplus \union discarded)' = {}
          /\ dropped' \intersect (surplus \union discarded)' = {}
          /\ surplus' \intersect discarded' = {}
      BY <3>2, <2>1, <1>2, <1>3, <1>4 DEF EveryGroupInOnePlace, Gone
    <3>10. QED
      BY <3>5, <3>6, <3>7, <3>8, <3>9, <2>3, <1>10 DEF EveryGroupInOnePlace, Elems
  <2>9. AtAwait'
    <3>1. rest \intersect drawn = {}
      BY <2>3, <2>5, <1>4 DEF EveryGroupInOnePlace, Open, new
    <3>2. Cardinality(pendings') = Cardinality(rest) + Cardinality(drawn)
      BY <3>1, <2>3, <1>4, CountUnion
    <3>3. remaining' = Cardinality(pendings') + Cardinality(data')
      BY <3>2, <2>1, <2>3, <2>6, <1>5, <1>6, <1>9
    <3>4. QED
      BY <3>3, <2>3, <1>3, <1>11 DEF AtAwait
  <2>10. QED
    BY <2>7, <2>8, <2>9
<1>12. CASE /\ Cardinality(data') >= BatchSize
            /\ pendings' = rest
            /\ remaining' = StillPossible(done, keep)
            /\ pc' = "abort"
            /\ aborted' = TRUE
            /\ toAbort' = Engines
            /\ task' = [g \in Groups |-> IF g \in done THEN "none" ELSE task[g]]
            /\ UNCHANGED sourceVars
  <2>1. Cardinality(data') = BatchSize
    BY <1>12, <1>5, <1>6, <1>8
  <2>2. UNCHANGED <<buffer, nextGroup>>
    BY <1>12 DEF sourceVars
  <2>3. TypeOK'
    <3>1. remaining' \in Int
      BY <1>12, <1>5, <1>9
    <3>2. QED
      BY <3>1, <2>2, <1>2, <1>3, <1>4, <1>12 DEF TypeOK
  <2>4. EveryGroupInOnePlace'
    <3>1. /\ Open = pendings \union data \union Elems(buffer)
          /\ Open' = rest \union (data \union accepted) \union Elems(buffer)
          /\ Gone' = Gone \union (done \ accepted)
      BY <2>2, <1>2, <1>3, <1>4, <1>10, <1>12 DEF Open, Gone, Elems
    <3>2. Open' \union Gone' = Open \union Gone
      BY <3>1, <1>4
    <3>3. Open' \intersect Gone' = {}
      BY <3>1, <1>4 DEF EveryGroupInOnePlace
    <3>4. /\ trained' \intersect (dropped \union surplus \union discarded)' = {}
          /\ dropped' \intersect (surplus \union discarded)' = {}
          /\ surplus' \intersect discarded' = {}
      <4>1. pendings \intersect Gone = {}
        BY <3>1 DEF EveryGroupInOnePlace
      <4>2. QED
        BY <4>1, <1>2, <1>3, <1>4 DEF EveryGroupInOnePlace, Gone
    <3>5. QED
      BY <3>2, <3>3, <3>4, <2>2, <1>2, <1>4, <1>10, <1>12, SMTT(30) DEF EveryGroupInOnePlace, Elems, NoDuplicates
  <2>5. AtAwait'
    BY <2>1, <1>12 DEF AtAwait
  <2>6. QED
    BY <2>3, <2>4, <2>5
<1>13. QED
  BY <1>2, <1>11, <1>12

LEMMA AbortEngineKeepsCore ==
  ASSUME CoreInv, NEW e \in Engines, AbortEngine(e)
  PROVE  CoreInv'
<1> USE DEF CoreInv
<1>1. UNCHANGED <<pendings, remaining, aborted, pc, data, collected, task, buffer, nextGroup,
                  rollout, trained, dropped, surplus, discarded>>
  BY DEF AbortEngine, sourceVars, fateVars
<1>2. sample' \in [Groups -> [Samples -> SampleState]]
  <2>1. ASSUME NEW g \in Groups, NEW i \in Samples
        PROVE  /\ sample[g][i] \in SampleState
               /\ [sample[g][i] EXCEPT !.at = "aborting"] \in SampleState
    <3>1. sample[g][i] \in SampleState /\ "aborting" \in Place
      BY DEF TypeOK, Place
    <3>2. QED
      BY <3>1, SetField
  <2>2. QED
    BY <2>1 DEF AbortEngine
<1>3. toAbort' \subseteq Engines
  BY DEF AbortEngine, Unposted, TypeOK
<1>4. TypeOK'
  BY <1>1, <1>2, <1>3 DEF TypeOK
<1>5. EveryGroupInOnePlace'
  BY <1>1 DEF EveryGroupInOnePlace, Open, Gone, Elems, NoDuplicates
<1>6. AtAwait'
  BY <1>1 DEF AtAwait
<1>7. QED
  BY <1>4, <1>5, <1>6

LEMMA DrainKeepsCore ==
  ASSUME CoreInv, NEW g \in Groups, Drain(g)
  PROVE  CoreInv'
<1> USE DEF CoreInv
<1>1. /\ g \in pendings /\ pc = "abort"
      /\ pendings' = pendings \ {g}
      /\ task' = [task EXCEPT ![g] = "none"]
      /\ UNCHANGED <<remaining, aborted, pc, data, toAbort, buffer, nextGroup, rollout,
                     trained, dropped, surplus>>
  BY DEF Drain, sourceVars
<1>2. CASE /\ collected' = Append(collected, g)
           /\ sample' = [sample EXCEPT ![g] = [i \in Samples |-> Stamp(sample[g][i])]]
           /\ UNCHANGED discarded
  <2>1. g \in Groups /\ collected \in Seq(Groups) /\ g \notin Elems(collected)
    BY <1>1 DEF TypeOK, EveryGroupInOnePlace
  <2>2. /\ collected' \in Seq(Groups)
        /\ Elems(collected') = Elems(collected) \union {g}
        /\ NoDuplicates(collected')
    BY <2>1, <1>2, ElemsAppend DEF EveryGroupInOnePlace
  <2>3. sample' \in [Groups -> [Samples -> SampleState]]
    <3>1. ASSUME NEW i \in Samples PROVE Stamp(sample[g][i]) \in SampleState
      <4>1. sample[g][i] \in SampleState /\ rollout \in Int
        BY ConstAssumption DEF TypeOK
      <4>2. QED
        BY <4>1, SetField DEF Stamp
    <3>2. QED
      BY <3>1, <1>2 DEF TypeOK
  <2>4. TypeOK'
    BY <2>2, <2>3, <1>1, <1>2 DEF TypeOK
  <2>5. EveryGroupInOnePlace'
    <3>1. Open' = Open /\ Gone' = Gone
      BY <2>2, <1>1, <1>2 DEF Open, Gone, Elems
    <3>2. Elems(buffer') = Elems(buffer) /\ NoDuplicates(buffer') = NoDuplicates(buffer)
      BY <1>1
    <3>3. /\ (Open \union Gone)' = 0 .. nextGroup' - 1
          /\ (Open \intersect Gone)' = {}
      BY <3>1, <1>1 DEF EveryGroupInOnePlace
    <3>4. Elems(collected') \intersect (pendings' \union data') = {}
      BY <2>2, <1>1 DEF EveryGroupInOnePlace
    <3>5. Elems(buffer') \intersect (pendings' \union data' \union Elems(collected')) = {}
      BY <2>2, <3>2, <1>1 DEF EveryGroupInOnePlace
    <3>6. QED
      BY <2>2, <3>2, <3>3, <3>4, <3>5, <1>1, <1>2 DEF EveryGroupInOnePlace
  <2>6. AtAwait'
    BY <1>1 DEF AtAwait
  <2>7. QED
    BY <2>4, <2>5, <2>6
<1>3. CASE /\ discarded' = discarded \union {g}
           /\ UNCHANGED <<collected, sample>>
  <2>1. TypeOK'
    BY <1>1, <1>3 DEF TypeOK
  <2>2. EveryGroupInOnePlace'
    <3>1. /\ Open' = Open \ {g} /\ Gone' = Gone \union {g} /\ g \in Open
      BY <1>1, <1>3 DEF Open, Gone, Elems, EveryGroupInOnePlace
    <3>2. UNCHANGED <<Elems(collected), Elems(buffer), NoDuplicates(collected), NoDuplicates(buffer)>>
      BY <1>1, <1>3 DEF Elems, NoDuplicates
    <3>3. g \notin Gone
      BY <3>1 DEF EveryGroupInOnePlace
    <3>4. QED
      BY <3>1, <3>2, <3>3, <1>1, <1>3 DEF EveryGroupInOnePlace, Gone
  <2>3. AtAwait'
    BY <1>1 DEF AtAwait
  <2>4. QED
    BY <2>1, <2>2, <2>3
<1>4. QED
  BY <1>2, <1>3 DEF Drain

LEMMA FinishRolloutKeepsCore == CoreInv /\ FinishRollout => CoreInv'
<1> SUFFICES ASSUME CoreInv, FinishRollout PROVE CoreInv'
  OBVIOUS
<1> USE DEF CoreInv
<1>1. /\ pc = "abort" /\ pendings = {} /\ pc' = "idle" /\ trained' = trained \union data
      /\ data' = {} /\ remaining' = 0 /\ aborted' = FALSE
      /\ buffer' = buffer \o collected /\ collected' = <<>>
      /\ UNCHANGED <<pendings, toAbort, task, sample, nextGroup, rollout, dropped, surplus, discarded>>
  BY DEF FinishRollout, ResetState, Drained
<1>2. collected \in Seq(Groups) /\ buffer \in Seq(Groups)
  BY DEF TypeOK
<1>3. /\ buffer' \in Seq(Groups)
      /\ Elems(buffer') = Elems(buffer) \union Elems(collected)
      /\ NoDuplicates(buffer')
  BY <1>1, <1>2, ElemsConcat DEF EveryGroupInOnePlace
<1>7. Elems(collected') = {} /\ NoDuplicates(collected')
  BY <1>1 DEF Elems, NoDuplicates
<1>8. TypeOK'
  <2>1. collected' \in Seq(Groups)
    BY <1>1, EmptySeq
  <2>2. pc' \in {"idle", "collect", "abort"} /\ remaining' \in Int
    BY <1>1
  <2>2a. aborted' \in BOOLEAN
    BY <1>1
  <2>3. data' \subseteq Groups /\ trained' \subseteq Groups
    BY <1>1 DEF TypeOK
  <2>4. QED
    BY <2>1, <2>2, <2>2a, <2>3, <1>1, <1>3 DEF TypeOK
<1>9. EveryGroupInOnePlace'
  <2>1. /\ Open = data \union Elems(collected) \union Elems(buffer)
        /\ Open' = Elems(buffer) \union Elems(collected)
        /\ Gone' = Gone \union data
    BY <1>1, <1>3, <1>7 DEF Open, Gone, Elems
  <2>2. data \intersect Gone = {}
    BY <2>1 DEF EveryGroupInOnePlace
  <2>3. /\ (Open \union Gone)' = 0 .. nextGroup' - 1
        /\ (Open \intersect Gone)' = {}
    BY <2>1, <1>1 DEF EveryGroupInOnePlace
  <2>4. QED
    BY <2>1, <2>2, <2>3, <1>1, <1>3, <1>7, ZenonT(40) DEF EveryGroupInOnePlace, Gone, Elems
<1>10. AtAwait'
  BY <1>1 DEF AtAwait
<1>11. QED
  BY <1>8, <1>9, <1>10

LEMMA CoroutineStepsKeepCore ==
  ASSUME CoreInv, NEW g \in Groups,
         \/ StartTask(g) \/ Gather(g) \/ GradeGroup(g)
         \/ \E i \in Samples : SampleStep(g, i)
  PROVE  CoreInv'
<1>1. /\ sample \in [Groups -> [Samples -> SampleState]]
      /\ task \in [Groups -> {"none", "created", "running", "grading", "done"}]
  BY DEF CoreInv, TypeOK
<1>2. CASE StartTask(g)
  <2>1. sample' \in [Groups -> [Samples -> SampleState]]
    <3>1. ASSUME NEW i \in Samples
          PROVE  [sample[g][i] EXCEPT !.at =
                    IF sample[g][i].status = "finished" THEN "returned" ELSE "queued"] \in SampleState
      <4> DEFINE p == IF sample[g][i].status = "finished" THEN "returned" ELSE "queued"
      <4>1. p \in Place
        BY DEF Place
      <4> HIDE DEF p
      <4>2. [sample[g][i] EXCEPT !.at = p] \in SampleState
        BY <4>1, <1>1, SetField, ZenonT(40)
      <4>3. QED
        BY <4>2 DEF p
    <3>2. CASE UNCHANGED sample
      BY <3>2, <1>1
    <3>3. CASE sample' = [sample EXCEPT ![g] = [i \in Samples |->
                 [sample[g][i] EXCEPT !.at =
                    IF sample[g][i].status = "finished" THEN "returned" ELSE "queued"]]]
      BY <3>1, <3>3, <1>1
    <3>4. QED
      BY <3>2, <3>3, <1>2 DEF StartTask
  <2>2. task' \in [Groups -> {"none", "created", "running", "grading", "done"}] /\ UNCHANGED TaskVars
    BY <1>1, <1>2 DEF StartTask
  <2>3. QED
    BY <2>1, <2>2, TaskStepsKeepCore
<1>3. CASE Gather(g)
  <2>1. task' \in [Groups -> {"none", "created", "running", "grading", "done"}]
        /\ UNCHANGED TaskVars /\ UNCHANGED sample
    BY <1>1, <1>3 DEF Gather
  <2>2. QED
    BY <2>1, <1>1, TaskStepsKeepCore
<1>4. CASE GradeGroup(g)
  <2>1. sample' \in [Groups -> [Samples -> SampleState]]
    <3>1. ASSUME NEW i \in Samples
          PROVE  [sample[g][i] EXCEPT !.reward = TRUE] \in SampleState
      BY <1>1, SetField
    <3>2. QED
      BY <3>1, <1>1, <1>4 DEF GradeGroup
  <2>2. task' \in [Groups -> {"none", "created", "running", "grading", "done"}] /\ UNCHANGED TaskVars
    BY <1>1, <1>4 DEF GradeGroup
  <2>3. QED
    BY <2>1, <2>2, TaskStepsKeepCore
<1>5. ASSUME NEW i \in Samples, SampleStep(g, i) PROVE CoreInv'
  <2>1. sample[g][i] \in SampleState
    BY <1>1
  <2>2. PICK new \in SampleState : SetSample(g, i, new)
    <3>1. CASE Acquire(g, i)
      BY <3>1, <2>1 DEF Acquire, SampleState, Status, Place
    <3>2. CASE \E e \in Engines : Route(g, i, e)
      BY <3>2, <2>1 DEF Route, SampleState, Place
    <3>3. CASE Generated(g, i)
      <4>1. Longer(sample[g][i]) \in Int
        BY <2>1, <1>1, ConstAssumption DEF Longer, SampleState, CoreInv, TypeOK
      <4>2. QED
        BY <3>3, <4>1, <2>1 DEF Generated, Scored, SampleState, Status, Place
    <3>4. CASE Interrupted(g, i)
      <4>1. PICK tokens \in BOOLEAN :
              SetSample(g, i, [sample[g][i] EXCEPT !.status = "aborted",
                 !.response = IF tokens THEN Longer(sample[g][i]) ELSE sample[g][i].response,
                 !.at = "returned"])
        BY <3>4 DEF Interrupted
      <4>2. (IF tokens THEN Longer(sample[g][i]) ELSE sample[g][i].response) \in Int
        BY <2>1, <1>1, ConstAssumption DEF Longer, SampleState, CoreInv, TypeOK
      <4>3. QED
        BY <4>1, <4>2, <2>1 DEF SampleState, Status, Place
    <3>5. CASE Reward(g, i)
      BY <3>5, <2>1 DEF Reward, SampleState, Place
    <3>6. QED
      BY <1>5, <3>1, <3>2, <3>3, <3>4, <3>5 DEF SampleStep
  <2>3. UNCHANGED TaskVars /\ UNCHANGED task
    BY <1>5 DEF SampleStep, Acquire, Route, Generated, Interrupted, Reward
  <2>4. QED
    BY <2>2, <2>3, <1>1, SetSampleType, TaskStepsKeepCore
<1>6. QED
  BY <1>2, <1>3, <1>4, <1>5

LEMMA CoreStep == CoreInv /\ [Next]_vars => CoreInv'
<1> SUFFICES ASSUME CoreInv, [Next]_vars PROVE CoreInv'
  OBVIOUS
<1>1. CASE MainStep
  BY <1>1, StartRolloutKeepsCore, CollectKeepsCore, FinishRolloutKeepsCore, AbortEngineKeepsCore
     DEF MainStep
<1>2. CASE \E g \in Groups : TaskStep(g) \/ \E i \in Samples : SampleStep(g, i)
  BY <1>2, DrainKeepsCore, CoroutineStepsKeepCore DEF TaskStep
<1>3. CASE UNCHANGED vars
  <2>1. UNCHANGED TaskVars /\ UNCHANGED <<sample, task>>
    BY <1>3 DEF vars, TaskVars
  <2>2. QED
    BY <2>1, TaskStepsKeepCore DEF CoreInv, TypeOK
<1>4. QED
  BY <1>1, <1>2, <1>3 DEF Next, Done
-----------------------------------------------------------------------------
(* What every task and every sample knows *)

Busy == {"queued", "sent", "aborting", "scoring"} \union Engines

TaskInv ==
  \A g \in Groups :
    /\ task[g] # "none" <=> g \in pendings
    /\ task[g] = "grading" => GroupRm

SampleInv(g, i) ==
  LET s == sample[g][i] IN
  /\ s.at \in Busy => task[g] = "running"
  /\ s.at = "aborting" => aborted
  /\ s.at = "scoring" => s.status = "finished" /\ ~GroupRm
  /\ ~GroupRm /\ s.status = "finished" => s.reward \/ s.at = "scoring"
  /\ task[g] = "running" => s.at # "idle"
  /\ task[g] = "running" /\ s.at = "returned" /\ ~aborted => s.status = "finished"
  /\ task[g] = "grading" => s.status = "finished"
  /\ task[g] = "done" /\ ~aborted => s.status = "finished" /\ s.reward
  /\ g \in data \union trained \union dropped \union surplus =>
       s.status = "finished" /\ s.reward

FullInv ==
  /\ CoreInv
  /\ TaskInv
  /\ \A g \in Groups : \A i \in Samples : SampleInv(g, i)
  /\ PartialRollout => discarded = {}
  /\ pc # "idle" => rollout >= 1

\* A refill hands out no group that is pending, accepted or gone.
LEMMA DrawnIsIdle ==
  ASSUME EveryGroupInOnePlace, nextGroup \in Nat, nextGroup' \in Nat, nextGroup <= nextGroup',
         NEW drawn,
         drawn \union Elems(buffer') = Elems(buffer) \union (nextGroup .. nextGroup' - 1)
  PROVE  drawn \intersect (pendings \union data \union Gone) = {}
<1> DEFINE new == nextGroup .. nextGroup' - 1
<1>1. (0 .. nextGroup - 1) \intersect new = {}
  BY IntervalCut
<1> HIDE DEF new
<1>2. drawn \subseteq Elems(buffer) \union new
  BY DEF new
<1>3. pendings \union data \union Gone \subseteq 0 .. nextGroup - 1
  BY DEF EveryGroupInOnePlace, Open
<1>4. Elems(buffer) \intersect (pendings \union data \union Gone) = {}
  BY DEF EveryGroupInOnePlace, Open
<1>5. QED
  BY <1>1, <1>2, <1>3, <1>4

LEMMA FullInit == Init => FullInv
<1> SUFFICES ASSUME Init PROVE FullInv
  OBVIOUS
<1>1. CoreInv
  BY CoreInit
<1>2. TaskInv
  BY DEF Init, TaskInv
<1>3. Elems(<<>>) = {}
  BY DEF Elems
<1>4. ASSUME NEW g \in Groups, NEW i \in Samples
      PROVE  SampleInv(g, i)
  <2>1. sample[g][i] = FreshSample /\ task[g] = "none"
    BY DEF Init
  <2>2. "idle" \notin Busy
    BY ConstAssumption DEF Busy
  <2>3. QED
    BY <2>1, <2>2, <1>3 DEF SampleInv, FreshSample, Init
<1>5. QED
  BY <1>1, <1>2, <1>4 DEF FullInv, Init

LEMMA StartRolloutKeepsFull == FullInv /\ StartRollout => FullInv'
<1> SUFFICES ASSUME FullInv, StartRollout PROVE FullInv'
  OBVIOUS
<1>1. CoreInv /\ CoreInv'
  BY StartRolloutKeepsCore DEF FullInv
<1>2. RefillEffect(remaining, pendings)
  <2>1. Elems(buffer) \subseteq 0 .. nextGroup - 1
    BY <1>1 DEF CoreInv, EveryGroupInOnePlace, Open, Gone
  <2>2. QED
    BY <2>1, <1>1, RefillWorks DEF CoreInv, AtAwait, TypeOK, EveryGroupInOnePlace, StartRollout
<1>3. PICK drawn \in SUBSET Groups :
        /\ pendings' = pendings \union drawn
        /\ nextGroup' \in nextGroup .. MaxGroups
        /\ drawn \union Elems(buffer') = Elems(buffer) \union (nextGroup .. nextGroup' - 1)
        /\ drawn \intersect Elems(buffer') = {}
        /\ Elems(buffer') \subseteq Elems(buffer)
        /\ task' = [g \in Groups |-> IF g \in drawn THEN "created"
                                    ELSE IF g \in pendings THEN task[g] ELSE "none"]
  BY <1>2 DEF RefillEffect
<1>4. /\ pendings = {} /\ data = {} /\ collected = <<>> /\ ~aborted
      /\ rollout' = rollout + 1 /\ rollout \in Nat
      /\ UNCHANGED <<aborted, data, collected, sample, trained, dropped, surplus, discarded>>
  BY <1>1, ConstAssumption DEF CoreInv, TypeOK, AtAwait, StartRollout
<1>5. TaskInv'
  BY <1>3, <1>4 DEF FullInv, TaskInv
<1>6. ASSUME NEW g \in Groups, NEW i \in Samples
      PROVE  SampleInv(g, i)'
  <2>1. SampleInv(g, i) /\ task[g] = "none" /\ task'[g] \in {"created", "none"}
    BY <1>3, <1>4 DEF FullInv, TaskInv
  <2>2. QED
    BY <2>1, <1>4 DEF SampleInv
<1>7. QED
  BY <1>1, <1>4, <1>5, <1>6 DEF FullInv

LEMMA CollectKeepsFull == FullInv /\ Collect => FullInv'
<1> SUFFICES ASSUME FullInv, Collect PROVE FullInv'
  OBVIOUS
<1>1. CoreInv /\ CoreInv'
  BY CollectKeepsCore DEF FullInv
<1> DEFINE done == {g \in pendings : task[g] = "done"}
           rest == pendings \ done
<1>2. PICK keep \in SUBSET done, accepted \in SUBSET done :
          /\ accepted \subseteq keep
          /\ data' = data \union accepted
          /\ dropped' = dropped \union (done \ keep)
          /\ surplus' = surplus \union (keep \ accepted)
          /\ \/ /\ Refill(StillPossible(done, keep), rest)
                /\ UNCHANGED <<pc, aborted, toAbort>>
             \/ /\ pendings' = rest
                /\ aborted' = TRUE
                /\ task' = [g \in Groups |-> IF g \in done THEN "none" ELSE task[g]]
                /\ UNCHANGED sourceVars
  BY DEF Collect, Fitting
<1>3. /\ pc = "collect" /\ collected = <<>> /\ ~aborted /\ rollout \in Nat
      /\ UNCHANGED <<collected, sample, rollout, trained, discarded>>
      /\ pendings \subseteq Groups
      /\ remaining \in Nat /\ Cardinality(done \ keep) \in Nat
  <2>1. done \ keep \in SUBSET Groups
    BY <1>1 DEF CoreInv, TypeOK
  <2>2. pc = "collect"
    BY DEF Collect
  <2>3. Cardinality(pendings) \in Nat /\ Cardinality(data) \in Nat
    BY <1>1, GroupSets DEF CoreInv, TypeOK
  <2>4. QED
    BY <2>1, <2>2, <2>3, <1>1, GroupSets, ConstAssumption DEF Collect, CoreInv, AtAwait, TypeOK
\* Both ways out of the step give every group a task that fits its place.
<1>4. \E drawn \in SUBSET Groups :
        /\ pendings' = rest \union drawn
        /\ drawn \intersect (pendings \union data \union Gone) = {}
        /\ Elems(buffer') \subseteq Elems(buffer)
        /\ task' = [g \in Groups |-> IF g \in drawn THEN "created"
                                    ELSE IF g \in rest THEN task[g] ELSE "none"]
  <2>1. CASE Refill(StillPossible(done, keep), rest)
    <3>1. Elems(buffer) \subseteq 0 .. nextGroup - 1
      BY <1>1 DEF CoreInv, EveryGroupInOnePlace, Open, Gone
    <3>2. StillPossible(done, keep) \in Int
      BY <1>3 DEF StillPossible
    <3>3. RefillEffect(StillPossible(done, keep), rest)
      BY <3>1, <3>2, <2>1, <1>1, RefillWorks DEF CoreInv, TypeOK, EveryGroupInOnePlace
    <3>4. PICK drawn \in SUBSET Groups :
            /\ pendings' = rest \union drawn
            /\ nextGroup' \in nextGroup .. MaxGroups
            /\ drawn \union Elems(buffer') = Elems(buffer) \union (nextGroup .. nextGroup' - 1)
            /\ Elems(buffer') \subseteq Elems(buffer)
            /\ task' = [g \in Groups |-> IF g \in drawn THEN "created"
                                        ELSE IF g \in rest THEN task[g] ELSE "none"]
      BY <3>3 DEF RefillEffect
    <3>5. nextGroup \in Nat /\ nextGroup' \in Nat /\ nextGroup <= nextGroup'
      BY <3>4, <1>1, ConstAssumption DEF CoreInv, TypeOK
    <3>6. drawn \intersect (pendings \union data \union Gone) = {}
      BY <3>4, <3>5, <1>1, DrawnIsIdle DEF CoreInv
    <3>7. QED
      BY <3>4, <3>6
  <2>2. CASE /\ pendings' = rest
             /\ task' = [g \in Groups |-> IF g \in done THEN "none" ELSE task[g]]
             /\ UNCHANGED sourceVars
    <3>1. task' = [g \in Groups |-> IF g \in {} THEN "created"
                                   ELSE IF g \in rest THEN task[g] ELSE "none"]
      BY <2>2 DEF FullInv, TaskInv
    <3>2. Elems(buffer') = Elems(buffer)
      BY <2>2 DEF sourceVars, Elems
    <3>3. /\ pendings' = rest \union {}
          /\ {} \intersect (pendings \union data \union Gone) = {}
          /\ Elems(buffer') \subseteq Elems(buffer)
      BY <3>2, <2>2
    <3> WITNESS {} \in SUBSET Groups
    <3>4. QED
      BY <3>1, <3>3
  <2>3. QED
    BY <2>1, <2>2, <1>2
<1>5. PICK drawn \in SUBSET Groups :
        /\ pendings' = rest \union drawn
        /\ drawn \intersect (pendings \union data \union Gone) = {}
        /\ Elems(buffer') \subseteq Elems(buffer)
        /\ task' = [g \in Groups |-> IF g \in drawn THEN "created"
                                    ELSE IF g \in rest THEN task[g] ELSE "none"]
  BY <1>4
<1>6. TaskInv'
  BY <1>3, <1>5 DEF FullInv, TaskInv
<1>7. ASSUME NEW g \in Groups, NEW i \in Samples
      PROVE  SampleInv(g, i)'
  <2>1. SampleInv(g, i) /\ (task[g] # "none" <=> g \in pendings)
    BY DEF FullInv, TaskInv
  <2>2. task'[g] = IF g \in drawn THEN "created" ELSE IF g \in rest THEN task[g] ELSE "none"
    BY <1>5
  <2>3. g \in drawn => task[g] = "none"
    BY <1>5, <2>1
  <2>4. g \in done => task[g] = "done"
    OBVIOUS
  <2>5. g \in (data \union trained \union dropped \union surplus)' =>
          \/ g \in data \union trained \union dropped \union surplus
          \/ g \in done
    BY <1>2, <1>3
  <2> HIDE DEF done, rest
  <2>6. task'[g] # "none" => task'[g] = task[g] \/ (task'[g] = "created" /\ task[g] = "none")
    BY <2>2, <2>3
  <2>7. task[g] = "running" => task'[g] = "running"
    BY <2>1, <2>2, <2>3 DEF done, rest
  <2>8. g \in data' \union trained' \union dropped' \union surplus' =>
          sample[g][i].status = "finished" /\ sample[g][i].reward
    BY <2>1, <2>4, <2>5, <1>3 DEF SampleInv
  <2>9. QED
    BY <2>1, <2>6, <2>7, <2>8, <1>3 DEF SampleInv
<1>8. QED
  <2>1. rollout' >= 1
    BY <1>3 DEF FullInv
  <2>2. QED
    BY <2>1, <1>1, <1>3, <1>6, <1>7 DEF FullInv

\* The frame of the steps that concern one group's task and samples.
LEMMA OtherGroupsKeepInv ==
  ASSUME NEW g \in Groups, NEW i \in Samples, SampleInv(g, i),
         sample'[g][i] = sample[g][i], task'[g] = task[g], UNCHANGED TaskVars
  PROVE  SampleInv(g, i)'
<1>1. UNCHANGED <<aborted, data, trained, dropped, surplus, rollout>>
  BY DEF TaskVars, genVars, sourceVars, fateVars
<1>2. QED
  BY <1>1 DEF SampleInv

\* A pending group is in no other place.
LEMMA PendingIsElsewhereNowhere ==
  ASSUME EveryGroupInOnePlace, NEW g \in pendings
  PROVE  g \notin data \union trained \union dropped \union surplus
BY DEF EveryGroupInOnePlace, Open, Gone

\* One sample of a running task moves on.
LEMMA SampleMoveKeepsFull ==
  ASSUME FullInv, CoreInv', NEW g \in Groups, NEW i \in Samples, NEW new,
         SetSample(g, i, new), UNCHANGED task, UNCHANGED TaskVars,
         sample[g][i].at \in Busy,
         new.at = "aborting" => aborted,
         new.at = "scoring" => new.status = "finished" /\ ~GroupRm,
         ~GroupRm /\ new.status = "finished" => new.reward \/ new.at = "scoring",
         new.at # "idle",
         new.at = "returned" /\ ~aborted => new.status = "finished"
  PROVE  FullInv'
<1>1. UNCHANGED <<pendings, aborted, pc, data, trained, dropped, surplus, discarded, rollout>>
  BY DEF TaskVars, genVars, sourceVars, fateVars
<1>2. sample \in [Groups -> [Samples -> SampleState]]
  BY DEF FullInv, CoreInv, TypeOK
<1>3. task[g] = "running" /\ g \in pendings
  BY DEF FullInv, SampleInv, TaskInv
<1>4. g \notin data \union trained \union dropped \union surplus
  BY <1>3, PendingIsElsewhereNowhere DEF FullInv, CoreInv
<1>5. ASSUME NEW h \in Groups, NEW j \in Samples PROVE SampleInv(h, j)'
  <2>1. SampleInv(h, j)
    BY DEF FullInv
  <2>2. CASE h = g /\ j = i
    <3>1. sample'[g][i] = new
      BY <1>2 DEF SetSample
    <3>2. QED
      BY <2>1, <2>2, <3>1, <1>1, <1>3, <1>4 DEF SampleInv
  <2>3. CASE ~ (h = g /\ j = i)
    <3>1. sample'[h][j] = sample[h][j]
      BY <2>3, <1>2 DEF SetSample
    <3>2. QED
      BY <2>1, <3>1, OtherGroupsKeepInv
  <2>4. QED
    BY <2>2, <2>3
<1>6. TaskInv'
  BY <1>1 DEF FullInv, TaskInv
<1>7. QED
  BY <1>1, <1>5, <1>6 DEF FullInv

LEMMA SampleStepKeepsFull ==
  ASSUME FullInv, NEW g \in Groups, NEW i \in Samples, SampleStep(g, i)
  PROVE  FullInv'
<1>1. CoreInv'
  BY CoreStep DEF FullInv, Next
<1>2. sample[g][i] \in SampleState /\ SampleInv(g, i)
  BY DEF FullInv, CoreInv, TypeOK
<1>3. Engines \intersect {"idle", "queued", "sent", "aborting", "scoring", "returned"} = {}
  BY ConstAssumption
<1>4. CASE Acquire(g, i)
  <2>1. CASE aborted
    <3> DEFINE new == [sample[g][i] EXCEPT !.status = "aborted", !.at = "returned"]
    <3>1. SetSample(g, i, new) /\ UNCHANGED task /\ UNCHANGED TaskVars
          /\ sample[g][i].at \in Busy
      BY <1>4, <2>1 DEF Acquire, Busy
    <3>2. new.status = "aborted" /\ new.at = "returned"
      BY <1>2 DEF SampleState
    <3> HIDE DEF new
    <3>3. QED
      BY <3>1, <3>2, <2>1, <1>1, SampleMoveKeepsFull
  <2>2. CASE ~aborted
    <3> DEFINE new == [sample[g][i] EXCEPT !.at = "sent"]
    <3>1. SetSample(g, i, new) /\ UNCHANGED task /\ UNCHANGED TaskVars
          /\ sample[g][i].at \in Busy /\ sample[g][i].at # "scoring"
      BY <1>4, <2>2 DEF Acquire, Busy
    <3>2. /\ new.status = sample[g][i].status /\ new.at = "sent"
          /\ new.reward = sample[g][i].reward
      BY <1>2 DEF SampleState
    <3>3. ~GroupRm /\ new.status = "finished" => new.reward
      BY <3>1, <3>2, <1>2 DEF SampleInv
    <3> HIDE DEF new
    <3>4. QED
      BY <3>1, <3>2, <3>3, <1>1, SampleMoveKeepsFull
  <2>3. QED
    BY <2>1, <2>2
<1>5. CASE \E e \in Engines : Route(g, i, e)
  <2>1. PICK e \in Engines : Route(g, i, e)
    BY <1>5
  <2> DEFINE new == [sample[g][i] EXCEPT !.at = e]
  <2>2. SetSample(g, i, new) /\ UNCHANGED task /\ UNCHANGED TaskVars
        /\ sample[g][i].at \in Busy /\ sample[g][i].at # "scoring"
    BY <2>1 DEF Route, Busy
  <2>3. /\ new.status = sample[g][i].status /\ new.at = e
        /\ new.reward = sample[g][i].reward
    BY <1>2 DEF SampleState
  <2>4. ~GroupRm /\ new.status = "finished" => new.reward
    BY <2>2, <2>3, <1>2 DEF SampleInv
  <2>5. e \notin {"idle", "aborting", "scoring", "returned"}
    BY <1>3
  <2> HIDE DEF new
  <2>6. QED
    BY <2>2, <2>3, <2>4, <2>5, <1>1, SampleMoveKeepsFull
<1>6. CASE Generated(g, i)
  <2> DEFINE new == [sample[g][i] EXCEPT !.status = "finished",
                       !.response = Longer(sample[g][i]), !.at = Scored]
  <2>1. SetSample(g, i, new) /\ UNCHANGED task /\ UNCHANGED TaskVars
        /\ sample[g][i].at \in Busy
    BY <1>6 DEF Generated, Busy
  <2>2. new.status = "finished" /\ new.at = Scored
    BY <1>2 DEF SampleState
  <2>3. Scored = IF GroupRm THEN "returned" ELSE "scoring"
    BY DEF Scored
  <2> HIDE DEF new
  <2>4. QED
    BY <2>1, <2>2, <2>3, <1>1, SampleMoveKeepsFull
<1>7. CASE Interrupted(g, i)
  <2>1. PICK tokens \in BOOLEAN :
          SetSample(g, i, [sample[g][i] EXCEPT !.status = "aborted",
             !.response = IF tokens THEN Longer(sample[g][i]) ELSE sample[g][i].response,
             !.at = "returned"])
    BY <1>7 DEF Interrupted
  <2> DEFINE new == [sample[g][i] EXCEPT !.status = "aborted",
             !.response = IF tokens THEN Longer(sample[g][i]) ELSE sample[g][i].response,
             !.at = "returned"]
  <2>2. SetSample(g, i, new)
    BY <2>1
  <2>3. UNCHANGED task /\ UNCHANGED TaskVars /\ sample[g][i].at = "aborting"
    BY <1>7 DEF Interrupted
  <2>4. sample[g][i].at \in Busy /\ aborted
    BY <2>3, <1>2 DEF Busy, SampleInv
  <2>5. new.status = "aborted" /\ new.at = "returned"
    BY <1>2 DEF SampleState
  <2> HIDE DEF new
  <2>6. QED
    BY <2>2, <2>3, <2>4, <2>5, <1>1, SampleMoveKeepsFull
<1>8. CASE Reward(g, i)
  <2> DEFINE new == [sample[g][i] EXCEPT !.reward = TRUE, !.at = "returned"]
  <2>1. SetSample(g, i, new) /\ UNCHANGED task /\ UNCHANGED TaskVars
        /\ sample[g][i].at = "scoring"
    BY <1>8 DEF Reward
  <2>2. sample[g][i].at \in Busy /\ sample[g][i].status = "finished"
    BY <2>1, <1>2 DEF Busy, SampleInv
  <2>3. new.status = sample[g][i].status /\ new.at = "returned"
        /\ new.reward = TRUE
    BY <1>2 DEF SampleState
  <2> HIDE DEF new
  <2>4. QED
    BY <2>1, <2>2, <2>3, <1>1, SampleMoveKeepsFull
<1>9. QED
  BY <1>4, <1>5, <1>6, <1>7, <1>8 DEF SampleStep

\* A group's task moves on; its samples are read, moved or rewarded with it.
LEMMA TaskMoveKeepsFull ==
  ASSUME FullInv, CoreInv', NEW g \in Groups, UNCHANGED TaskVars,
         g \in pendings,
         task'[g] \notin {"none"}, task'[g] = "grading" => GroupRm,
         \A h \in Groups \ {g} : task'[h] = task[h] /\ sample'[h] = sample[h],
         \A i \in Samples : SampleInv(g, i)'
  PROVE  FullInv'
<1>1. UNCHANGED <<pendings, aborted, pc, discarded, rollout>>
  BY DEF TaskVars, genVars, sourceVars, fateVars
<1>2. ASSUME NEW h \in Groups, NEW j \in Samples PROVE SampleInv(h, j)'
  <2>1. CASE h = g
    BY <2>1
  <2>2. CASE h # g
    BY <2>2, OtherGroupsKeepInv DEF FullInv
  <2>3. QED
    BY <2>1, <2>2
<1>3. TaskInv'
  BY <1>1 DEF FullInv, TaskInv
<1>4. QED
  BY <1>1, <1>2, <1>3 DEF FullInv

LEMMA StartTaskKeepsFull ==
  ASSUME FullInv, NEW g \in Groups, StartTask(g) PROVE FullInv'
<1>1. CoreInv' /\ UNCHANGED TaskVars
  BY CoreStep DEF FullInv, Next, TaskStep, StartTask
<1>2. UNCHANGED <<aborted, data, trained, dropped, surplus, rollout>>
  BY <1>1 DEF TaskVars, genVars, sourceVars, fateVars
<1>3. g \in pendings /\ task[g] = "created"
  BY DEF StartTask
<1>4. /\ task \in [Groups -> {"none", "created", "running", "grading", "done"}]
      /\ sample \in [Groups -> [Samples -> SampleState]]
  BY DEF FullInv, CoreInv, TypeOK
<1>5. CASE aborted /\ task' = [task EXCEPT ![g] = "done"] /\ UNCHANGED sample
  <2>1. task'[g] = "done" /\ \A h \in Groups \ {g} : task'[h] = task[h] /\ sample'[h] = sample[h]
    BY <1>5, <1>4
  <2>2. ASSUME NEW i \in Samples PROVE SampleInv(g, i)'
    <3>1. SampleInv(g, i) /\ sample'[g][i] = sample[g][i]
      BY <1>5 DEF FullInv
    <3>2. QED
      BY <3>1, <2>1, <1>2, <1>3, <1>5 DEF SampleInv
  <2>3. QED
    BY <1>1, <1>3, <2>1, <2>2, TaskMoveKeepsFull
<1>6. CASE /\ ~aborted
           /\ task' = [task EXCEPT ![g] = "running"]
           /\ sample' = [sample EXCEPT ![g] = [i \in Samples |->
                [sample[g][i] EXCEPT !.at =
                   IF sample[g][i].status = "finished" THEN "returned" ELSE "queued"]]]
  <2>1. task'[g] = "running" /\ \A h \in Groups \ {g} : task'[h] = task[h] /\ sample'[h] = sample[h]
    BY <1>6, <1>4
  <2>2. ASSUME NEW i \in Samples PROVE SampleInv(g, i)'
    <3> DEFINE there == IF sample[g][i].status = "finished" THEN "returned" ELSE "queued"
    <3>1. SampleInv(g, i) /\ sample[g][i] \in SampleState
      BY <1>4 DEF FullInv
    <3>2. sample'[g][i] = [sample[g][i] EXCEPT !.at = there]
      BY <1>6, <1>4
    <3>3. /\ sample'[g][i].at = there /\ sample'[g][i].status = sample[g][i].status
          /\ sample'[g][i].reward = sample[g][i].reward
      BY <3>1, <3>2 DEF SampleState
    <3>4. there \in {"returned", "queued"} /\ (there = "returned" => sample[g][i].status = "finished")
      OBVIOUS
    <3> HIDE DEF there
    <3>5. sample[g][i].at \notin Busy /\ sample[g][i].at # "scoring"
      BY <3>1, <1>3 DEF SampleInv, Busy
    <3>6. QED
      BY <3>1, <3>3, <3>4, <3>5, <2>1, <1>2, <1>3, <1>6 DEF SampleInv
  <2>3. QED
    BY <1>1, <1>3, <2>1, <2>2, TaskMoveKeepsFull
<1>7. QED
  BY <1>5, <1>6 DEF StartTask

LEMMA GatherKeepsFull ==
  ASSUME FullInv, NEW g \in Groups, Gather(g) PROVE FullInv'
<1>1. CoreInv' /\ UNCHANGED TaskVars /\ UNCHANGED sample
  BY CoreStep DEF FullInv, Next, TaskStep, Gather
<1>2. UNCHANGED <<aborted, data, trained, dropped, surplus, rollout>>
  BY <1>1 DEF TaskVars, genVars, sourceVars, fateVars
<1>3. /\ task[g] = "running" /\ g \in pendings
      /\ \A i \in Samples : sample[g][i].at = "returned"
  BY DEF Gather, FullInv, TaskInv
<1>4. /\ task'[g] = IF GroupRm /\ ~aborted THEN "grading" ELSE "done"
      /\ \A h \in Groups \ {g} : task'[h] = task[h] /\ sample'[h] = sample[h]
  BY <1>1 DEF Gather, NeedsGroupReward, FullInv, CoreInv, TypeOK
<1>5. ASSUME NEW i \in Samples PROVE SampleInv(g, i)'
  <2>1. SampleInv(g, i) /\ sample'[g][i] = sample[g][i]
    BY <1>1 DEF FullInv
  <2>2. "returned" \notin Busy
    BY ConstAssumption DEF Busy
  <2>3. QED
    BY <2>1, <2>2, <1>2, <1>3, <1>4 DEF SampleInv
<1>6. QED
  BY <1>1, <1>3, <1>4, <1>5, TaskMoveKeepsFull

LEMMA GradeGroupKeepsFull ==
  ASSUME FullInv, NEW g \in Groups, GradeGroup(g) PROVE FullInv'
<1>1. CoreInv' /\ UNCHANGED TaskVars
  BY CoreStep DEF FullInv, Next, TaskStep, GradeGroup
<1>2. UNCHANGED <<aborted, data, trained, dropped, surplus, rollout>>
  BY <1>1 DEF TaskVars, genVars, sourceVars, fateVars
<1>3. task[g] = "grading" /\ g \in pendings
  BY DEF GradeGroup, FullInv, TaskInv
<1>4. /\ task'[g] = "done"
      /\ \A h \in Groups \ {g} : task'[h] = task[h] /\ sample'[h] = sample[h]
  BY DEF GradeGroup, FullInv, CoreInv, TypeOK
<1>5. ASSUME NEW i \in Samples PROVE SampleInv(g, i)'
  <2>1. SampleInv(g, i) /\ sample[g][i] \in SampleState
    BY DEF FullInv, CoreInv, TypeOK
  <2>2. sample'[g][i] = [sample[g][i] EXCEPT !.reward = TRUE]
    BY DEF GradeGroup, FullInv, CoreInv, TypeOK
  <2>3. /\ sample'[g][i].at = sample[g][i].at /\ sample'[g][i].status = sample[g][i].status
        /\ sample'[g][i].reward = TRUE
    BY <2>1, <2>2 DEF SampleState
  <2>4. QED
    BY <2>1, <2>3, <1>2, <1>3, <1>4 DEF SampleInv
<1>6. QED
  BY <1>1, <1>3, <1>4, <1>5, TaskMoveKeepsFull

LEMMA AbortEngineKeepsFull ==
  ASSUME FullInv, NEW e \in Engines, AbortEngine(e) PROVE FullInv'
<1>1. CoreInv'
  BY CoreStep DEF FullInv, Next, MainStep
<1>2. /\ UNCHANGED <<task, pendings, aborted, pc, data, trained, dropped, surplus, discarded, rollout>>
      /\ aborted
  BY DEF AbortEngine, fateVars, FullInv, CoreInv, AtAwait
<1>3. ASSUME NEW g \in Groups, NEW i \in Samples PROVE SampleInv(g, i)'
  <2>1. SampleInv(g, i) /\ sample[g][i] \in SampleState
    BY DEF FullInv, CoreInv, TypeOK
  <2>2. sample'[g][i] = IF sample[g][i].at = e THEN [sample[g][i] EXCEPT !.at = "aborting"]
                                              ELSE sample[g][i]
    BY DEF AbortEngine
  <2>3. CASE sample[g][i].at = e
    <3>1. /\ sample'[g][i].at = "aborting" /\ sample'[g][i].status = sample[g][i].status
          /\ sample'[g][i].reward = sample[g][i].reward
      BY <2>1, <2>2, <2>3 DEF SampleState
    <3>2. sample[g][i].at \in Busy /\ sample[g][i].at # "scoring"
      BY <2>3, ConstAssumption DEF Busy
    <3>3. QED
      BY <2>1, <3>1, <3>2, <1>2 DEF SampleInv
  <2>4. CASE sample[g][i].at # e
    BY <2>1, <2>2, <2>4, <1>2 DEF SampleInv
  <2>5. QED
    BY <2>3, <2>4
<1>4. TaskInv'
  BY <1>2 DEF FullInv, TaskInv
<1>5. QED
  BY <1>1, <1>2, <1>3, <1>4 DEF FullInv

LEMMA DrainKeepsFull ==
  ASSUME FullInv, NEW g \in Groups, Drain(g) PROVE FullInv'
<1>1. CoreInv'
  BY CoreStep DEF FullInv, Next, TaskStep
<1>2. /\ UNCHANGED <<aborted, pc, data, trained, dropped, surplus, rollout>>
      /\ pendings' = pendings \ {g} /\ task' = [task EXCEPT ![g] = "none"]
      /\ g \in pendings /\ task[g] = "done"
      /\ pc = "abort" /\ aborted
  BY DEF Drain, FullInv, CoreInv, AtAwait
<1>3. /\ task \in [Groups -> {"none", "created", "running", "grading", "done"}]
      /\ sample \in [Groups -> [Samples -> SampleState]]
      /\ collected \in Seq(Groups)
      /\ rollout \in Nat /\ rollout >= 1
  BY <1>2, ConstAssumption DEF FullInv, CoreInv, TypeOK
<1>4. PartialRollout => discarded' = {}
  BY DEF Drain, Recycles, FullInv
\* The samples of the drained group are stamped or left alone.
<1>5. ASSUME NEW i \in Samples PROVE SampleInv(g, i)'
  <2>1. SampleInv(g, i) /\ sample[g][i] \in SampleState /\ task'[g] = "none"
    BY <1>2, <1>3 DEF FullInv
  <2>2. /\ sample[g][i].at \notin Busy /\ sample[g][i].at # "scoring"
    BY <2>1, <1>2 DEF SampleInv, Busy
  <2>3. CASE sample' = [sample EXCEPT ![g] = [j \in Samples |-> Stamp(sample[g][j])]]
    <3>1. sample'[g][i] = Stamp(sample[g][i])
      BY <2>3, <1>3
    <3>2. /\ sample'[g][i].at = sample[g][i].at /\ sample'[g][i].status = sample[g][i].status
          /\ sample'[g][i].reward = sample[g][i].reward
      BY <3>1, <2>1 DEF Stamp, SampleState
    <3>3. QED
      BY <2>1, <2>2, <3>2, <1>2 DEF SampleInv
  <2>4. CASE UNCHANGED <<collected, sample>>
    BY <2>1, <2>2, <2>4, <1>2 DEF SampleInv
  <2>5. QED
    BY <2>3, <2>4 DEF Drain
<1>6. ASSUME NEW h \in Groups, NEW i \in Samples PROVE SampleInv(h, i)'
  <2>1. CASE h = g
    BY <2>1, <1>5
  <2>2. CASE h # g
    <3>1. SampleInv(h, i) /\ task'[h] = task[h]
      BY <2>2, <1>2, <1>3 DEF FullInv
    <3>2. sample'[h][i] = sample[h][i]
      <4>1. CASE sample' = [sample EXCEPT ![g] = [j \in Samples |-> Stamp(sample[g][j])]]
        BY <4>1, <2>2, <1>3
      <4>2. QED
        BY <4>1 DEF Drain
    <3>3. QED
      BY <3>1, <3>2, <1>2 DEF SampleInv
  <2>3. QED
    BY <2>1, <2>2
<1>7. TaskInv'
  BY <1>2, <1>3 DEF FullInv, TaskInv
<1>8. QED
  BY <1>1, <1>2, <1>3, <1>4, <1>6, <1>7 DEF FullInv

LEMMA FinishRolloutKeepsFull == FullInv /\ FinishRollout => FullInv'
<1> SUFFICES ASSUME FullInv, FinishRollout PROVE FullInv'
  OBVIOUS
<1>1. CoreInv'
  BY FinishRolloutKeepsCore DEF FullInv
<1>2. /\ pendings = {} /\ pc' = "idle" /\ aborted' = FALSE
      /\ data' = {} /\ trained' = trained \union data
      /\ UNCHANGED <<pendings, task, sample, rollout, dropped, surplus, discarded>>
  BY DEF FinishRollout, Drained, ResetState
<1>3. ASSUME NEW g \in Groups, NEW i \in Samples PROVE SampleInv(g, i)'
  <2>1. SampleInv(g, i) /\ task[g] = "none"
    BY <1>2 DEF FullInv, TaskInv
  <2>2. sample[g][i].at \notin Busy /\ sample[g][i].at # "aborting"
    BY <2>1 DEF SampleInv, Busy
  <2>3. QED
    BY <2>1, <2>2, <1>2 DEF SampleInv
<1>4. TaskInv'
  BY <1>2 DEF FullInv, TaskInv
<1>5. QED
  BY <1>1, <1>2, <1>3, <1>4 DEF FullInv

LEMMA FullStep == FullInv /\ [Next]_vars => FullInv'
<1> SUFFICES ASSUME FullInv, [Next]_vars PROVE FullInv'
  OBVIOUS
<1>1. CASE MainStep
  BY <1>1, StartRolloutKeepsFull, CollectKeepsFull, FinishRolloutKeepsFull, AbortEngineKeepsFull
     DEF MainStep
<1>2. CASE \E g \in Groups : TaskStep(g) \/ \E i \in Samples : SampleStep(g, i)
  BY <1>2, DrainKeepsFull, StartTaskKeepsFull, GatherKeepsFull, GradeGroupKeepsFull,
     SampleStepKeepsFull DEF TaskStep
<1>3. CASE UNCHANGED vars
  <2>1. CoreInv'
    BY CoreStep DEF FullInv
  <2>2. UNCHANGED TaskVars /\ UNCHANGED <<sample, task, pendings, pc, rollout, discarded>>
    BY <1>3 DEF vars, TaskVars, genVars, fateVars
  <2>3. \A g \in Groups : \A i \in Samples : SampleInv(g, i)'
    BY <2>2, OtherGroupsKeepInv DEF FullInv
  <2>4. TaskInv'
    BY <2>2 DEF FullInv, TaskInv
  <2>5. QED
    BY <2>1, <2>2, <2>3, <2>4 DEF FullInv
<1>4. QED
  BY <1>1, <1>2, <1>3 DEF Next, Done

LEMMA FullAlways == Spec => []FullInv
BY FullInit, FullStep, PTL DEF Spec
-----------------------------------------------------------------------------
(* The theorems *)

\* Every variable keeps its type, whatever the sizes.
THEOREM TypeCorrect == Spec => []TypeOK
<1>1. FullInv => TypeOK
  BY DEF FullInv, CoreInv
<1>2. QED
  BY <1>1, FullAlways, PTL

\* However get_samples, the filter, the abort and the recycling interleave, a
\* created group is in exactly one place: none is lost, trained twice or held
\* by two tasks.
THEOREM GroupsConserved == Spec => []EveryGroupInOnePlace
<1>1. FullInv => EveryGroupInOnePlace
  BY DEF FullInv, CoreInv
<1>2. QED
  BY <1>1, FullAlways, PTL

\* remaining_batch_size counts exactly the groups that may still succeed.
THEOREM CounterIsExact == Spec => []RemainingIsExact
<1>1. FullInv => RemainingIsExact
  BY DEF FullInv, CoreInv, AtAwait, RemainingIsExact
<1>2. QED
  BY <1>1, FullAlways, PTL

\* asyncio.wait always has a task to wait for.
THEOREM AlwaysATaskToWaitFor == Spec => []NeverWaitsOnNothing
<1>1. FullInv => NeverWaitsOnNothing
  <2> SUFFICES ASSUME FullInv, pc = "collect"
               PROVE  pendings # {} /\ Cardinality(data) < BatchSize
    BY DEF NeverWaitsOnNothing
  <2>1. /\ remaining >= BatchSize /\ Cardinality(data) < BatchSize
        /\ remaining = Cardinality(pendings) + Cardinality(data)
    BY DEF FullInv, CoreInv, AtAwait
  <2>2. Cardinality(data) \in Nat /\ Cardinality({}) = 0 /\ BatchSize \in Nat
    BY GroupSets, FS_EmptySet, ConstAssumption DEF FullInv, CoreInv, TypeOK
  <2>3. pendings # {}
    BY <2>1, <2>2
  <2>4. QED
    BY <2>1, <2>3
<1>2. QED
  BY <1>1, FullAlways, PTL

\* The batch handed to training has exactly rollout_batch_size groups.
THEOREM BatchHasItsSize == Spec => []BatchIsExact
<1>1. FullInv => BatchIsExact
  BY DEF FullInv, CoreInv, AtAwait, BatchIsExact
<1>2. QED
  BY <1>1, FullAlways, PTL

\* What is trained on is finished and rewarded, however often it was resumed.
THEOREM NothingHalfDoneIsTrained == Spec => []TrainedIsComplete
<1>1. FullInv => TrainedIsComplete
  <2> SUFFICES ASSUME FullInv, NEW g \in data \union trained, NEW i \in Samples
               PROVE  sample[g][i].status = "finished" /\ sample[g][i].reward
    BY DEF TrainedIsComplete
  <2>1. g \in Groups
    BY DEF FullInv, CoreInv, TypeOK
  <2>2. QED
    BY <2>1 DEF FullInv, SampleInv
<1>2. QED
  BY <1>1, FullAlways, PTL

\* The assertion that a finished sample has its reward never fires on a
\* recycled group.
THEOREM RecycledRewardsAreThere == Spec => []ResumedIsRewarded
<1>1. FullInv => ResumedIsRewarded
  <2> SUFFICES ASSUME FullInv, ~GroupRm, NEW g \in pendings, NEW i \in Samples,
                      task[g] = "created", sample[g][i].status = "finished"
               PROVE  sample[g][i].reward
    BY DEF ResumedIsRewarded
  <2>1. g \in Groups
    BY DEF FullInv, CoreInv, TypeOK
  <2>2. QED
    BY <2>1 DEF FullInv, SampleInv, Busy
<1>2. QED
  BY <1>1, FullAlways, PTL

\* The engines are quiet whenever the train loop may touch them.
THEOREM EnginesQuietBetweenRollouts == Spec => []QuietBetweenRollouts
<1>1. FullInv => QuietBetweenRollouts
  <2> SUFFICES ASSUME FullInv, pc = "idle"
               PROVE  /\ InFlight = {} /\ pendings = {} /\ remaining = 0 /\ ~aborted
                      /\ \A g \in Groups : task[g] = "none"
    BY DEF QuietBetweenRollouts
  <2>1. pendings = {} /\ remaining = 0 /\ ~aborted
    BY DEF FullInv, CoreInv, AtAwait
  <2>2. \A g \in Groups : task[g] = "none"
    BY <2>1 DEF FullInv, TaskInv
  <2>3. \A g \in Groups : \A i \in Samples : sample[g][i].at \notin Busy
    BY <2>2 DEF FullInv, SampleInv
  <2>4. InFlight = {}
    BY <2>3 DEF InFlight, Busy
  <2>5. QED
    BY <2>1, <2>2, <2>4
<1>2. QED
  BY <1>1, FullAlways, PTL

\* With partial rollout no unfinished group leaves the system.
THEOREM NoPartialWorkIsLost == Spec => []UnfinishedIsRecycled
<1>1. FullInv => UnfinishedIsRecycled
  <2> SUFFICES ASSUME FullInv, PartialRollout, NEW g \in Gone, NEW i \in Samples
               PROVE  sample[g][i].status = "finished"
    BY DEF UnfinishedIsRecycled
  <2>1. g \in Groups /\ g \in trained \union dropped \union surplus
    BY DEF FullInv, CoreInv, TypeOK, Gone
  <2>2. QED
    BY <2>1 DEF FullInv, SampleInv
<1>2. QED
  BY <1>1, FullAlways, PTL

\* What start_rollout_id says of a sample, wherever its group is: nothing while
\* it holds only tokens of this rollout, and else the rollout of the first one.
\* A group that waits in the buffer has no token of the rollout under way.
Working == pendings \union data

StampInv(g, i) ==
  LET s == sample[g][i] IN
  /\ s.response = NoStart \/ s.response \in 1 .. rollout
  /\ g \notin Gone =>
       s.start = IF g \in Working /\ s.response = rollout THEN NoStart ELSE s.response
  /\ g \notin Gone \union Working \union Elems(collected) /\ pc # "idle" =>
       s.response # rollout

Stamps == \A g \in Groups : \A i \in Samples : StampInv(g, i)

\* A step that leaves the stamps, the tokens and the places of the groups alone.
LEMMA SameStamp ==
  ASSUME NEW g \in Groups, NEW i \in Samples, StampInv(g, i), UNCHANGED TaskVars,
         sample'[g][i].start = sample[g][i].start,
         sample'[g][i].response = sample[g][i].response
  PROVE  StampInv(g, i)'
<1>1. UNCHANGED <<rollout, pc, Working, Gone, Elems(collected)>>
  BY DEF TaskVars, genVars, fateVars, Working, Gone, Elems
<1>2. QED
  BY <1>1 DEF StampInv

\* A sample's own step keeps its stamp; tokens come from the rollout under way.
LEMMA SampleStepStamp ==
  ASSUME FullInv, NEW g \in Groups, NEW i \in Samples, SampleStep(g, i)
  PROVE  /\ g \in pendings /\ UNCHANGED TaskVars
         /\ sample'[g][i].start = sample[g][i].start
         /\ sample'[g][i].response \in {sample[g][i].response, Longer(sample[g][i])}
         /\ \A h \in Groups : \A j \in Samples :
              h # g \/ j # i => sample'[h][j] = sample[h][j]
<1>1. /\ sample \in [Groups -> [Samples -> SampleState]]
      /\ sample[g][i] \in SampleState /\ SampleInv(g, i)
  BY DEF FullInv, CoreInv, TypeOK
<1>2. UNCHANGED TaskVars
  BY DEF SampleStep, Acquire, Route, Generated, Interrupted, Reward
<1>3. sample[g][i].at \in Busy
  BY DEF SampleStep, Acquire, Route, Generated, Interrupted, Reward, Busy
<1>4. g \in pendings
  BY <1>1, <1>3 DEF SampleInv, FullInv, TaskInv
<1>5. PICK new : /\ SetSample(g, i, new)
                 /\ new.start = sample[g][i].start
                 /\ new.response \in {sample[g][i].response, Longer(sample[g][i])}
  <2>1. CASE Acquire(g, i)
    <3> DEFINE a == [sample[g][i] EXCEPT !.status = "aborted", !.at = "returned"]
               b == [sample[g][i] EXCEPT !.at = "sent"]
    <3>1. /\ a.start = sample[g][i].start /\ a.response = sample[g][i].response
          /\ b.start = sample[g][i].start /\ b.response = sample[g][i].response
      BY <1>1 DEF SampleState
    <3>2. SetSample(g, i, a) \/ SetSample(g, i, b)
      BY <2>1 DEF Acquire
    <3> HIDE DEF a, b
    <3>3. QED
      BY <3>1, <3>2
  <2>2. CASE \E e \in Engines : Route(g, i, e)
    <3>1. PICK e \in Engines : Route(g, i, e)
      BY <2>2
    <3> DEFINE a == [sample[g][i] EXCEPT !.at = e]
    <3>2. a.start = sample[g][i].start /\ a.response = sample[g][i].response
      BY <1>1 DEF SampleState
    <3>3. SetSample(g, i, a)
      BY <3>1 DEF Route
    <3> HIDE DEF a
    <3>4. QED
      BY <3>2, <3>3
  <2>3. CASE Generated(g, i)
    <3> DEFINE a == [sample[g][i] EXCEPT !.status = "finished",
                       !.response = Longer(sample[g][i]), !.at = Scored]
    <3>1. a.start = sample[g][i].start /\ a.response = Longer(sample[g][i])
      BY <1>1 DEF SampleState
    <3>2. SetSample(g, i, a)
      BY <2>3 DEF Generated
    <3> HIDE DEF a
    <3>3. QED
      BY <3>1, <3>2
  <2>4. CASE Interrupted(g, i)
    <3>1. PICK tokens \in BOOLEAN :
            SetSample(g, i, [sample[g][i] EXCEPT !.status = "aborted",
               !.response = IF tokens THEN Longer(sample[g][i]) ELSE sample[g][i].response,
               !.at = "returned"])
      BY <2>4 DEF Interrupted
    <3> DEFINE r == IF tokens THEN Longer(sample[g][i]) ELSE sample[g][i].response
               a == [sample[g][i] EXCEPT !.status = "aborted", !.response = r, !.at = "returned"]
    <3>2. r \in {sample[g][i].response, Longer(sample[g][i])}
      OBVIOUS
    <3>3. SetSample(g, i, a)
      BY <3>1
    <3> HIDE DEF r
    <3>4. a.start = sample[g][i].start /\ a.response = r
      BY <1>1 DEF SampleState
    <3> HIDE DEF a
    <3>5. QED
      BY <3>2, <3>3, <3>4
  <2>5. CASE Reward(g, i)
    <3> DEFINE a == [sample[g][i] EXCEPT !.reward = TRUE, !.at = "returned"]
    <3>1. a.start = sample[g][i].start /\ a.response = sample[g][i].response
      BY <1>1 DEF SampleState
    <3>2. SetSample(g, i, a)
      BY <2>5 DEF Reward
    <3> HIDE DEF a
    <3>3. QED
      BY <3>1, <3>2
  <2>6. QED
    BY <2>1, <2>2, <2>3, <2>4, <2>5 DEF SampleStep
<1>6. sample'[g][i] = new
  BY <1>5, <1>1 DEF SetSample
<1>7. \A h \in Groups : \A j \in Samples :
        h # g \/ j # i => sample'[h][j] = sample[h][j]
  BY <1>5, <1>1 DEF SetSample
<1>8. QED
  BY <1>2, <1>4, <1>5, <1>6, <1>7

LEMMA StampsInit == Init => Stamps
<1> SUFFICES ASSUME Init, NEW g \in Groups, NEW i \in Samples PROVE StampInv(g, i)
  BY DEF Stamps
<1>1. sample[g][i] = FreshSample /\ g \notin Working /\ pc = "idle"
  BY DEF Init, Working
<1>2. QED
  BY <1>1 DEF StampInv, FreshSample

LEMMA StampsStep == FullInv /\ FullInv' /\ Stamps /\ [Next]_vars => Stamps'
<1> SUFFICES ASSUME FullInv, FullInv', Stamps, [Next]_vars,
                    NEW g \in Groups, NEW i \in Samples
             PROVE  StampInv(g, i)'
  BY DEF Stamps
<1>1. /\ StampInv(g, i) /\ sample[g][i] \in SampleState
      /\ sample \in [Groups -> [Samples -> SampleState]]
      /\ rollout \in Nat /\ NoStart \in Int /\ rollout # NoStart
  BY ConstAssumption DEF Stamps, FullInv, CoreInv, TypeOK, NoStart
<1>2. EveryGroupInOnePlace /\ EveryGroupInOnePlace' /\ AtAwait
  BY DEF FullInv, CoreInv
\* A new rollout: no sample has tokens of it yet.
<1>3. CASE StartRollout
  <2>1. /\ pendings = {} /\ data = {} /\ rollout' = rollout + 1 /\ pc' = "collect"
        /\ UNCHANGED <<sample, Gone>>
    BY <1>2, <1>3 DEF StartRollout, AtAwait, Gone
  <2>2. sample[g][i].response # rollout' /\ rollout' # NoStart
        /\ (sample[g][i].response = NoStart \/ sample[g][i].response \in 1 .. rollout')
    BY <1>1, <2>1 DEF StampInv, NoStart
  <2>3. g \notin Gone' => sample[g][i].start = sample[g][i].response
    BY <1>1, <2>1 DEF StampInv, Working
  <2>4. QED
    BY <2>1, <2>2, <2>3 DEF StampInv
\* What is drawn was parked; what leaves the tasks is accepted or gone.
<1>4. CASE Collect
  <2>1. /\ pc = "collect" /\ pc' # "idle" /\ collected = <<>> /\ Gone \subseteq Gone'
        /\ UNCHANGED <<sample, rollout, collected>>
    BY <1>2, <1>4 DEF Collect, AtAwait, Gone
  <2>2. g \in Working \ Gone' => g \in Working'
    <3>1. CASE g \in data
      BY <3>1, <1>4 DEF Collect, Working
    <3>2. CASE g \in pendings /\ task[g] # "done"
      BY <3>2, <1>4 DEF Collect, Working, Refill
    <3>3. CASE g \in pendings /\ task[g] = "done"
      BY <3>3, <1>4 DEF Collect, Working, Gone, Fitting
    <3>4. QED
      BY <3>1, <3>2, <3>3 DEF Working
  <2>3. Elems(collected) = {} /\ Elems(collected') = {}
    BY <2>1 DEF Elems
  <2>4. g \notin Working \union Gone => sample[g][i].response # rollout
    BY <1>1, <2>1, <2>3 DEF StampInv
  <2>5. QED
    BY <1>1, <2>1, <2>2, <2>3, <2>4 DEF StampInv
\* The drained groups come to the buffer, the batch leaves.
<1>5. CASE FinishRollout
  <2>1. /\ pendings = {} /\ pendings' = {} /\ data' = {} /\ pc' = "idle"
        /\ Gone' = Gone \union data /\ UNCHANGED <<sample, rollout>>
    BY <1>5 DEF FinishRollout, Drained, Gone
  <2>2. QED
    BY <1>1, <2>1 DEF StampInv, Working
<1>6. CASE \E e \in Engines : AbortEngine(e)
  <2>1. UNCHANGED <<rollout, pc, Working, Gone, Elems(collected)>>
    BY <1>6 DEF AbortEngine, fateVars, Working, Gone, Elems
  <2>2. /\ sample'[g][i].start = sample[g][i].start
        /\ sample'[g][i].response = sample[g][i].response
    BY <1>1, <1>6 DEF AbortEngine, SampleState
  <2>3. QED
    BY <1>1, <2>1, <2>2 DEF StampInv
<1>7. ASSUME NEW h \in Groups, Drain(h) PROVE StampInv(g, i)'
  <2>1. /\ h \in pendings /\ pendings' = pendings \ {h} /\ pc' = pc /\ pc = "abort"
        /\ UNCHANGED <<rollout, data, trained, dropped, surplus>>
    BY <1>7 DEF Drain
  <2>2. CASE /\ collected' = Append(collected, h)
             /\ sample' = [sample EXCEPT ![h] = [j \in Samples |-> Stamp(sample[h][j])]]
             /\ UNCHANGED discarded
    <3>1. Elems(collected') = Elems(collected) \union {h}
      BY <2>2, ElemsAppend DEF FullInv, CoreInv, TypeOK
    <3>2. Gone' = Gone /\ h \notin Gone /\ h \notin data /\ Working' = Working \ {h}
          /\ h \in Working
      BY <1>2, <2>1, <2>2 DEF Gone, Working, EveryGroupInOnePlace, Open
    <3>3. CASE g = h
      <4>1. sample'[g][i] = Stamp(sample[g][i])
        BY <2>2, <3>3, <1>1
      <4>2. /\ sample'[g][i].response = sample[g][i].response
            /\ sample'[g][i].start =
                 IF sample[g][i].response # NoStart /\ sample[g][i].start = NoStart
                 THEN rollout ELSE sample[g][i].start
        BY <4>1, <1>1 DEF Stamp, SampleState
      <4>3. sample'[g][i].start = sample'[g][i].response
        BY <4>2, <3>2, <3>3, <1>1 DEF StampInv
      <4>4. QED
        BY <4>2, <4>3, <3>1, <3>2, <3>3, <2>1, <1>1 DEF StampInv
    <3>4. CASE g # h
      <4>1. sample'[g][i] = sample[g][i]
        BY <2>2, <3>4, <1>1
      <4>2. QED
        BY <4>1, <3>1, <3>2, <3>4, <2>1, <1>1 DEF StampInv
    <3>5. QED
      BY <3>3, <3>4
  <2>3. CASE discarded' = discarded \union {h} /\ UNCHANGED <<collected, sample>>
    <3>1. Gone' = Gone \union {h} /\ Elems(collected') = Elems(collected)
          /\ Working \ {h} \subseteq Working' /\ Working' \subseteq Working
      BY <2>1, <2>3 DEF Gone, Elems, Working
    <3>2. QED
      BY <3>1, <2>1, <2>3, <1>1 DEF StampInv
  <2>4. QED
    BY <1>7, <2>2, <2>3 DEF Drain
<1>8. ASSUME NEW h \in Groups, StartTask(h) \/ Gather(h) \/ GradeGroup(h)
      PROVE  StampInv(g, i)'
  <2>1. UNCHANGED TaskVars
    BY <1>8 DEF StartTask, Gather, GradeGroup
  <2>2. /\ sample'[g][i].start = sample[g][i].start
        /\ sample'[g][i].response = sample[g][i].response
    <3>1. CASE UNCHANGED sample
      BY <3>1
    <3>2. CASE GradeGroup(h)
      BY <3>2, <1>1 DEF GradeGroup, SampleState
    <3>3. CASE sample' = [sample EXCEPT ![h] = [j \in Samples |->
                 [sample[h][j] EXCEPT !.at =
                    IF sample[h][j].status = "finished" THEN "returned" ELSE "queued"]]]
      BY <3>3, <1>1 DEF SampleState
    <3>4. QED
      BY <1>8, <3>1, <3>2, <3>3 DEF StartTask, Gather
  <2>3. QED
    BY <2>1, <2>2, <1>1, SameStamp
<1>9. ASSUME NEW h \in Groups, NEW j \in Samples, SampleStep(h, j)
      PROVE  StampInv(g, i)'
  <2>1. /\ h \in pendings /\ UNCHANGED TaskVars
        /\ sample'[h][j].start = sample[h][j].start
        /\ sample'[h][j].response \in {sample[h][j].response, Longer(sample[h][j])}
        /\ \A f \in Groups : \A k \in Samples :
             f # h \/ k # j => sample'[f][k] = sample[f][k]
    BY <1>9, SampleStepStamp
  <2>2. CASE g = h /\ i = j
    <3>1. g \in Working /\ g \notin Gone /\ rollout >= 1
      BY <2>1, <2>2, <1>2 DEF Working, EveryGroupInOnePlace, Open, FullInv, AtAwait
    <3>2. UNCHANGED <<rollout, pc, Working, Gone, Elems(collected)>>
      BY <2>1 DEF TaskVars, genVars, fateVars, Working, Gone, Elems
    <3>3. sample'[g][i].response = sample[g][i].response \/
          (sample[g][i].response = NoStart /\ sample'[g][i].response = rollout)
      BY <2>1, <2>2 DEF Longer
    <3>4. QED
      BY <3>1, <3>2, <3>3, <2>1, <2>2, <1>1 DEF StampInv
  <2>3. CASE g # h \/ i # j
    BY <2>1, <2>3, <1>1, SameStamp
  <2>4. QED
    BY <2>2, <2>3
<1>10. CASE UNCHANGED vars
  BY <1>10, <1>1, SameStamp DEF vars, TaskVars
<1>11. QED
  BY <1>3, <1>4, <1>5, <1>6, <1>7, <1>8, <1>9, <1>10 DEF Next, MainStep, TaskStep, Done

\* For all sizes and any number of interruptions, start_rollout_id tells which
\* samples of a batch or of the buffer hold tokens of older weights, and since
\* which rollout.
THEOREM StaleTokensNamed == Spec => []StaleTokensAreNamed
<1>1. FullInv /\ Stamps => StaleTokensAreNamed
  <2> SUFFICES ASSUME FullInv, Stamps PROVE StaleTokensAreNamed
    OBVIOUS
  <2>1. EveryGroupInOnePlace /\ TypeOK
    BY DEF FullInv, CoreInv
  <2>2. ASSUME NEW g \in Working, NEW i \in Samples
        PROVE  sample[g][i].start = IF sample[g][i].response = rollout
                                    THEN NoStart ELSE sample[g][i].response
    <3>1. g \in Groups /\ g \notin Gone
      BY <2>1, <2>2 DEF Working, TypeOK, EveryGroupInOnePlace, Open
    <3>2. QED
      BY <3>1, <2>2 DEF Stamps, StampInv
  <2>3. ASSUME NEW g \in Elems(buffer) \union Elems(collected), NEW i \in Samples
        PROVE  sample[g][i].start = sample[g][i].response
    <3>1. g \in Groups
      BY <2>1, ElementOfSeq DEF TypeOK, Elems
    <3>2. g \notin Gone /\ g \notin Working
      BY <2>1, <2>3 DEF Working, EveryGroupInOnePlace, Open
    <3>3. QED
      BY <3>1, <3>2 DEF Stamps, StampInv
  <2>4. QED
    BY <2>2, <2>3 DEF StaleTokensAreNamed, Working
<1>2. QED
  BY <1>1, StampsInit, StampsStep, FullAlways, PTL DEF Spec

\* Seen from its caller, a rollout is RolloutContract: groups are created and
\* given up, and each return delivers a fresh batch of exactly the right size.
THEOREM ImplementsContract == Spec => ContractSpec
<1> DEFINE deliveredBar == IF pc = "idle" THEN rollout ELSE rollout - 1
<1>1. Init => Contract!Init
  <2>1. Elems(<<>>) = {}
    BY DEF Elems
  <2>2. QED
    BY <2>1 DEF Init, Contract!Init, Open
<1>2. FullInv /\ FullInv' /\ [Next]_vars => [Contract!Next]_(Contract!contractVars)
  <2> SUFFICES ASSUME FullInv, FullInv', [Next]_vars
               PROVE  Contract!Next \/ UNCHANGED Contract!contractVars
    BY DEF Contract!contractVars
  <2> USE DEF FullInv, CoreInv
  <2>1. /\ Open \union Gone = 0 .. nextGroup - 1 /\ Open \intersect Gone = {}
        /\ Open' \union Gone' = 0 .. nextGroup' - 1 /\ Open' \intersect Gone' = {}
        /\ nextGroup \in Nat /\ nextGroup' \in Nat
    BY ConstAssumption DEF EveryGroupInOnePlace, TypeOK
  <2>2. ASSUME nextGroup' >= nextGroup, Gone \subseteq Gone', UNCHANGED <<trained, deliveredBar>>
        PROVE  Contract!Work
    <3>1. 0 .. nextGroup' - 1 = (0 .. nextGroup - 1) \union (nextGroup .. nextGroup' - 1)
      BY <2>1, <2>2, IntervalCut
    <3>2. Open' \subseteq Open \union (nextGroup .. nextGroup' - 1)
      BY <3>1, <2>1, <2>2
    <3>3. QED
      BY <3>2, <2>1, <2>2 DEF Contract!Work
  <2>3. CASE StartRollout
    <3>1. RefillEffect(remaining, pendings)
      <4>1. Elems(buffer) \subseteq 0 .. nextGroup - 1
        BY <2>1 DEF Open
      <4>2. QED
        BY <4>1, <2>3, RefillWorks DEF TypeOK, EveryGroupInOnePlace, StartRollout
    <3>2. nextGroup' >= nextGroup
      BY <3>1, <2>1 DEF RefillEffect
    <3>3. pc = "idle" /\ pc' = "collect" /\ rollout' = rollout + 1 /\ rollout \in Int
          /\ UNCHANGED <<trained, dropped, surplus, discarded>>
      BY <2>3, ConstAssumption DEF StartRollout, TypeOK
    <3>4. QED
      BY <3>2, <3>3, <2>2 DEF Contract!Next, Gone
  <2>4. CASE Collect
    <3>1. nextGroup' >= nextGroup
      <4>1. CASE UNCHANGED sourceVars
        BY <4>1, <2>1 DEF sourceVars
      <4>2. CASE \E rem \in Int, pend \in SUBSET Groups : Refill(rem, pend)
        <5>1. Elems(buffer) \subseteq 0 .. nextGroup - 1
          BY <2>1 DEF Open
        <5>2. PICK rem \in Int, pend \in SUBSET Groups : RefillEffect(rem, pend)
          BY <5>1, <4>2, RefillWorks DEF TypeOK, EveryGroupInOnePlace
        <5>3. QED
          BY <5>2, <2>1 DEF RefillEffect
      <4>3. ASSUME NEW done \in SUBSET pendings, NEW keep \in SUBSET done
            PROVE  StillPossible(done, keep) \in Int /\ pendings \ done \in SUBSET Groups
        <5>1. Cardinality(done \ keep) \in Nat
          BY GroupSets DEF TypeOK
        <5>2. QED
          BY <5>1 DEF StillPossible, TypeOK
      <4>4. QED
        BY <2>4, <4>1, <4>2, <4>3 DEF Collect
    <3>2. pc = "collect" /\ pc' \in {"collect", "abort"} /\ Gone \subseteq Gone'
          /\ UNCHANGED <<rollout, trained>>
      BY <2>4 DEF Collect, Gone
    <3>3. QED
      BY <3>1, <3>2, <2>2 DEF Contract!Next
  <2>5. CASE FinishRollout
    <3>1. /\ pc = "abort" /\ pc' = "idle" /\ pendings = {} /\ data' = {}
          /\ trained' = trained \union data
          /\ UNCHANGED <<pendings, nextGroup, rollout, dropped, surplus, discarded>>
      BY <2>5 DEF FinishRollout, Drained
    <3>2. Cardinality(data) = BatchSize /\ data \subseteq Open
      BY <3>1 DEF AtAwait, Open
    <3>3. Open' = Open \ data
      <4>1. Gone' = Gone \union data
        BY <3>1 DEF Gone
      <4>2. QED
        BY <4>1, <3>1, <3>2, <2>1
    <3>4. deliveredBar' = deliveredBar + 1
      BY <3>1, ConstAssumption DEF TypeOK
    <3>5. /\ data \in SUBSET Open /\ Cardinality(data) = BatchSize
          /\ trained' = trained \union data /\ Open' = Open \ data
          /\ nextGroup' = nextGroup
      BY <3>1, <3>2, <3>3
    <3> HIDE DEF deliveredBar
    <3>6. Contract!Cardinality(data) = Cardinality(data)
      BY DEF Contract!Cardinality, Cardinality, Contract!IsFiniteSet, IsFiniteSet
    <3>7. Contract!Deliver
      BY <3>4, <3>5, <3>6 DEF Contract!Deliver, deliveredBar
    <3>8. QED
      BY <3>7 DEF Contract!Next
  <2>6. CASE \E e \in Engines : AbortEngine(e)
    <3>1. UNCHANGED <<nextGroup, trained, pc, rollout, dropped, surplus, discarded>>
      BY <2>6 DEF AbortEngine, sourceVars, fateVars
    <3>2. QED
      BY <3>1, <2>1, <2>2 DEF Contract!Next, Gone
  <2>7. ASSUME NEW g \in Groups, TaskStep(g) \/ \E i \in Samples : SampleStep(g, i)
        PROVE  Contract!Next
    <3>1. UNCHANGED <<nextGroup, trained, pc, rollout, dropped, surplus>>
          /\ discarded \subseteq discarded'
      <4>1. CASE Drain(g)
        BY <4>1 DEF Drain, sourceVars
      <4>2. CASE UNCHANGED TaskVars
        BY <4>2 DEF TaskVars, genVars, sourceVars, fateVars
      <4>3. QED
        BY <2>7, <4>1, <4>2 DEF TaskStep, StartTask, Gather, GradeGroup,
           SampleStep, Acquire, Route, Generated, Interrupted, Reward
    <3>2. QED
      BY <3>1, <2>1, <2>2 DEF Contract!Next, Gone
  <2>8. CASE UNCHANGED vars
    <3>1. UNCHANGED <<nextGroup, trained, pc, rollout, dropped, surplus, discarded>>
      BY <2>8 DEF vars, genVars, sourceVars, fateVars
    <3>2. QED
      BY <3>1, <2>1, <2>2 DEF Contract!Next, Gone
  <2>9. QED
    BY <2>3, <2>4, <2>5, <2>6, <2>7, <2>8 DEF Next, MainStep, Done
<1>3. QED
  BY <1>1, <1>2, FullAlways, PTL DEF Spec, ContractSpec, Contract!Spec
=============================================================================
