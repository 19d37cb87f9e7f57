-------------------------- MODULE TrainStep_proofs --------------------------
(***************************************************************************)
(* Proofs about SeqlenBalancing, for every list of lengths and every       *)
(* number of partitions, and about TrainStep, for every number of ranks,   *)
(* every rollout and every combination of its options.                     *)
(***************************************************************************)
EXTENDS TrainStep, FiniteSetTheorems, SequenceTheorems, TLAPS
-----------------------------------------------------------------------------
(* SeqlenBalancing: the calls of karmarkar_karp *)

\* What the heap holds: states of k sets each.
Set == [sum : Nat, items : Seq(Nat)]
StateOf(k) == [1 .. k -> Set]

\* The sets of a state are in decreasing order, the empty ones last.
Ordered(s, k) ==
  /\ \A i, j \in 1 .. k : i <= j => s[j].sum <= s[i].sum
  /\ \A i \in 1 .. k : s[i].items = <<>> => s[i].sum = 0

\* A set is heavier than another by no more than one of its items.
Near(si, sj, list) ==
  \/ si.sum <= sj.sum
  \/ \E x \in 1 .. Len(list) : x \in Indices(si) /\ si.sum <= sj.sum + list[x]
Even(s, k, list) == \A i, j \in 1 .. k : Near(s[i], s[j], list)

\* As long as a state has an empty set, none of its sets has two items.
Full(s, k) == \A i \in 1 .. k : s[i].items # <<>>
Flat(s, k) ==
  /\ \A i \in 1 .. k : Len(s[i].items) <= 1
  /\ \A i, j \in 1 .. k : i < j /\ s[j].items # <<>> => s[i].items # <<>>

SameCount(s, k) == \A i, j \in 1 .. k : Len(s[i].items) = Len(s[j].items)

Good(s, k, equal, list) ==
  /\ s \in StateOf(k) /\ Ordered(s, k) /\ Even(s, k, list)
  /\ Full(s, k) \/ Flat(s, k)
  /\ equal => SameCount(s, k)

\* Every sequence is in some set of some state, and in no other.
Covered(pq, k, list) ==
  \A x \in 1 .. Len(list) : \E s \in pq : \E i \in 1 .. k : x \in Indices(s[i])
Once(pq, k) ==
  \A s, t \in pq : \A i, j \in 1 .. k :
    \A x \in Indices(s[i]) \cap Indices(t[j]) : s = t /\ i = j

HeapInv(pq, list, k, equal) ==
  /\ \A s \in pq : Good(s, k, equal, list)
  /\ Covered(pq, k, list)
  /\ Once(pq, k)
-----------------------------------------------------------------------------
(* Merging two states *)

\* A bijection hits everything, and nothing twice.
LEMMA Bijective ==
  ASSUME NEW S, NEW p \in Bijection(S, S)
  PROVE  /\ p \in [S -> S]
         /\ \A w \in S : \E v \in S : p[v] = w
         /\ \A v, w \in S : p[v] = p[w] => v = w
  BY DEF Bijection, Injection, Surjection, IsInjective

LEMMA StateLength ==
  ASSUME NEW k \in Nat, NEW s \in StateOf(k)
  PROVE  s \in Seq(Set) /\ Len(s) = k /\ DOMAIN s = 1 .. k
  BY DEF StateOf

\* The items of a joined set are those of its two parts.
LEMMA JoinedItems ==
  ASSUME NEW u \in Seq(Nat), NEW v \in Seq(Nat)
  PROVE  /\ u \o v \in Seq(Nat) /\ Len(u \o v) = Len(u) + Len(v)
         /\ {(u \o v)[n] : n \in DOMAIN (u \o v)} =
              {u[n] : n \in DOMAIN u} \cup {v[n] : n \in DOMAIN v}
         /\ u \o v = <<>> <=> u = <<>> /\ v = <<>>
<1>1. /\ u \o v \in Seq(Nat) /\ Len(u \o v) = Len(u) + Len(v)
      /\ Len(u) \in Nat /\ Len(v) \in Nat
      /\ DOMAIN u = 1 .. Len(u) /\ DOMAIN v = 1 .. Len(v)
      /\ DOMAIN (u \o v) = 1 .. Len(u) + Len(v)
      /\ \A n \in 1 .. Len(u) + Len(v) :
           (u \o v)[n] = IF n <= Len(u) THEN u[n] ELSE v[n - Len(u)]
  OBVIOUS
<1>2. \A n \in DOMAIN (u \o v) :
        (u \o v)[n] \in {u[m] : m \in DOMAIN u} \cup {v[m] : m \in DOMAIN v}
  <2> TAKE n \in DOMAIN (u \o v)
  <2>1. CASE n <= Len(u)
    BY <1>1, <2>1
  <2>2. CASE n > Len(u)
    <3>1. n - Len(u) \in DOMAIN v /\ (u \o v)[n] = v[n - Len(u)]
      BY <1>1, <2>2
    <3>2. QED
      BY <3>1
  <2>3. QED
    BY <1>1, <2>1, <2>2
<1>3. \A m \in DOMAIN u : m \in DOMAIN (u \o v) /\ (u \o v)[m] = u[m]
  BY <1>1
<1>4. \A m \in DOMAIN v : m + Len(u) \in DOMAIN (u \o v) /\ (u \o v)[m + Len(u)] = v[m]
  BY <1>1, SMTT(30)
<1>5. u \o v = <<>> <=> u = <<>> /\ v = <<>>
  BY <1>1
<1>6. {(u \o v)[n] : n \in DOMAIN (u \o v)} =
        {u[n] : n \in DOMAIN u} \cup {v[n] : n \in DOMAIN v}
  <2>1. {(u \o v)[n] : n \in DOMAIN (u \o v)} \subseteq
          {u[n] : n \in DOMAIN u} \cup {v[n] : n \in DOMAIN v}
    BY <1>2, Zenon
  <2>2. {u[n] : n \in DOMAIN u} \subseteq {(u \o v)[n] : n \in DOMAIN (u \o v)}
    BY <1>3
  <2>3. {v[n] : n \in DOMAIN v} \subseteq {(u \o v)[n] : n \in DOMAIN (u \o v)}
    BY <1>4
  <2>4. QED
    BY <2>1, <2>2, <2>3, Zenon
<1>7. QED
  BY <1>1, <1>5, <1>6

\* What a merge puts into set i: a set of one state with the mirrored set of the
\* other, in an order that is decreasing again.
LEMMA MergedState ==
  ASSUME NEW k \in Nat \ {0}, NEW a \in StateOf(k), NEW b \in StateOf(k),
         NEW c \in Sortings(Joined(a, b))
  PROVE  \E p \in Bijection(1 .. k, 1 .. k) :
           /\ \A i \in 1 .. k :
                /\ p[i] \in 1 .. k /\ k + 1 - p[i] \in 1 .. k
                /\ c[i].sum = a[p[i]].sum + b[k + 1 - p[i]].sum
                /\ c[i].items = a[p[i]].items \o b[k + 1 - p[i]].items
           /\ c \in StateOf(k)
           /\ \A i, j \in 1 .. k : i < j => ~Greater(c[j], c[i])
<1>1. DOMAIN a = 1 .. k /\ Len(a) = k
  BY StateLength
<1>2. DOMAIN Joined(a, b) = 1 .. k
  BY <1>1 DEF Joined
<1>3. PICK p \in Bijection(1 .. k, 1 .. k) :
        c = [i \in 1 .. k |-> Joined(a, b)[p[i]]] /\ Descending(c)
  BY <1>2 DEF Sortings
<1>4. \A i \in 1 .. k : p[i] \in 1 .. k /\ k + 1 - p[i] \in 1 .. k
  <2>1. \A i \in 1 .. k : p[i] \in 1 .. k
    BY <1>3, Bijective
  <2>2. \A n \in 1 .. k : k + 1 - n \in 1 .. k
    OBVIOUS
  <2>3. QED
    BY <2>1, <2>2
<1>5. \A i \in 1 .. k :
        c[i] = [sum |-> a[p[i]].sum + b[k + 1 - p[i]].sum,
                items |-> a[p[i]].items \o b[k + 1 - p[i]].items]
  BY <1>1, <1>3, <1>4 DEF Joined
<1>6. \A i \in 1 .. k : c[i] \in Set
  <2> TAKE i \in 1 .. k
  <2>1. a[p[i]] \in Set /\ b[k + 1 - p[i]] \in Set
    BY <1>4 DEF StateOf
  <2>2. a[p[i]].items \o b[k + 1 - p[i]].items \in Seq(Nat)
    BY <2>1, JoinedItems DEF Set
  <2>3. a[p[i]].sum \in Nat /\ b[k + 1 - p[i]].sum \in Nat
    BY <2>1 DEF Set
  <2>4. c[i] = [sum |-> a[p[i]].sum + b[k + 1 - p[i]].sum,
                items |-> a[p[i]].items \o b[k + 1 - p[i]].items]
    BY <1>5
  <2>5. QED
    BY <2>2, <2>3, <2>4 DEF Set
<1>7. c \in StateOf(k)
  BY <1>3, <1>6 DEF StateOf
<1>8. \A i, j \in 1 .. k : i < j => ~Greater(c[j], c[i])
  BY <1>3 DEF Descending
<1>9. \A i \in 1 .. k :
        /\ c[i].sum = a[p[i]].sum + b[k + 1 - p[i]].sum
        /\ c[i].items = a[p[i]].items \o b[k + 1 - p[i]].items
  <2> TAKE i \in 1 .. k
  <2> DEFINE sum == a[p[i]].sum + b[k + 1 - p[i]].sum
             items == a[p[i]].items \o b[k + 1 - p[i]].items
  <2>1. c[i] = [sum |-> sum, items |-> items]
    BY <1>5
  <2> HIDE DEF sum, items
  <2>2. c[i].sum = sum /\ c[i].items = items
    BY <2>1
  <2>3. QED
    BY <2>2 DEF sum, items
<1>10. QED
  BY <1>4, <1>7, <1>8, <1>9

\* Two merged sets are near when one part is and the other is no heavier.
LEMMA JoinedNear ==
  ASSUME NEW list \in Seq(Nat), NEW a1, NEW a2, NEW b1, NEW b2, NEW c1, NEW c2,
         /\ a1.sum \in Nat /\ a2.sum \in Nat /\ b1.sum \in Nat /\ b2.sum \in Nat
         /\ c1.sum = a1.sum + b1.sum /\ c2.sum = a2.sum + b2.sum
         /\ Indices(c1) = Indices(a1) \cup Indices(b1),
         \/ Near(a1, a2, list) /\ b1.sum <= b2.sum
         \/ Near(b1, b2, list) /\ a1.sum <= a2.sum
  PROVE  Near(c1, c2, list)
<1> DEFINE p1 == a1.sum
           p2 == a2.sum
           q1 == b1.sum
           q2 == b2.sum
<1>1. p1 \in Nat /\ p2 \in Nat /\ q1 \in Nat /\ q2 \in Nat
  OBVIOUS
<1>2. \A x \in 1 .. Len(list) : list[x] \in Nat
  BY ElementOfSeq
<1>3. c1.sum = p1 + q1 /\ c2.sum = p2 + q2
  OBVIOUS
<1>4. CASE p1 <= p2 /\ q1 <= q2
  <2> HIDE DEF p1, p2, q1, q2
  <2>1. c1.sum <= c2.sum
    BY <1>1, <1>3, <1>4
  <2>2. QED
    BY <2>1 DEF Near
<1>5. CASE \E x \in 1 .. Len(list) : x \in Indices(a1) /\ p1 <= p2 + list[x] /\ q1 <= q2
  <2>1. PICK x \in 1 .. Len(list) : x \in Indices(a1) /\ p1 <= p2 + list[x] /\ q1 <= q2
    BY <1>5
  <2>2. PICK l \in Nat : l = list[x]
    BY <1>2
  <2> HIDE DEF p1, p2, q1, q2
  <2>3. p1 + q1 <= (p2 + q2) + l
    BY <1>1, <2>1, <2>2
  <2>4. QED
    BY <1>3, <2>1, <2>2, <2>3 DEF Near
<1>6. CASE \E x \in 1 .. Len(list) : x \in Indices(b1) /\ q1 <= q2 + list[x] /\ p1 <= p2
  <2>1. PICK x \in 1 .. Len(list) : x \in Indices(b1) /\ q1 <= q2 + list[x] /\ p1 <= p2
    BY <1>6
  <2>2. PICK l \in Nat : l = list[x]
    BY <1>2
  <2> HIDE DEF p1, p2, q1, q2
  <2>3. p1 + q1 <= (p2 + q2) + l
    BY <1>1, <2>1, <2>2
  <2>4. QED
    BY <1>3, <2>1, <2>2, <2>3 DEF Near
<1>7. QED
  BY <1>4, <1>5, <1>6 DEF Near

\* The merge of two good states is good: this is why the lightest set of one is
\* put with the heaviest of the other.
LEMMA MergedIsGood ==
  ASSUME NEW list \in Seq(Nat), NEW k \in Nat \ {0}, NEW equal \in BOOLEAN,
         NEW a, Good(a, k, equal, list), NEW b, Good(b, k, equal, list),
         NEW c \in Sortings(Joined(a, b))
  PROVE  Good(c, k, equal, list)
<1> DEFINE m(i) == k + 1 - i
<1>1. a \in StateOf(k) /\ b \in StateOf(k)
  BY DEF Good
<1>2. PICK p \in Bijection(1 .. k, 1 .. k) :
        /\ \A i \in 1 .. k :
             /\ p[i] \in 1 .. k /\ m(p[i]) \in 1 .. k
             /\ c[i].sum = a[p[i]].sum + b[m(p[i])].sum
             /\ c[i].items = a[p[i]].items \o b[m(p[i])].items
        /\ c \in StateOf(k)
        /\ \A i, j \in 1 .. k : i < j => ~Greater(c[j], c[i])
  BY <1>1, MergedState
<1> HIDE DEF m
<1>3. \A i \in 1 .. k : /\ p[i] \in 1 .. k /\ m(p[i]) \in 1 .. k
                        /\ c[i].sum = a[p[i]].sum + b[m(p[i])].sum
                        /\ c[i].items = a[p[i]].items \o b[m(p[i])].items
  BY <1>2
<1>4. \A i \in 1 .. k : /\ a[i].sum \in Nat /\ a[i].items \in Seq(Nat)
                        /\ b[i].sum \in Nat /\ b[i].items \in Seq(Nat)
                        /\ c[i].sum \in Nat /\ c[i].items \in Seq(Nat)
  BY <1>1, <1>2 DEF StateOf, Set
<1>5. \A i \in 1 .. k :
        /\ Len(c[i].items) = Len(a[p[i]].items) + Len(b[m(p[i])].items)
        /\ c[i].items = <<>> <=> a[p[i]].items = <<>> /\ b[m(p[i])].items = <<>>
  <2> TAKE i \in 1 .. k
  <2>1. p[i] \in 1 .. k /\ m(p[i]) \in 1 .. k
    BY <1>3
  <2>2. a[p[i]].items \in Seq(Nat) /\ b[m(p[i])].items \in Seq(Nat)
    BY <1>4, <2>1
  <2>3. c[i].items = a[p[i]].items \o b[m(p[i])].items
    BY <1>3
  <2>4. QED
    BY <2>2, <2>3, JoinedItems
<1>13. ASSUME NEW i \in 1 .. k
       PROVE  p[i] \in Int /\ 1 <= p[i] /\ p[i] <= k /\ p[i] \in 1 .. k
  <2>1. p[i] \in 1 .. k
    BY <1>3
  <2>2. QED
    BY <2>1
<1>12. ASSUME NEW i \in 1 .. k
      PROVE  /\ Len(a[p[i]].items) \in Nat /\ Len(b[m(p[i])].items) \in Nat
             /\ Len(c[i].items) = Len(a[p[i]].items) + Len(b[m(p[i])].items)
             /\ a[p[i]].items = <<>> => Len(a[p[i]].items) = 0
             /\ b[m(p[i])].items = <<>> => Len(b[m(p[i])].items) = 0
  <2>1. p[i] \in 1 .. k /\ m(p[i]) \in 1 .. k
    BY <1>3
  <2>2. a[p[i]].items \in Seq(Nat) /\ b[m(p[i])].items \in Seq(Nat)
    BY <1>4, <2>1
  <2>3. Len(c[i].items) = Len(a[p[i]].items) + Len(b[m(p[i])].items)
    BY <1>5
  <2>4. QED
    BY <2>1, <2>2, <2>3, SMTT(60)
<1>6. Ordered(a, k) /\ Ordered(b, k)
  BY DEF Good
<1>7. Ordered(c, k)
  <2>1. \A i, j \in 1 .. k : i <= j => c[j].sum <= c[i].sum
    <3> SUFFICES ASSUME NEW i \in 1 .. k, NEW j \in 1 .. k, i <= j
                 PROVE  c[j].sum <= c[i].sum
      OBVIOUS
    <3>1. CASE i = j
      BY <1>4, <3>1
    <3>2. CASE i < j
      <4>1. ~Greater(c[j], c[i])
        BY <1>2, <3>2
      <4>2. QED
        BY <1>4, <4>1 DEF Greater
    <3>3. QED
      BY <3>1, <3>2
  <2>2. \A i \in 1 .. k : c[i].items = <<>> => c[i].sum = 0
    <3> SUFFICES ASSUME NEW i \in 1 .. k, c[i].items = <<>>
                 PROVE  c[i].sum = 0
      OBVIOUS
    <3>1. p[i] \in 1 .. k /\ m(p[i]) \in 1 .. k
      BY <1>3
    <3>2. a[p[i]].items = <<>> /\ b[m(p[i])].items = <<>>
      BY <1>5
    <3>3. a[p[i]].sum = 0 /\ b[m(p[i])].sum = 0
      BY <1>6, <3>1, <3>2 DEF Ordered
    <3>4. c[i].sum = a[p[i]].sum + b[m(p[i])].sum
      BY <1>3
    <3>5. QED
      BY <3>3, <3>4
  <2>3. QED
    BY <2>1, <2>2 DEF Ordered
<1>8. Even(c, k, list)
  <2> SUFFICES ASSUME NEW i \in 1 .. k, NEW j \in 1 .. k
               PROVE  Near(c[i], c[j], list)
    BY DEF Even
  <2>1. /\ p[i] \in Int /\ p[j] \in Int /\ k \in Int
        /\ p[i] \in 1 .. k /\ p[j] \in 1 .. k
    BY <1>13
  <2>2. m(p[i]) \in 1 .. k /\ m(p[j]) \in 1 .. k
    BY <1>3
  <2>3. /\ a[p[i]].sum \in Nat /\ a[p[j]].sum \in Nat
        /\ b[m(p[i])].sum \in Nat /\ b[m(p[j])].sum \in Nat
        /\ c[i].sum = a[p[i]].sum + b[m(p[i])].sum
        /\ c[j].sum = a[p[j]].sum + b[m(p[j])].sum
    BY <1>3, <1>4, <2>1, <2>2
  <2>4. Indices(c[i]) = Indices(a[p[i]]) \cup Indices(b[m(p[i])])
    <3>1. a[p[i]].items \in Seq(Nat) /\ b[m(p[i])].items \in Seq(Nat)
      BY <1>4, <2>1, <2>2
    <3>2. c[i].items = a[p[i]].items \o b[m(p[i])].items
      BY <1>3
    <3>3. PICK u \in Seq(Nat), v \in Seq(Nat) : u = a[p[i]].items /\ v = b[m(p[i])].items
      BY <3>1
    <3>4. {(u \o v)[n] : n \in DOMAIN (u \o v)} =
            {u[n] : n \in DOMAIN u} \cup {v[n] : n \in DOMAIN v}
      BY JoinedItems
    <3>5. c[i].items = u \o v
      BY <3>2, <3>3
    <3>6. /\ Indices(c[i]) = {(u \o v)[n] : n \in DOMAIN (u \o v)}
          /\ Indices(a[p[i]]) = {u[n] : n \in DOMAIN u}
          /\ Indices(b[m(p[i])]) = {v[n] : n \in DOMAIN v}
      BY <3>3, <3>5 DEF Indices
    <3>7. QED
      BY <3>4, <3>6
  <2>5. Near(a[p[i]], a[p[j]], list) /\ Near(b[m(p[i])], b[m(p[j])], list)
    BY <2>1, <2>2 DEF Good, Even
  <2>6. a[p[i]].sum <= a[p[j]].sum \/ b[m(p[i])].sum <= b[m(p[j])].sum
    <3>1. CASE p[i] <= p[j]
      <4>1. m(p[j]) <= m(p[i])
        BY <2>1, <3>1 DEF m
      <4>2. QED
        BY <1>6, <2>2, <4>1 DEF Ordered
    <3>2. CASE ~(p[i] <= p[j])
      <4>1. p[j] <= p[i]
        BY <2>1, <3>2
      <4>2. QED
        BY <1>6, <2>1, <4>1 DEF Ordered
    <3>3. QED
      BY <3>1, <3>2
  <2>7. QED
    BY <2>3, <2>4, <2>5, <2>6, JoinedNear
<1>9. Full(c, k) \/ Flat(c, k)
  <2>1. CASE Full(a, k)
    BY <1>3, <1>5, <2>1 DEF Full
  <2>2. CASE Full(b, k)
    BY <1>3, <1>5, <2>2 DEF Full
  <2>3. CASE Flat(a, k) /\ Flat(b, k)
    <3>1. CASE \E n \in 1 .. k : a[n].items # <<>> /\ b[m(n)].items # <<>>
      <4>1. PICK n \in 1 .. k : a[n].items # <<>> /\ b[m(n)].items # <<>>
        BY <3>1
      <4>2. ASSUME NEW i \in 1 .. k PROVE c[i].items # <<>>
        <5>1. CASE p[i] <= n
          <6>1. a[p[i]].items # <<>>
            <7>1. CASE p[i] = n
              BY <4>1, <7>1
            <7>2. CASE p[i] < n
              BY <1>13, <2>3, <4>1, <7>2 DEF Flat
            <7>3. p[i] \in Int /\ n \in Int
              BY <1>13
            <7>4. QED
              BY <5>1, <7>1, <7>2, <7>3
          <6>2. QED
            BY <1>5, <6>1
        <5>2. CASE p[i] > n
          <6>0. p[i] \in Int /\ n \in Int /\ k \in Int
            BY <1>13
          <6>1. m(p[i]) < m(n) /\ m(n) \in 1 .. k
            BY <5>2, <6>0 DEF m
          <6>2. b[m(p[i])].items # <<>>
            BY <1>3, <2>3, <4>1, <6>1 DEF Flat
          <6>3. QED
            BY <1>5, <6>2
        <5>3. p[i] \in Int /\ n \in Int
          BY <1>13
        <5>4. QED
          BY <5>1, <5>2, <5>3
      <4>3. QED
        BY <4>2 DEF Full
    <3>2. CASE ~\E n \in 1 .. k : a[n].items # <<>> /\ b[m(n)].items # <<>>
      <4>1. \A i \in 1 .. k : Len(c[i].items) <= 1
        <5> SUFFICES ASSUME NEW i \in 1 .. k PROVE Len(c[i].items) <= 1
          OBVIOUS
        <5>0. p[i] \in 1 .. k /\ m(p[i]) \in 1 .. k
          BY <1>3
        <5>1. Len(a[p[i]].items) <= 1 /\ Len(b[m(p[i])].items) <= 1
          BY <2>3, <5>0 DEF Flat
        <5>2. a[p[i]].items = <<>> \/ b[m(p[i])].items = <<>>
          BY <1>3, <3>2
        <5>3. /\ Len(a[p[i]].items) \in Nat /\ Len(b[m(p[i])].items) \in Nat
              /\ Len(c[i].items) = Len(a[p[i]].items) + Len(b[m(p[i])].items)
              /\ Len(a[p[i]].items) = 0 \/ Len(b[m(p[i])].items) = 0
          BY <1>12, <5>2
        <5>4. CASE Len(a[p[i]].items) = 0
          BY <5>1, <5>3, <5>4
        <5>5. CASE Len(b[m(p[i])].items) = 0
          BY <5>1, <5>3, <5>5
        <5>6. QED
          BY <5>3, <5>4, <5>5
      <4>2. ASSUME NEW i \in 1 .. k, NEW j \in 1 .. k, i < j, c[j].items # <<>>
            PROVE  c[i].items # <<>>
        <5> SUFFICES ASSUME c[i].items = <<>> PROVE FALSE
          OBVIOUS
        <5>1. c[i].sum = 0 /\ c[j].sum \in Nat
          BY <1>4, <1>7 DEF Ordered
        <5>2. Len(c[i].items) = 0 /\ Len(c[j].items) > 0
          BY <1>4, <4>2
        <5>3. ~Greater(c[j], c[i])
          BY <1>2, <4>2
        <5>4. QED
          BY <5>1, <5>2, <5>3 DEF Greater
      <4>3. QED
        BY <4>1, <4>2 DEF Flat
    <3>3. QED
      BY <3>1, <3>2
  <2>4. QED
    BY <2>1, <2>2, <2>3 DEF Good
<1>10. equal => SameCount(c, k)
  <2> SUFFICES ASSUME equal, NEW i \in 1 .. k, NEW j \in 1 .. k
               PROVE  Len(c[i].items) = Len(c[j].items)
    BY DEF SameCount
  <2>0. p[i] \in 1 .. k /\ p[j] \in 1 .. k /\ m(p[i]) \in 1 .. k /\ m(p[j]) \in 1 .. k
    BY <1>3
  <2>1. /\ Len(a[p[i]].items) = Len(a[p[j]].items)
        /\ Len(b[m(p[i])].items) = Len(b[m(p[j])].items)
    BY <2>0 DEF Good, SameCount
  <2>2. /\ Len(c[i].items) = Len(a[p[i]].items) + Len(b[m(p[i])].items)
        /\ Len(c[j].items) = Len(a[p[j]].items) + Len(b[m(p[j])].items)
    BY <1>12
  <2>3. QED
    BY <2>1, <2>2
<1>11. QED
  BY <1>2, <1>7, <1>8, <1>9, <1>10 DEF Good
-----------------------------------------------------------------------------
(* The heap before the loop *)

LEMMA SingleSet ==
  ASSUME NEW list \in Seq(Nat), NEW x \in 1 .. Len(list)
  PROVE  /\ Single(list, x) \in Set /\ Single(list, x).sum = list[x]
         /\ Len(Single(list, x).items) = 1 /\ Single(list, x).items # <<>>
         /\ Indices(Single(list, x)) = {x}
<1>1. list[x] \in Nat /\ x \in Nat
  BY ElementOfSeq
<1>2. <<x>> \in Seq(Nat) /\ Len(<<x>>) = 1 /\ <<x>> # <<>> /\ <<x>>[1] = x /\ DOMAIN <<x>> = {1}
  BY <1>1
<1>3. Single(list, x).sum = list[x] /\ Single(list, x).items = <<x>>
  BY DEF Single
<1>4. Single(list, x) \in Set
  BY <1>1, <1>2 DEF Single, Set
<1>5. Indices(Single(list, x)) = {x}
  BY <1>2, <1>3 DEF Indices
<1>6. QED
  BY <1>2, <1>3, <1>4, <1>5

LEMMA EmptySet ==
  /\ NoItems \in Set /\ NoItems.sum = 0 /\ NoItems.items = <<>>
  /\ Len(NoItems.items) = 0 /\ Indices(NoItems) = {}
  BY DEF NoItems, Set, Indices

\* One state per sequence.
LEMMA ApartIsGood ==
  ASSUME NEW list, NEW k, Acceptable(list, k, FALSE)
  PROVE  HeapInv(Apart(list, k), list, k, FALSE)
<1>1. list \in Seq(Nat) /\ k \in Nat \ {0} /\ DOMAIN list = 1 .. Len(list)
  BY DEF Acceptable
<1> DEFINE state(x) == [i \in 1 .. k |-> IF i = 1 THEN Single(list, x) ELSE NoItems]
<1>2. Apart(list, k) = {state(x) : x \in 1 .. Len(list)}
  BY <1>1 DEF Apart
<1>3. ASSUME NEW x \in 1 .. Len(list), NEW i \in 1 .. k
      PROVE  state(x)[i] = IF i = 1 THEN Single(list, x) ELSE NoItems
  OBVIOUS
<1>4. ASSUME NEW x \in 1 .. Len(list) PROVE state(x) \in StateOf(k)
  BY <1>1, <1>3, SingleSet, EmptySet DEF StateOf
<1> HIDE DEF state
<1>5. ASSUME NEW x \in 1 .. Len(list) PROVE Good(state(x), k, FALSE, list)
  <2>1. \A i \in 1 .. k : /\ i = 1 => state(x)[i] = Single(list, x)
                          /\ i # 1 => state(x)[i] = NoItems
    BY <1>3
  <2>2. list[x] \in Nat
    BY <1>1, ElementOfSeq
  <2>3. \A i \in 1 .. k : /\ state(x)[i].sum = IF i = 1 THEN list[x] ELSE 0
                          /\ Len(state(x)[i].items) <= 1
                          /\ state(x)[i].items = <<>> <=> i # 1
    <3> TAKE i \in 1 .. k
    <3>1. CASE i = 1
      <4>1. state(x)[i] = Single(list, x)
        BY <2>1, <3>1
      <4>2. /\ Single(list, x).sum = list[x] /\ Len(Single(list, x).items) = 1
            /\ Single(list, x).items # <<>>
        BY <1>1, SingleSet
      <4>3. QED
        BY <3>1, <4>1, <4>2
    <3>2. CASE i # 1
      BY <2>1, <3>2, EmptySet
    <3>3. QED
      BY <3>1, <3>2
  <2>4. Ordered(state(x), k)
    BY <2>2, <2>3 DEF Ordered
  <2>5. Even(state(x), k, list)
    <3>1. ASSUME NEW i \in 1 .. k, NEW j \in 1 .. k PROVE Near(state(x)[i], state(x)[j], list)
      <4>1. CASE i # 1 \/ j = 1
        <5>1. state(x)[i].sum <= state(x)[j].sum
          BY <2>2, <2>3, <4>1
        <5>2. QED
          BY <5>1 DEF Near
      <4>2. CASE i = 1 /\ j # 1
        <5>1. state(x)[i].sum = list[x] /\ state(x)[j].sum = 0
          BY <2>3, <4>2
        <5>2. x \in Indices(state(x)[i])
          BY <1>1, <2>1, <4>2, SingleSet
        <5>3. state(x)[i].sum <= state(x)[j].sum + list[x]
          BY <2>2, <5>1
        <5>4. QED
          BY <5>2, <5>3 DEF Near
      <4>3. QED
        BY <4>1, <4>2
    <3>2. QED
      BY <3>1 DEF Even
  <2>6. Flat(state(x), k)
    BY <2>3 DEF Flat
  <2>7. QED
    BY <1>4, <2>4, <2>5, <2>6 DEF Good
<1>6. Covered(Apart(list, k), k, list)
  <2> SUFFICES ASSUME NEW x \in 1 .. Len(list)
               PROVE  x \in Indices(state(x)[1]) /\ 1 \in 1 .. k
    BY <1>2 DEF Covered
  <2>1. 1 \in 1 .. k
    BY <1>1
  <2>2. QED
    BY <1>1, <1>3, <2>1, SingleSet
<1>7. Once(Apart(list, k), k)
  <2> SUFFICES ASSUME NEW x \in 1 .. Len(list), NEW y \in 1 .. Len(list),
                      NEW i \in 1 .. k, NEW j \in 1 .. k,
                      NEW z \in Indices(state(x)[i]) \cap Indices(state(y)[j])
               PROVE  state(x) = state(y) /\ i = j
    BY <1>2 DEF Once
  <2>1. z \in Indices(state(x)[i]) /\ z \in Indices(state(y)[j])
    OBVIOUS
  <2>2. i = 1 /\ z = x
    BY <1>1, <1>3, <2>1, SingleSet, EmptySet
  <2>3. j = 1 /\ z = y
    BY <1>1, <1>3, <2>1, SingleSet, EmptySet
  <2>4. QED
    BY <2>2, <2>3
<1>8. QED
  <2>1. \A s \in Apart(list, k) : Good(s, k, FALSE, list)
    BY <1>2, <1>5
  <2>2. QED
    BY <1>6, <1>7, <2>1 DEF HeapInv

\* The places k neighbours take in the order of lengths.
LEMMA ChunkPlace ==
  ASSUME NEW k \in Nat \ {0}, NEW m \in Nat,
         NEW c \in 0 .. m - 1, NEW i \in 1 .. k
  PROVE  c * k + k + 1 - i \in 1 .. m * k
<1>1. c \in Nat /\ c + 1 <= m
  OBVIOUS
<1>2. (c + 1) * k <= m * k
  BY <1>1
<1>3. (c + 1) * k = c * k + k /\ c * k \in Nat /\ m * k \in Nat
  BY <1>1
<1>4. QED
  BY <1>2, <1>3

LEMMA Division ==
  ASSUME NEW k \in Nat \ {0}, NEW n \in Nat
  PROVE  n = k * (n \div k) + (n % k) /\ n % k \in 0 .. k - 1 /\ n \div k \in Nat
<1>1. n = k * (n \div k) + (n % k)
  OBVIOUS
<1>2. n % k \in 0 .. k - 1
  OBVIOUS
<1>3. n \div k \in Nat
  OBVIOUS
<1>4. QED
  BY <1>1, <1>2, <1>3

LEMMA EveryPlace ==
  ASSUME NEW k \in Nat \ {0}, NEW m \in Nat, NEW q \in 1 .. m * k
  PROVE  \E c \in 0 .. m - 1 : \E i \in 1 .. k : q = c * k + k + 1 - i
<1> DEFINE c == (q - 1) \div k
           r == (q - 1) % k
<1>1. q - 1 = k * c + r /\ r \in 0 .. k - 1 /\ c \in Nat
  <2>1. m * k \in Nat
    OBVIOUS
  <2>2. q - 1 \in Nat
    BY <2>1
  <2>3. QED
    BY <2>2, Division
<1> HIDE DEF c, r
<1>2. c * k = k * c /\ k * c \in Nat /\ m * k \in Nat
  BY <1>1
<1>3. c * k < m * k
  BY <1>1, <1>2
<1>4. c < m
  BY <1>1, <1>3
<1>5. k - r \in 1 .. k /\ q = c * k + k + 1 - (k - r)
  BY <1>1, <1>2
<1>6. QED
  BY <1>1, <1>4, <1>5

LEMMA DistinctPlaces ==
  ASSUME NEW k \in Nat \ {0}, NEW c \in Nat, NEW d \in Nat, NEW i \in 1 .. k, NEW j \in 1 .. k,
         c * k + k + 1 - i = d * k + k + 1 - j
  PROVE  c = d /\ i = j
<1>1. c * k \in Nat /\ d * k \in Nat
  OBVIOUS
<1>2. c * k - d * k = i - j
  BY <1>1
<1>3. ~(c < d)
  <2> SUFFICES ASSUME c + 1 <= d PROVE FALSE
    OBVIOUS
  <2>1. (c + 1) * k <= d * k /\ (c + 1) * k = c * k + k
    OBVIOUS
  <2>2. QED
    BY <1>1, <1>2, <2>1
<1>4. ~(d < c)
  <2> SUFFICES ASSUME d + 1 <= c PROVE FALSE
    OBVIOUS
  <2>1. (d + 1) * k <= c * k /\ (d + 1) * k = d * k + k
    OBVIOUS
  <2>2. QED
    BY <1>1, <1>2, <2>1
<1>5. c = d
  BY <1>3, <1>4
<1>6. QED
  BY <1>1, <1>2, <1>5

\* One state per k neighbours in the order of lengths.
LEMMA ChunksAreGood ==
  ASSUME NEW list, NEW k, Acceptable(list, k, TRUE), NEW order \in Ascending(list)
  PROVE  HeapInv(Chunks(list, k, order), list, k, TRUE)
<1> DEFINE N == Len(list)
           m == N \div k
           q(c, i) == c * k + k + 1 - i
           state(c) == [i \in 1 .. k |-> Single(list, order[q(c, i)])]
<1>1. /\ list \in Seq(Nat) /\ k \in Nat \ {0} /\ N \in Nat /\ DOMAIN list = 1 .. N
      /\ N % k = 0
  BY DEF Acceptable
<1>2. N = m * k /\ m \in Nat
  <2>1. N = k * m + (N % k) /\ m \in Nat
    BY <1>1, Division
  <2>2. N % k = 0 /\ N \in Nat /\ k \in Nat
    BY <1>1
  <2> HIDE DEF m, N
  <2>3. N = k * m /\ k * m = m * k
    BY <2>1, <2>2
  <2>4. QED
    BY <2>1, <2>3
<1>3. /\ order \in Bijection(1 .. N, 1 .. N)
      /\ \A i, j \in 1 .. N : i < j => list[order[i]] <= list[order[j]]
  <2>1. /\ order \in Bijection(1 .. N, 1 .. N)
        /\ \A i, j \in 1 .. N : i < j =>
             \/ list[order[i]] < list[order[j]]
             \/ list[order[i]] = list[order[j]] /\ order[i] < order[j]
    BY <1>1 DEF Ascending
  <2>2. \A i \in 1 .. N : list[order[i]] \in Nat
    <3>1. order \in [1 .. N -> 1 .. N]
      BY <2>1, Bijective
    <3>2. \A x \in 1 .. N : list[x] \in Nat
      BY <1>1, ElementOfSeq
    <3>3. QED
      BY <3>1, <3>2
  <2>3. QED
    BY <2>1, <2>2
<1>4. /\ order \in [1 .. N -> 1 .. N]
      /\ \A w \in 1 .. N : \E v \in 1 .. N : order[v] = w
      /\ \A v, w \in 1 .. N : order[v] = order[w] => v = w
  BY <1>3, Bijective
<1>5. Chunks(list, k, order) = {state(c) : c \in 0 .. m - 1}
  BY DEF Chunks
<1>6. ASSUME NEW c \in 0 .. m - 1, NEW i \in 1 .. k
      PROVE  q(c, i) \in 1 .. N /\ order[q(c, i)] \in 1 .. N
  <2>1. c * k + k + 1 - i \in 1 .. m * k
    BY <1>1, <1>2, ChunkPlace
  <2>2. q(c, i) \in 1 .. N
    BY <1>2, <2>1
  <2> HIDE DEF q
  <2>3. QED
    BY <1>4, <2>2
<1>7. ASSUME NEW c \in 0 .. m - 1, NEW i \in 1 .. k
      PROVE  /\ state(c)[i] = Single(list, order[q(c, i)])
             /\ state(c)[i] \in Set /\ state(c)[i].sum = list[order[q(c, i)]]
             /\ Len(state(c)[i].items) = 1 /\ state(c)[i].items # <<>>
             /\ Indices(state(c)[i]) = {order[q(c, i)]}
  <2>1. state(c)[i] = Single(list, order[q(c, i)])
    OBVIOUS
  <2>2. order[q(c, i)] \in 1 .. Len(list)
    BY <1>6
  <2> HIDE DEF state, q, m
  <2>3. QED
    BY <1>1, <2>1, <2>2, SingleSet
<1>8. ASSUME NEW c \in 0 .. m - 1 PROVE state(c) \in StateOf(k)
  BY <1>7 DEF StateOf
<1>9. ASSUME NEW c \in 0 .. m - 1, NEW i \in 1 .. k, NEW j \in 1 .. k, i < j
      PROVE  q(c, j) < q(c, i)
  <2>1. c * k \in Int
    BY <1>1
  <2>2. QED
    BY <1>1, <1>9, <2>1
<1>10. ASSUME NEW c \in 0 .. m - 1, NEW d \in 0 .. m - 1, NEW i \in 1 .. k, NEW j \in 1 .. k,
              q(c, i) = q(d, j)
       PROVE  c = d /\ i = j
  BY <1>1, <1>10, DistinctPlaces
<1>11. ASSUME NEW v \in 1 .. N
       PROVE  \E c \in 0 .. m - 1 : \E i \in 1 .. k : v = q(c, i)
  <2>1. v \in 1 .. m * k
    BY <1>2
  <2>2. k \in Nat \ {0} /\ m \in Nat
    BY <1>1, <1>2
  <2> HIDE DEF m
  <2>3. QED
    BY <2>1, <2>2, EveryPlace
<1> HIDE DEF state, q, m, N
<1>12. ASSUME NEW c \in 0 .. m - 1 PROVE Good(state(c), k, TRUE, list)
  <2>1. Ordered(state(c), k)
    <3>1. ASSUME NEW i \in 1 .. k, NEW j \in 1 .. k, i <= j
          PROVE  state(c)[j].sum <= state(c)[i].sum
      <4>1. state(c)[i].sum \in Nat /\ state(c)[j].sum \in Nat
        BY <1>7 DEF Set
      <4>2. CASE i = j
        BY <4>1, <4>2
      <4>3. CASE i < j
        BY <1>3, <1>6, <1>7, <1>9, <4>3
      <4>4. QED
        BY <3>1, <4>2, <4>3
    <3>2. \A i \in 1 .. k : state(c)[i].items # <<>>
      BY <1>7
    <3>3. QED
      BY <3>1, <3>2 DEF Ordered
  <2>2. Even(state(c), k, list)
    <3> SUFFICES ASSUME NEW i \in 1 .. k, NEW j \in 1 .. k
                 PROVE  Near(state(c)[i], state(c)[j], list)
      BY DEF Even
    <3>1. order[q(c, i)] \in 1 .. Len(list) /\ state(c)[i].sum = list[order[q(c, i)]]
      BY <1>6, <1>7 DEF N
    <3>2. state(c)[i].sum \in Nat /\ state(c)[j].sum \in Nat
      BY <1>7 DEF Set
    <3>3. state(c)[i].sum <= state(c)[j].sum + list[order[q(c, i)]]
      BY <3>1, <3>2
    <3>4. order[q(c, i)] \in Indices(state(c)[i])
      BY <1>7
    <3>5. QED
      BY <3>1, <3>3, <3>4 DEF Near
  <2>3. Full(state(c), k) /\ SameCount(state(c), k)
    BY <1>7 DEF Full, SameCount
  <2>4. QED
    BY <1>8, <2>1, <2>2, <2>3 DEF Good
<1>13. Covered(Chunks(list, k, order), k, list)
  <2> SUFFICES ASSUME NEW x \in 1 .. Len(list)
               PROVE  \E c \in 0 .. m - 1 : \E i \in 1 .. k : x \in Indices(state(c)[i])
    BY <1>5 DEF Covered
  <2>1. PICK v \in 1 .. N : order[v] = x
    BY <1>4 DEF N
  <2>2. PICK c \in 0 .. m - 1, i \in 1 .. k : v = q(c, i)
    BY <1>11
  <2>3. QED
    BY <1>7, <2>1, <2>2
<1>14. Once(Chunks(list, k, order), k)
  <2> SUFFICES ASSUME NEW c \in 0 .. m - 1, NEW d \in 0 .. m - 1,
                      NEW i \in 1 .. k, NEW j \in 1 .. k,
                      NEW x \in Indices(state(c)[i]) \cap Indices(state(d)[j])
               PROVE  c = d /\ i = j
    BY <1>5 DEF Once
  <2>1. order[q(c, i)] = x
    BY <1>7
  <2>2. order[q(d, j)] = x
    BY <1>7
  <2>3. q(c, i) = q(d, j)
    BY <1>4, <1>6, <2>1, <2>2
  <2>4. QED
    BY <1>10, <2>3
<1>15. QED
  <2>1. \A s \in Chunks(list, k, order) : Good(s, k, TRUE, list)
    BY <1>5, <1>12
  <2>2. QED
    BY <1>13, <1>14, <2>1 DEF HeapInv
-----------------------------------------------------------------------------
(* A turn of the loop *)

LEMMA MergedHeap ==
  ASSUME NEW list \in Seq(Nat), NEW k \in Nat \ {0}, NEW equal \in BOOLEAN,
         NEW pq, HeapInv(pq, list, k, equal),
         NEW a \in pq, NEW b \in pq, a # b, NEW c \in Sortings(Joined(a, b))
  PROVE  HeapInv((pq \ {a, b}) \cup {c}, list, k, equal)
<1> DEFINE m(i) == k + 1 - i
           rest == pq \ {a, b}
<1>1. /\ Good(a, k, equal, list) /\ Good(b, k, equal, list)
      /\ a \in StateOf(k) /\ b \in StateOf(k)
  BY DEF HeapInv, Good
<1>2. Good(c, k, equal, list)
  BY <1>1, MergedIsGood
<1>3. PICK p \in Bijection(1 .. k, 1 .. k) :
        /\ \A i \in 1 .. k :
             /\ p[i] \in 1 .. k /\ m(p[i]) \in 1 .. k
             /\ c[i].sum = a[p[i]].sum + b[m(p[i])].sum
             /\ c[i].items = a[p[i]].items \o b[m(p[i])].items
        /\ c \in StateOf(k)
        /\ \A i, j \in 1 .. k : i < j => ~Greater(c[j], c[i])
  BY <1>1, MergedState
<1>4. ASSUME NEW i \in 1 .. k PROVE m(i) \in 1 .. k /\ m(m(i)) = i
  OBVIOUS
<1>5. ASSUME NEW i \in 1 .. k, NEW j \in 1 .. k, m(i) = m(j) PROVE i = j
  BY <1>5
<1>6. /\ \A w \in 1 .. k : \E v \in 1 .. k : p[v] = w
      /\ \A v, w \in 1 .. k : p[v] = p[w] => v = w
  BY Bijective
<1> HIDE DEF m
<1>7. ASSUME NEW i \in 1 .. k
      PROVE  Indices(c[i]) = Indices(a[p[i]]) \cup Indices(b[m(p[i])])
  <2>1. p[i] \in 1 .. k /\ m(p[i]) \in 1 .. k
    BY <1>3
  <2>2. a[p[i]].items \in Seq(Nat) /\ b[m(p[i])].items \in Seq(Nat)
    BY <1>1, <2>1 DEF StateOf, Set
  <2>3. c[i].items = a[p[i]].items \o b[m(p[i])].items
    BY <1>3
  <2> DEFINE u == a[p[i]].items
             v == b[m(p[i])].items
  <2>4. {(u \o v)[n] : n \in DOMAIN (u \o v)} =
          {u[n] : n \in DOMAIN u} \cup {v[n] : n \in DOMAIN v}
    BY <2>2, JoinedItems
  <2>5. QED
    BY <2>3, <2>4 DEF Indices
<1>8. Covered(pq, k, list) /\ Once(pq, k)
  BY DEF HeapInv
<1>9. Covered(rest \cup {c}, k, list)
  <2> SUFFICES ASSUME NEW x \in 1 .. Len(list)
               PROVE  \E s \in rest \cup {c} : \E i \in 1 .. k : x \in Indices(s[i])
    BY DEF Covered
  <2>1. PICK s \in pq, i \in 1 .. k : x \in Indices(s[i])
    BY <1>8 DEF Covered
  <2>2. CASE s = a
    <3>1. PICK n \in 1 .. k : p[n] = i
      BY <1>6
    <3>2. x \in Indices(c[n])
      BY <1>7, <2>1, <2>2, <3>1
    <3>3. QED
      BY <3>2
  <2>3. CASE s = b
    <3>1. PICK n \in 1 .. k : p[n] = m(i)
      BY <1>4, <1>6
    <3>2. x \in Indices(c[n])
      BY <1>4, <1>7, <2>1, <2>3, <3>1
    <3>3. QED
      BY <3>2
  <2>4. QED
    BY <2>1, <2>2, <2>3
<1>10. Once(rest \cup {c}, k)
  <2>1. ASSUME NEW x, NEW i \in 1 .. k, NEW j \in 1 .. k,
               x \in Indices(c[i]), x \in Indices(c[j])
        PROVE  i = j
    <3>1. /\ p[i] \in 1 .. k /\ m(p[i]) \in 1 .. k
          /\ p[j] \in 1 .. k /\ m(p[j]) \in 1 .. k
      BY <1>3
    <3>2. /\ x \in Indices(a[p[i]]) \/ x \in Indices(b[m(p[i])])
          /\ x \in Indices(a[p[j]]) \/ x \in Indices(b[m(p[j])])
      BY <1>7, <2>1
    <3>3. p[i] = p[j] \/ m(p[i]) = m(p[j])
      BY <1>8, <3>1, <3>2 DEF Once
    <3>4. p[i] = p[j]
      BY <1>5, <3>1, <3>3
    <3>5. QED
      BY <1>6, <3>4
  <2>2. ASSUME NEW x, NEW t \in rest, NEW i \in 1 .. k, NEW j \in 1 .. k,
               x \in Indices(c[i]), x \in Indices(t[j])
        PROVE  FALSE
    <3>1. p[i] \in 1 .. k /\ m(p[i]) \in 1 .. k
      BY <1>3
    <3>2. x \in Indices(a[p[i]]) \/ x \in Indices(b[m(p[i])])
      BY <1>7, <2>2
    <3>3. QED
      BY <1>8, <2>2, <3>1, <3>2 DEF Once
  <2>3. ASSUME NEW s \in rest \cup {c}, NEW t \in rest \cup {c},
               NEW i \in 1 .. k, NEW j \in 1 .. k,
               NEW x \in Indices(s[i]) \cap Indices(t[j])
        PROVE  s = t /\ i = j
    <3>1. CASE s = c /\ t = c
      BY <2>1, <3>1
    <3>2. CASE s = c /\ t \in rest
      BY <2>2, <3>2
    <3>3. CASE s \in rest /\ t = c
      BY <2>2, <3>3
    <3>4. CASE s \in rest /\ t \in rest
      BY <1>8, <3>4 DEF Once
    <3>5. QED
      BY <3>1, <3>2, <3>3, <3>4
  <2>4. QED
    BY <2>3 DEF Once
<1>11. QED
  <2>1. \A s \in rest \cup {c} : Good(s, k, equal, list)
    BY <1>2 DEF HeapInv
  <2>2. QED
    BY <1>9, <1>10, <2>1 DEF HeapInv
-----------------------------------------------------------------------------
(* The result *)

LEMMA UpTo ==
  ASSUME NEW n \in Nat
  PROVE  IsFiniteSet(1 .. n) /\ Cardinality(1 .. n) = n
<1>1. /\ IsFiniteSet(1 .. n)
      /\ Cardinality(1 .. n) = IF 1 > n THEN 0 ELSE n - 1 + 1
  <2>1. 1 \in Int /\ n \in Int
    OBVIOUS
  <2>2. QED
    BY <2>1, FS_Interval, Zenon
<1>2. QED
  BY <1>1

\* With at least k sequences no set of the last state is empty: were one empty,
\* the others would hold one sequence each, and there are only k - 1 of them.
LEMMA NoneIsEmpty ==
  ASSUME NEW list \in Seq(Nat), NEW k \in Nat \ {0}, NEW equal \in BOOLEAN,
         Len(list) >= k, NEW s, HeapInv({s}, list, k, equal)
  PROVE  Full(s, k)
<1> SUFFICES ASSUME NEW j \in 1 .. k, s[j].items = <<>> PROVE FALSE
  BY DEF Full
<1>1. Good(s, k, equal, list)
  BY DEF HeapInv
<1>2. Flat(s, k) /\ s \in StateOf(k)
  BY <1>1 DEF Good, Full
<1> DEFINE holder == [x \in 1 .. Len(list) |-> CHOOSE i \in 1 .. k : x \in Indices(s[i])]
<1>3. ASSUME NEW x \in 1 .. Len(list)
      PROVE  holder[x] \in 1 .. k /\ x \in Indices(s[holder[x]])
  <2>1. \E i \in 1 .. k : x \in Indices(s[i])
    BY DEF HeapInv, Covered
  <2>2. QED
    BY <2>1
<1>4. ASSUME NEW x \in 1 .. Len(list) PROVE holder[x] \in (1 .. k) \ {j}
  <2>1. Indices(s[j]) = {}
    BY DEF Indices
  <2>2. QED
    BY <1>3, <2>1
<1>5. holder \in [1 .. Len(list) -> (1 .. k) \ {j}]
  BY <1>4
<1> HIDE DEF holder
<1>6. /\ IsFiniteSet(1 .. Len(list)) /\ Cardinality(1 .. Len(list)) = Len(list)
      /\ IsFiniteSet((1 .. k) \ {j}) /\ Cardinality((1 .. k) \ {j}) = k - 1
  <2>1. Len(list) \in Nat
    OBVIOUS
  <2>2. IsFiniteSet(1 .. Len(list)) /\ Cardinality(1 .. Len(list)) = Len(list)
    BY <2>1, UpTo
  <2>3. IsFiniteSet(1 .. k) /\ Cardinality(1 .. k) = k
    BY UpTo
  <2>4. QED
    BY <2>2, <2>3, FS_RemoveElement, ZenonT(40)
<1>7. Cardinality((1 .. k) \ {j}) < Cardinality(1 .. Len(list))
  BY <1>6
<1>8. PICK x \in 1 .. Len(list), y \in 1 .. Len(list) : x # y /\ holder[x] = holder[y]
  <2> DEFINE S == 1 .. Len(list)
             T == (1 .. k) \ {j}
  <2>1. IsFiniteSet(S) /\ IsFiniteSet(T) /\ Cardinality(T) < Cardinality(S) /\ holder \in [S -> T]
    BY <1>5, <1>6, <1>7
  <2> HIDE DEF S, T
  <2>2. \E x, y \in S : x # y /\ holder[x] = holder[y]
    BY <2>1, FS_PigeonHole
  <2>3. QED
    BY <2>2 DEF S
<1> DEFINE items == s[holder[x]].items
<1>9. items \in Seq(Nat) /\ Len(items) <= 1
  BY <1>2, <1>3 DEF Flat, StateOf, Set
<1>10. x \in {items[n] : n \in DOMAIN items} /\ y \in {items[n] : n \in DOMAIN items}
  BY <1>3, <1>8 DEF Indices
<1> HIDE DEF items
<1>11. DOMAIN items \subseteq {1}
  BY <1>9
<1>12. QED
  BY <1>8, <1>10, <1>11

\* What the last state of the heap is.
LEMMA ResultIsValid ==
  ASSUME Acceptable(seqlen_list, k_partitions, equal_size),
         HeapInv(states_pq, seqlen_list, k_partitions, equal_size)
  PROVE  PartitionsAreValid
<1> SUFFICES ASSUME NEW s \in states_pq, states_pq = {s}
             PROVE  /\ \A i \in DOMAIN s : s[i].items # <<>>
                    /\ \A x \in DOMAIN seqlen_list : \E i \in DOMAIN s : x \in Indices(s[i])
                    /\ \A i, j \in DOMAIN s : i # j => Indices(s[i]) \cap Indices(s[j]) = {}
                    /\ equal_size => \A i, j \in DOMAIN s : Len(s[i].items) = Len(s[j].items)
  BY DEF PartitionsAreValid
<1> DEFINE k == k_partitions
<1>1. /\ seqlen_list \in Seq(Nat) /\ k \in Nat \ {0} /\ equal_size \in BOOLEAN
      /\ Len(seqlen_list) >= k /\ DOMAIN seqlen_list = 1 .. Len(seqlen_list)
  BY DEF Acceptable
<1>2. Good(s, k, equal_size, seqlen_list)
  BY DEF HeapInv
<1>3. DOMAIN s = 1 .. k
  BY <1>2 DEF Good, StateOf
<1>4. Full(s, k)
  BY <1>1, NoneIsEmpty
<1>5. \A x \in 1 .. Len(seqlen_list) : \E i \in 1 .. k : x \in Indices(s[i])
  BY DEF HeapInv, Covered
<1>6. \A i, j \in 1 .. k : i # j => Indices(s[i]) \cap Indices(s[j]) = {}
  BY DEF HeapInv, Once
<1>7. equal_size => SameCount(s, k)
  BY <1>2 DEF Good
<1>8. QED
  BY <1>1, <1>3, <1>4, <1>5, <1>6, <1>7 DEF Full, SameCount
-----------------------------------------------------------------------------
(* The theorems *)

IInv ==
  states_pq # {} => /\ Acceptable(seqlen_list, k_partitions, equal_size)
                    /\ HeapInv(states_pq, seqlen_list, k_partitions, equal_size)

LEMMA InvariantHolds == BalanceSpec => []IInv
<1>1. BalanceInit => IInv
  BY DEF BalanceInit, IInv
<1>2. IInv /\ [BalanceNext]_balanceVars => IInv'
  <2> SUFFICES ASSUME IInv, [BalanceNext]_balanceVars PROVE IInv'
    OBVIOUS
  <2>1. CASE Call
    <3>1. Acceptable(seqlen_list', k_partitions', equal_size') /\ equal_size' \in BOOLEAN
      BY <2>1 DEF Call, Acceptable
    <3>2. CASE equal_size' = TRUE
      <4>1. PICK order \in Ascending(seqlen_list') :
              states_pq' = Chunks(seqlen_list', k_partitions', order)
        BY <2>1, <3>2 DEF Call, Starts
      <4>2. HeapInv(states_pq', seqlen_list', k_partitions', equal_size')
        BY <3>1, <3>2, <4>1, ChunksAreGood
      <4>3. QED
        BY <3>1, <4>2 DEF IInv
    <3>3. CASE equal_size' = FALSE
      <4>1. states_pq' = Apart(seqlen_list', k_partitions')
        BY <2>1, <3>3 DEF Call, Starts
      <4>2. HeapInv(states_pq', seqlen_list', k_partitions', equal_size')
        BY <3>1, <3>3, <4>1, ApartIsGood
      <4>3. QED
        BY <3>1, <4>2 DEF IInv
    <3>4. QED
      BY <3>1, <3>2, <3>3
  <2>2. CASE Merge
    <3>1. PICK ab \in Popped(states_pq) :
            \E c \in Sortings(Joined(ab[1], ab[2])) :
              states_pq' = (states_pq \ {ab[1], ab[2]}) \cup {c}
      BY <2>2 DEF Merge, MergesOf
    <3>2. PICK c \in Sortings(Joined(ab[1], ab[2])) :
            states_pq' = (states_pq \ {ab[1], ab[2]}) \cup {c}
      BY <3>1
    <3>3. ab[1] \in states_pq /\ ab[2] \in states_pq /\ ab[1] # ab[2]
      BY DEF Popped
    <3>4. /\ Acceptable(seqlen_list, k_partitions, equal_size)
          /\ HeapInv(states_pq, seqlen_list, k_partitions, equal_size)
      BY <3>3 DEF IInv
    <3>5. HeapInv(states_pq', seqlen_list, k_partitions, equal_size)
      BY <3>2, <3>3, <3>4, MergedHeap DEF Acceptable
    <3>6. QED
      BY <2>2, <3>4, <3>5 DEF IInv, Merge, arguments
  <2>3. CASE Return
    BY <2>3 DEF Return, IInv
  <2>4. CASE UNCHANGED balanceVars
    BY <2>4 DEF balanceVars, arguments, IInv
  <2>5. QED
    BY <2>1, <2>2, <2>3, <2>4 DEF BalanceNext
<1>3. QED
  BY <1>1, <1>2, PTL DEF BalanceSpec

\* Whatever the lengths and the number of partitions, karmarkar_karp never lets
\* one partition outweigh another by more than one sequence of the heavier one,
\* from the first states of the heap to the partitions it returns.
THEOREM DifferenceIsBounded == BalanceSpec => []Balanced
<1>1. IInv => Balanced
  <2>1. SUFFICES ASSUME IInv, NEW s \in states_pq, NEW i \in DOMAIN s, NEW j \in DOMAIN s,
                        s[i].sum > s[j].sum
                 PROVE  \E x \in Indices(s[i]) : s[i].sum - seqlen_list[x] <= s[j].sum
    BY DEF Balanced
  <2>2. /\ seqlen_list \in Seq(Nat)
        /\ Good(s, k_partitions, equal_size, seqlen_list)
    BY <2>1 DEF IInv, HeapInv, Acceptable
  <2>3. i \in 1 .. k_partitions /\ j \in 1 .. k_partitions
    BY <2>1, <2>2 DEF Good, StateOf
  <2>4. s[i].sum \in Nat /\ s[j].sum \in Nat
    BY <2>2, <2>3 DEF Good, StateOf, Set
  <2>5. Near(s[i], s[j], seqlen_list)
    BY <2>2, <2>3 DEF Good, Even
  <2>6. ~(s[i].sum <= s[j].sum)
    BY <2>1, <2>4
  <2>7. PICK x \in 1 .. Len(seqlen_list) :
          x \in Indices(s[i]) /\ s[i].sum <= s[j].sum + seqlen_list[x]
    BY <2>5, <2>6 DEF Near
  <2>8. seqlen_list[x] \in Nat
    BY <2>2, ElementOfSeq
  <2>9. s[i].sum - seqlen_list[x] <= s[j].sum
    BY <2>4, <2>7, <2>8
  <2>10. QED
    BY <2>7, <2>9
<1>2. QED
  BY <1>1, InvariantHolds, PTL

\* Called with lengths and a number of partitions that pass its assertions,
\* karmarkar_karp returns partitions that pass those on the result: none is
\* empty, every sequence is in exactly one, and they are of one size when asked.
THEOREM PartitionsPass == BalanceSpec => []PartitionsAreValid
<1>1. IInv => PartitionsAreValid
  <2>1. CASE states_pq = {}
    BY <2>1 DEF PartitionsAreValid
  <2>2. CASE IInv /\ states_pq # {}
    BY <2>2, ResultIsValid DEF IInv
  <2>3. QED
    BY <2>1, <2>2
<1>2. QED
  BY <1>1, InvariantHolds, PTL
-----------------------------------------------------------------------------
(* TrainStep.  Some sequence, and what holds of all natural numbers *)

\* Some sequence.
Listed(s) == \E S : s \in Seq(S)

LEMMA Least ==
  ASSUME NEW S \in SUBSET Nat, S # {}
  PROVE  \E n \in S : \A m \in S : n <= m
<1>1. PICK n \in S : \A m \in S : ~(<<m, n>> \in OpToRel(<, Nat))
  BY NatLessThanWellFounded, WFMin
<1>2. \A m \in S : ~(m < n)
  BY <1>1 DEF OpToRel
<1>3. QED
  BY <1>2

LEMMA UpwardClosed ==
  ASSUME NEW S \in SUBSET Nat, 0 \in S, \A n \in S : n + 1 \in S
  PROVE  \A n \in Nat : n \in S
<1> SUFFICES ASSUME Nat \ S # {} PROVE FALSE
  OBVIOUS
<1>1. PICK n \in Nat \ S : \A m \in Nat \ S : n <= m
  BY Least
<1>2. n - 1 \in Nat /\ n - 1 \notin Nat \ S
  BY <1>1
<1>3. QED
  BY <1>2

FlatTo(ss, n, g) == g = [i \in 1 .. n |-> IF i = 1 THEN ss[i] ELSE g[i-1] \o ss[i]]

LEMMA FlatExists ==
  ASSUME NEW ss
  PROVE  \A n \in Nat : \E g : FlatTo(ss, n, g)
<1> DEFINE S == {n \in Nat : \E g : FlatTo(ss, n, g)}
<1>1. 0 \in S
  <2>1. FlatTo(ss, 0, [i \in 1 .. 0 |-> i])
    BY DEF FlatTo
  <2>2. QED
    BY <2>1
<1>2. ASSUME NEW n \in S PROVE n + 1 \in S
  <2>1. PICK g : FlatTo(ss, n, g)
    OBVIOUS
  <2> DEFINE h == [i \in 1 .. n + 1 |-> IF i <= n THEN g[i] ELSE IF i = 1 THEN ss[i] ELSE g[n] \o ss[i]]
  <2>2. \A i \in 1 .. n + 1 : h[i] = IF i = 1 THEN ss[i] ELSE h[i-1] \o ss[i]
    <3>0. \A i \in 1 .. n : h[i] = g[i]
      OBVIOUS
    <3>a. \A i \in 1 .. n : g[i] = IF i = 1 THEN ss[i] ELSE g[i-1] \o ss[i]
      <4> HIDE DEF h
      <4>2. QED
        BY <2>1, Zenon DEF FlatTo
    <3>1. \A i \in 1 .. n : h[i] = g[i] /\ g[i] = IF i = 1 THEN ss[i] ELSE g[i-1] \o ss[i]
      BY <3>0, <3>a
    <3>2. h[n + 1] = IF n + 1 = 1 THEN ss[n + 1] ELSE g[n] \o ss[n + 1]
      OBVIOUS
    <3>3. \A i \in 2 .. n + 1 : i - 1 \in 1 .. n /\ h[i - 1] = g[i - 1]
      OBVIOUS
    <3>4. \A i \in 1 .. n + 1 : i \in 1 .. n \/ i = n + 1
      OBVIOUS
    <3>5. \A i \in 1 .. n + 1 : i = 1 \/ i \in 2 .. n + 1
      OBVIOUS
    <3> HIDE DEF h
    <3>6. ASSUME n = 0 PROVE h[n + 1] = ss[n + 1]
      BY <3>2, <3>6
    <3>7. ASSUME n # 0 PROVE n + 1 \in 2 .. n + 1 /\ (n + 1) - 1 = n
      BY <3>7
    <3>8. h[n + 1] = IF n + 1 = 1 THEN ss[n + 1] ELSE h[(n + 1) - 1] \o ss[n + 1]
      BY <3>2, <3>3, <3>6, <3>7
    <3>9. QED
      BY <3>1, <3>3, <3>4, <3>5, <3>8
  <2>3. h = [i \in 1 .. n + 1 |-> h[i]]
    OBVIOUS
  <2>4. FlatTo(ss, n + 1, h)
    BY <2>2 DEF FlatTo
  <2>5. QED
    BY <2>4
<1>3. QED
  <2> HIDE DEF S
  <2>1. S \in SUBSET Nat BY DEF S
  <2>2. \A n \in Nat : n \in S
    BY <1>1, <1>2, <2>1, UpwardClosed
  <2>3. QED BY <2>2 DEF S

LEMMA Flattened ==
  ASSUME NEW ss, Len(ss) \in Nat \ {0}
  PROVE  \E g : FlatTo(ss, Len(ss), g) /\ FlattenSeq(ss) = g[Len(ss)]
<1> DEFINE f == CHOOSE g : g = [i \in 1 .. Len(ss) |-> IF i = 1 THEN ss[i] ELSE g[i-1] \o ss[i]]
<1>1. FlatTo(ss, Len(ss), f)
  BY FlatExists DEF FlatTo
<1>2. FlattenSeq(ss) = f[Len(ss)]
  BY DEF FlattenSeq
<1>3. QED
  BY <1>1, <1>2
-----------------------------------------------------------------------------
(* Sequences *)

LEMMA ListedFcn ==
  ASSUME NEW n \in Nat, NEW f
  PROVE  /\ Listed([i \in 1 .. n |-> f[i]]) /\ Len([i \in 1 .. n |-> f[i]]) = n
         /\ [i \in 1 .. n |-> f[i]] \in Seq({f[i] : i \in 1 .. n})
<1>1. [i \in 1 .. n |-> f[i]] \in [1 .. n -> {f[i] : i \in 1 .. n}]
  OBVIOUS
<1>2. [i \in 1 .. n |-> f[i]] \in Seq({f[i] : i \in 1 .. n})
  BY <1>1, SeqDef
<1>3. DOMAIN [i \in 1 .. n |-> f[i]] = 1 .. n
  OBVIOUS
<1>4. Len([i \in 1 .. n |-> f[i]]) = n
  BY <1>2, <1>3, LenProperties
<1>5. QED
  BY <1>2, <1>4 DEF Listed

LEMMA ListedIs ==
  ASSUME NEW s, Listed(s)
  PROVE  /\ Len(s) \in Nat /\ DOMAIN s = 1 .. Len(s) /\ s = [i \in 1 .. Len(s) |-> s[i]]
<1>1. PICK S : s \in Seq(S)
  BY DEF Listed
<1>2. QED
  BY <1>1, LenProperties

LEMMA ListedConcat ==
  ASSUME NEW s, NEW t, Listed(s), Listed(t)
  PROVE  Listed(s \o t)
<1>1. PICK S : s \in Seq(S)
  BY DEF Listed
<1>2. PICK T : t \in Seq(T)
  BY DEF Listed
<1>3. s \in Seq(S \cup T) /\ t \in Seq(S \cup T)
  BY <1>1, <1>2, SeqMonotonic
<1>4. s \o t \in Seq(S \cup T)
  BY <1>3, ConcatProperties
<1>5. QED
  BY <1>4 DEF Listed

LEMMA ListedAppend ==
  ASSUME NEW s, NEW x, Listed(s)
  PROVE  /\ Listed(Append(s, x)) /\ Len(Append(s, x)) = Len(s) + 1
         /\ \A i \in 1 .. Len(s) : Append(s, x)[i] = s[i]
         /\ Append(s, x)[Len(s) + 1] = x
<1>1. PICK S : s \in Seq(S)
  BY DEF Listed
<1>2. s \in Seq(S \cup {x}) /\ x \in S \cup {x}
  BY <1>1, SeqMonotonic
<1>3. QED
  BY <1>2, AppendProperties DEF Listed

LEMMA OneMore ==
  ASSUME NEW n \in Nat, NEW f
  PROVE  Append([m \in 1 .. n |-> f[m]], f[n + 1]) = [m \in 1 .. n + 1 |-> f[m]]
<1> DEFINE s == [m \in 1 .. n |-> f[m]]
           t == [m \in 1 .. n + 1 |-> f[m]]
           u == Append(s, f[n + 1])
<1>1. Listed(s) /\ Len(s) = n /\ Listed(t) /\ Len(t) = n + 1
  BY ListedFcn
<1>2. /\ Listed(u) /\ Len(u) = n + 1
      /\ \A i \in 1 .. n : u[i] = s[i]
      /\ u[n + 1] = f[n + 1]
  <2> HIDE DEF s
  <2>1. QED
    BY <1>1, ListedAppend
<1>3. \A i \in 1 .. n + 1 : u[i] = t[i]
  <2>1. \A i \in 1 .. n + 1 : i \in 1 .. n \/ i = n + 1
    OBVIOUS
  <2>2. \A i \in 1 .. n : s[i] = f[i]
    OBVIOUS
  <2>3. \A i \in 1 .. n + 1 : t[i] = f[i]
    OBVIOUS
  <2> HIDE DEF s, t, u
  <2>4. QED
    BY <1>2, <2>1, <2>2, <2>3
<1> HIDE DEF s, t, u
<1>4. u = [i \in 1 .. n + 1 |-> u[i]] /\ t = [i \in 1 .. n + 1 |-> t[i]]
  BY <1>1, <1>2, ListedIs
<1>5. u = t
  BY <1>3, <1>4
<1>6. QED
  BY <1>5 DEF u, t, s

LEMMA FlattenIsListed ==
  ASSUME NEW ss, Listed(ss), \A i \in 1 .. Len(ss) : Listed(ss[i])
  PROVE  Listed(FlattenSeq(ss))
<1>0. Len(ss) \in Nat
  BY ListedIs
<1>1. CASE Len(ss) = 0
  BY <1>1 DEF FlattenSeq
<1>2. CASE Len(ss) # 0
  <2>1. PICK g : FlatTo(ss, Len(ss), g) /\ FlattenSeq(ss) = g[Len(ss)]
    BY <1>0, <1>2, Flattened
  <2>2. \A i \in 1 .. Len(ss) : g[i] = IF i = 1 THEN ss[i] ELSE g[i-1] \o ss[i]
    BY <2>1, Zenon DEF FlatTo
  <2> DEFINE S == {n \in Nat : n + 1 \in 1 .. Len(ss) => Listed(g[n + 1])}
  <2>3. 0 \in S
    BY <2>2
  <2>4. ASSUME NEW n \in S PROVE n + 1 \in S
    <3>1. ASSUME n + 1 + 1 \in 1 .. Len(ss) PROVE Listed(g[n + 1 + 1])
      <4>1. n + 1 \in 1 .. Len(ss) /\ n + 1 + 1 # 1 /\ (n + 1 + 1) - 1 = n + 1
        BY <1>0, <3>1
      <4>2. g[n + 1 + 1] = g[n + 1] \o ss[n + 1 + 1]
        BY <2>2, <3>1, <4>1
      <4>3. Listed(g[n + 1]) /\ Listed(ss[n + 1 + 1])
        BY <3>1, <4>1
      <4>4. QED
        BY <4>2, <4>3, ListedConcat
    <3>2. QED
      BY <3>1
  <2> HIDE DEF S
  <2>5. S \in SUBSET Nat
    BY DEF S
  <2>6. \A n \in Nat : n \in S
    BY <2>3, <2>4, <2>5, UpwardClosed
  <2>7. Len(ss) - 1 \in Nat /\ (Len(ss) - 1) + 1 = Len(ss) /\ Len(ss) \in 1 .. Len(ss)
    BY <1>0, <1>2
  <2>8. Listed(g[(Len(ss) - 1) + 1])
    BY <2>6, <2>7 DEF S
  <2>9. QED
    BY <2>1, <2>7, <2>8
<1>3. QED
  BY <1>1, <1>2
-----------------------------------------------------------------------------
(* The invariant of a train call *)

\* The samples of a micro-batch, and the sizes of what is replayed.
Content(r, m) == Samples(r, Batch(r, m))
States ==
  [pass : {"none", "ref", "log_probs", "train"}, step : Nat, forwards : Nat, backwards : Nat,
   offset : Nat, stage : {"fallthrough", "record", "replay_forward", "replay_backward"}]

\* karmarkar_karp is at work only while the shares or the micro-batches are cut.
HeapInUse == phase = "balancing" \/ (phase = "packing" /\ Unpacked # {})

PlanInv ==
  /\ states_pq # {} => HeapInUse
  /\ options \in Options /\ total_lengths \in Seq(Nat)
  /\ phase \in {"waiting", "balancing", "scheduling", "packing", "computing"}
  /\ DOMAIN micro_batch_indices = Ranks
  /\ micro_batch_indices = [r \in Ranks |-> micro_batch_indices[r]]
  /\ \A r \in Ranks : 
       /\ Listed(micro_batch_indices[r])
       /\ \A i \in 1 .. Len(micro_batch_indices[r]) : Listed(micro_batch_indices[r][i])

RankInv ==
  /\ rank \in [Ranks -> States]
  /\ phase # "computing" => rank = Of(Resting)
  /\ phase = "computing" => \A r \in Ranks :
       /\ rank[r].pass # "none" /\ rank[r].stage = StageOf(rank[r].pass)
       /\ rank[r].backwards <= rank[r].forwards /\ rank[r].forwards <= rank[r].offset

\* What the replay of a rank holds: the micro-batches in their order, read as far
\* as the pass has come.
Read(r) ==
  IF rank[r].pass = "train" \/ (rank[r].pass = "log_probs" /\ UsesR3) THEN rank[r].offset ELSE 0
ReadBack(r) ==
  IF rank[r].pass = "train" THEN rank[r].offset - rank[r].forwards + rank[r].backwards ELSE 0
History(r, n) ==
  [top_indices_list |-> [m \in 1 .. n |-> Content(r, m)],
   forward_index |-> Read(r), backward_index |-> ReadBack(r)]

ReplayInv ==
  /\ phase # "computing" \/ options.replay = "none" => replay = Of(NoReplay)
  /\ phase = "computing" /\ options.replay # "none" =>
       replay = [r \in Ranks |-> replay[r]] /\ \A r \in Ranks : \E n \in Nat :
         /\ replay[r] = History(r, n)
         /\ options.replay = "train" /\ rank[r].pass = "ref" => n = 0
         /\ options.replay = "train" /\ rank[r].pass = "log_probs" => n = rank[r].offset

StepInv == PlanInv /\ RankInv /\ ReplayInv /\ ReplayedIsItsOwn
-----------------------------------------------------------------------------
(* The partitions that a train call uses are those of karmarkar_karp. *)

LEMMA StepIsBalanceStep == Next => [BalanceNext]_balanceVars
<1>1. CASE Receive
  BY <1>1 DEF Receive, Calls, BalanceNext
<1>2. CASE Balance
  BY <1>2 DEF Balance, BalanceNext
<1>3. CASE Deal
  BY <1>3 DEF Deal, BalanceNext
<1>4. CASE Schedule
  BY <1>4 DEF Schedule
<1>5. CASE Pack
  BY <1>5 DEF Pack, Calls, BalanceNext
<1>6. CASE Keep
  BY <1>6 DEF Keep, BalanceNext
<1>7. CASE Begin
  BY <1>7 DEF Begin
<1>8. CASE Forward
  BY <1>8 DEF Forward
<1>9. CASE Backward
  BY <1>9 DEF Backward
<1>10. CASE Optimize
  BY <1>10 DEF Optimize
<1>11. CASE \E r \in Ranks : EndForwardOnly(r)
  BY <1>11 DEF EndForwardOnly
<1>12. QED
  BY <1>1, <1>2, <1>3, <1>4, <1>5, <1>6, <1>7, <1>8, <1>9, <1>10, <1>11 DEF Next, Work

\* A train call uses karmarkar_karp one call at a time, each to its return, so
\* that what holds of every call holds of those of a train call.
THEOREM StepsBalance == Spec => BalanceSpec
<1>1. Init => BalanceInit
  BY DEF Init
<1>2. [Next]_vars => [BalanceNext]_balanceVars
  BY StepIsBalanceStep DEF vars
<1>3. QED
  BY <1>1, <1>2, PTL DEF Spec, BalanceSpec
-----------------------------------------------------------------------------
(* The steps before the passes *)

LEMMA Quiet ==
  ASSUME StepInv, PlanInv', phase # "computing", phase' # "computing",
         UNCHANGED <<rank, replay>>, routed' = routed \/ routed' = {}
  PROVE  StepInv'
<1>1. rank' = Of(Resting) /\ replay' = Of(NoReplay)
  BY DEF StepInv, RankInv, ReplayInv
<1>2. RankInv'
  <2>1. Of(Resting)' = Of(Resting) /\ Of(NoReplay)' = Of(NoReplay)
    BY DEF Of, Resting, NoReplay
  <2>2. rank' \in [Ranks -> States]
    BY DEF StepInv, RankInv
  <2>3. QED
    BY <1>1, <2>1, <2>2 DEF RankInv
<1>3. ReplayInv'
  <2>1. Of(NoReplay)' = Of(NoReplay)
    BY DEF Of, NoReplay
  <2>2. QED
    BY <1>1, <2>1 DEF ReplayInv
<1>4. ReplayedIsItsOwn'
  BY DEF StepInv, ReplayedIsItsOwn
<1>5. QED
  BY <1>2, <1>3, <1>4 DEF StepInv

LEMMA Sizes ==
  /\ dp_size \in Nat \ {0} /\ Ranks = 1 .. dp_size /\ num_local_gbs \in Nat
  /\ \A n \in Nat : n \div global_batch_size \in Nat /\ n \div micro_batch_size \in Nat
<1>1. dp_size \in Nat \ {0} /\ global_batch_size \in Nat \ {0} /\ micro_batch_size \in Nat \ {0}
  BY StepAssumption
<1>2. \A n \in Nat : \A k \in Nat \ {0} : n \div k \in Nat
  BY Division
<1>3. QED
  BY <1>1, <1>2 DEF Ranks, num_local_gbs

LEMMA EmptyIsListed == Listed(<<>>) /\ Len(<<>>) = 0
  BY DEF Listed

LEMMA ReceiveKeeps == StepInv /\ Receive => StepInv'
<1> SUFFICES ASSUME StepInv, Receive
             PROVE  StepInv'
  OBVIOUS
<1>1. PICK lengths \in Rollouts :
        /\ total_lengths' = Trimmed(lengths)
        /\ phase' \in {"balancing", "scheduling"}
  BY DEF Receive
<1>2. lengths \in Seq(Nat) /\ Len(lengths) \in Nat
  BY StepAssumption
<1>3. total_lengths' \in Seq(Nat)
  <2> DEFINE k == Len(lengths) \div global_batch_size
             n == k * global_batch_size
  <2>1. k \in Nat /\ global_batch_size \in Nat \ {0}
    BY <1>2, Sizes, StepAssumption
  <2>2. Len(lengths) = global_batch_size * k + (Len(lengths) % global_batch_size)
        /\ Len(lengths) % global_batch_size \in 0 .. global_batch_size - 1
    BY <1>2, <2>1, Division
  <2> HIDE DEF k
  <2>3. n \in Nat /\ n <= Len(lengths)
    BY <1>2, <2>1, <2>2
  <2>4. \A i \in 1 .. n : lengths[i] \in Nat
    BY <1>2, <2>3
  <2> HIDE DEF n
  <2>5. SubSeq(lengths, 1, n) \in Seq(Nat)
    BY <2>3, <2>4, SubSeqProperties, 1 \in Int
  <2>6. QED
    BY <1>1, <2>5 DEF Trimmed, n, k
<1>4. micro_batch_indices' = Of(<<>>) /\ options' = options
  BY DEF Receive
<1>5. PlanInv'
  <2>1. states_pq' # {} => phase' = "balancing"
    BY DEF Receive, StepInv, PlanInv, HeapInUse, balanceVars
  <2>2. micro_batch_indices' = [r \in Ranks |-> <<>>]
    BY <1>4 DEF Of
  <2>3. \A r \in Ranks : Listed(<<>>) /\ \A i \in 1 .. Len(<<>>) : Listed(<<>>[i])
    BY EmptyIsListed
  <2>4. QED
    BY <1>1, <1>3, <1>4, <2>1, <2>2, <2>3 DEF StepInv, PlanInv, HeapInUse
<1>6. phase # "computing" /\ phase' # "computing" /\ UNCHANGED <<rank, replay>> /\ routed' = {}
  BY <1>1 DEF Receive
<1>7. QED
  BY <1>5, <1>6, Quiet

LEMMA MergeNeedsTwo == Merge => states_pq # {}
BY DEF Merge, MergesOf, Popped

LEMMA BalanceKeeps == StepInv /\ Balance => StepInv'
<1> SUFFICES ASSUME StepInv, Balance
             PROVE  StepInv'
  OBVIOUS
<1>1. HeapInUse
  BY MergeNeedsTwo DEF Balance, StepInv, PlanInv
<1>2. UNCHANGED <<phase, micro_batch_indices, total_lengths, options, rank, replay, routed>>
  BY DEF Balance, data, work
<1>3. phase # "computing" /\ phase' # "computing" /\ HeapInUse'
  BY <1>1, <1>2 DEF HeapInUse, Unpacked, NextToPack, Steps
<1>4. PlanInv'
  BY <1>2, <1>3 DEF StepInv, PlanInv
<1>5. QED
  BY <1>2, <1>3, <1>4, Quiet

LEMMA DealKeeps == StepInv /\ Deal => StepInv'
<1> SUFFICES ASSUME StepInv, Deal
             PROVE  StepInv'
  OBVIOUS
<1>1. /\ UNCHANGED <<micro_batch_indices, total_lengths, options, rank, replay, routed>>
      /\ phase = "balancing" /\ phase' = "scheduling" /\ states_pq' = {}
  BY DEF Deal, Return, work
<1>2. PlanInv'
  BY <1>1 DEF StepInv, PlanInv
<1>3. QED
  BY <1>1, <1>2, Quiet

LEMMA PackKeeps == StepInv /\ Pack => StepInv'
<1> SUFFICES ASSUME StepInv, Pack
             PROVE  StepInv'
  OBVIOUS
<1>1. /\ UNCHANGED <<phase, micro_batch_indices, total_lengths, options, rank, replay, routed>>
      /\ phase = "packing" /\ Unpacked # {}
  BY DEF Pack, data, work
<1>2. HeapInUse'
  BY <1>1 DEF HeapInUse, Unpacked, NextToPack, Steps
<1>3. PlanInv'
  BY <1>1, <1>2 DEF StepInv, PlanInv
<1>4. QED
  BY <1>1, <1>3, Quiet

LEMMA ScheduleKeeps == StepInv /\ Schedule => StepInv'
<1> SUFFICES ASSUME StepInv, Schedule
             PROVE  StepInv'
  OBVIOUS
<1>1. /\ UNCHANGED <<total_lengths, options, rank, replay, routed, states_pq>>
      /\ phase = "scheduling" /\ phase' = "packing"
  BY DEF Schedule, work, balanceVars
<1>2. states_pq' = {}
  BY <1>1 DEF StepInv, PlanInv, HeapInUse
<1>3. /\ micro_batch_indices' = [r \in Ranks |-> micro_batch_indices'[r]]
      /\ DOMAIN micro_batch_indices' = Ranks
      /\ \A r \in Ranks : /\ Listed(micro_batch_indices'[r])
                         /\ \A i \in 1 .. Len(micro_batch_indices'[r]) : Listed(micro_batch_indices'[r][i])
  <2>1. CASE options.dynamic
    <3>1. micro_batch_indices' = [r \in Ranks |-> <<>>]
      BY <2>1 DEF Schedule, Of
    <3>2. \A r \in Ranks : Listed(<<>>) /\ \A i \in 1 .. Len(<<>>) : Listed(<<>>[i])
      BY EmptyIsListed
    <3>3. QED
      BY <3>1, <3>2
  <2>2. CASE ~options.dynamic
    <3> DEFINE n == Len(total_lengths) \div global_batch_size
               f == [i \in 1 .. n |-> Sliced(i)]
    <3>1. n \in Nat /\ num_local_gbs \div micro_batch_size \in Nat
      <4>1. Len(total_lengths) \in Nat
        BY DEF StepInv, PlanInv
      <4>2. QED
        BY <4>1, Sizes
    <3>2. micro_batch_indices' = [r \in Ranks |-> f]
      BY <2>2 DEF Schedule, Of, Steps
    <3> HIDE DEF n
    <3>3. Listed(f) /\ Len(f) = n
      <4>1. f = [i \in 1 .. n |-> f[i]]
        OBVIOUS
      <4> HIDE DEF f
      <4>2. QED
        BY <3>1, <4>1, ListedFcn
    <3>4. \A i \in 1 .. n : Listed(f[i])
      <4> SUFFICES ASSUME NEW i \in 1 .. n PROVE Listed(f[i])
        OBVIOUS
      <4> DEFINE g == Sliced(i)
                 k == num_local_gbs \div micro_batch_size
      <4>1. g = [j \in 1 .. k |-> g[j]] /\ f[i] = g
        BY DEF Sliced
      <4> HIDE DEF g, k, f
      <4>2. QED
        BY <3>1, <4>1, ListedFcn DEF k
    <3> HIDE DEF f
    <3>5. QED
      BY <3>2, <3>3, <3>4
  <2>3. QED
    BY <2>1, <2>2
<1>4. PlanInv'
  BY <1>1, <1>2, <1>3 DEF StepInv, PlanInv
<1>5. QED
  BY <1>1, <1>4, Quiet

LEMMA KeepKeeps == StepInv /\ IInv /\ Keep => StepInv'
<1> SUFFICES ASSUME StepInv, IInv, Keep
             PROVE  StepInv'
  OBVIOUS
<1> DEFINE q == Min(Unpacked)
<1>1. /\ UNCHANGED <<phase, total_lengths, options, rank, replay, routed>>
      /\ phase = "packing" /\ states_pq' = {}
  BY DEF Keep, Return, work
<1>2. PICK s \in states_pq :
        micro_batch_indices' = [micro_batch_indices EXCEPT ![q] = Append(@, Packed(q, s))]
  BY DEF Keep
<1>3. Listed(Packed(q, s))
  <2>1. DOMAIN s = 1 .. k_partitions /\ k_partitions \in Nat
    BY <1>2 DEF IInv, HeapInv, Good, StateOf, Acceptable
  <2> DEFINE p == Packed(q, s)
  <2>2. p = [j \in 1 .. k_partitions |-> p[j]]
    BY <2>1 DEF Packed
  <2> HIDE DEF p
  <2>3. Listed(p)
    BY <2>1, <2>2, ListedFcn
  <2>4. QED
    BY <2>3 DEF p
<1> DEFINE mbi == micro_batch_indices
           new == Append(mbi[q], Packed(q, s))
<1>4. /\ DOMAIN mbi = Ranks /\ \A r \in Ranks : Listed(mbi[r])
      /\ \A r \in Ranks : \A i \in 1 .. Len(mbi[r]) : Listed(mbi[r][i])
  BY DEF StepInv, PlanInv
<1>5. q \in Ranks => /\ Listed(new) /\ Len(new) = Len(mbi[q]) + 1 /\ Len(mbi[q]) \in Nat
                     /\ \A i \in 1 .. Len(mbi[q]) : new[i] = mbi[q][i]
                     /\ new[Len(mbi[q]) + 1] = Packed(q, s)
  BY <1>4, ListedAppend, ListedIs
<1>6. \A r \in Ranks : mbi'[r] = IF r = q THEN new ELSE mbi[r]
  BY <1>2, <1>4
<1>7. DOMAIN mbi' = Ranks /\ mbi' = [r \in Ranks |-> mbi'[r]]
  BY <1>2, <1>4
<1> HIDE DEF new, q, mbi
<1>8. ASSUME q \in Ranks, NEW i \in 1 .. Len(new) PROVE Listed(new[i])
  <2>1. i \in 1 .. Len(mbi[q]) \/ i = Len(mbi[q]) + 1
    BY <1>5, <1>8
  <2>2. QED
    BY <1>3, <1>4, <1>5, <1>8, <2>1
<1>9. \A r \in Ranks : Listed(mbi'[r]) /\ \A i \in 1 .. Len(mbi'[r]) : Listed(mbi'[r][i])
  BY <1>4, <1>5, <1>6, <1>8
<1>10. PlanInv'
  BY <1>1, <1>7, <1>9 DEF StepInv, PlanInv, mbi
<1>11. QED
  BY <1>1, <1>10, Quiet
-----------------------------------------------------------------------------
(* The passes *)

LEMMA Batched == StepInv => \A r \in Ranks : Listed(Batches(r)) /\ Len(Batches(r)) \in Nat
BY FlattenIsListed, ListedIs DEF StepInv, PlanInv, Batches

LEMMA SameContent ==
  ASSUME UNCHANGED data
  PROVE  \A r, m : Content(r, m)' = Content(r, m)
BY DEF data, Content, Samples, Batch, Batches

LEMMA Kept ==
  ASSUME StepInv, UNCHANGED <<options, phase, data, states_pq>>, phase = "computing"
  PROVE  PlanInv'
BY DEF StepInv, PlanInv, data, HeapInUse

\* The members of a recorded list are the micro-batches.
LEMMA InHistory ==
  ASSUME NEW r, NEW n \in Nat
  PROVE  /\ History(r, n).top_indices_list = [m \in 1 .. n |-> Content(r, m)]
         /\ Len(History(r, n).top_indices_list) = n
         /\ \A m \in 1 .. n : History(r, n).top_indices_list[m] = Content(r, m)
         /\ History(r, n).forward_index = Read(r) /\ History(r, n).backward_index = ReadBack(r)
<1> DEFINE f == [m \in 1 .. n |-> Content(r, m)]
<1>1. f = [m \in 1 .. n |-> f[m]] /\ \A m \in 1 .. n : f[m] = Content(r, m)
  OBVIOUS
<1>2. History(r, n).top_indices_list = f
  BY DEF History
<1>3. Len(f) = n
  <2> HIDE DEF f
  <2>1. QED
    BY <1>1, ListedFcn
<1>4. History(r, n).forward_index = Read(r) /\ History(r, n).backward_index = ReadBack(r)
  BY DEF History
<1>5. QED
  BY <1>1, <1>2, <1>3, <1>4

LEMMA StatesOf ==
  ASSUME NEW x \in States
  PROVE  /\ x.step \in Nat /\ x.forwards \in Nat /\ x.backwards \in Nat /\ x.offset \in Nat
         /\ x.pass \in {"none", "ref", "log_probs", "train"}
BY DEF States

LEMMA Entered ==
  ASSUME NEW pass \in {"ref", "log_probs", "train"}
  PROVE  /\ Entering(pass) \in States /\ Entering(pass).pass = pass
         /\ Entering(pass).stage = StageOf(pass) /\ Entering(pass).offset = 0
         /\ Entering(pass).forwards = 0 /\ Entering(pass).backwards = 0
<1>1. StageOf(pass) \in {"fallthrough", "record", "replay_forward", "replay_backward"}
  BY DEF StageOf
<1>2. QED
  BY <1>1 DEF Entering, Resting, States

LEMMA BeginKeeps == StepInv /\ Begin => StepInv'
<1> SUFFICES ASSUME StepInv, Begin
             PROVE  StepInv'
  OBVIOUS
<1>1. /\ UNCHANGED <<options, states_pq, routed, data>>
      /\ phase = "packing" /\ Unpacked = {} /\ phase' = "computing"
  BY DEF Begin, balanceVars
<1>2. options \in Options /\ (options.replay = "train" => options.log_probs)
  BY StepAssumption DEF StepInv, PlanInv
<1>3. PlanInv'
  BY <1>1 DEF StepInv, PlanInv, HeapInUse, data
<1> DEFINE p == FirstPass
<1>4. p \in {"ref", "log_probs", "train"} /\ (options.replay = "train" => p # "train")
  BY <1>2 DEF FirstPass
<1>5. rank' = [r \in Ranks |-> Entering(p)]
  BY DEF Begin, Of
<1> HIDE DEF p
<1>6. \A r \in Ranks : rank'[r] = Entering(p)
  BY <1>5
<1>8. \A r \in Ranks : StageOf(rank[r].pass)' = StageOf(p)
  BY <1>1, <1>4, <1>6, Entered DEF StageOf, UsesR3
<1>9. RankInv'
  <2>1. rank' \in [Ranks -> States]
    BY <1>4, <1>5, Entered
  <2>2. \A r \in Ranks :
          /\ rank'[r].pass # "none" /\ rank'[r].stage = StageOf(p)
          /\ rank'[r].backwards <= rank'[r].forwards /\ rank'[r].forwards <= rank'[r].offset
    BY <1>4, <1>6, Entered
  <2>3. QED
    BY <1>1, <1>8, <2>1, <2>2 DEF RankInv
<1>10. ReplayInv'
  <2>1. replay = [r \in Ranks |-> NoReplay]
    BY <1>1 DEF StepInv, ReplayInv, Of
  <2>2. replay' = [r \in Ranks |-> Filled(NoReplay, [m \in DOMAIN Batches(r) |-> Content(r, m)])]
    <3>1. \A r \in Ranks : replay[r] = NoReplay
      BY <2>1
    <3>2. \A r \in Ranks : [m \in DOMAIN Batches(r) |-> Content(r, m)]
                             = [m \in DOMAIN Batches(r) |-> Samples(r, Batches(r)[m])]
      BY DEF Content, Batch
    <3>3. QED
      BY <3>1, <3>2 DEF Begin
  <2>3. CASE options.replay # "rollout"
    <3>1. replay' = [r \in Ranks |-> NoReplay]
      BY <2>2, <2>3 DEF Filled, UsesR3
    <3>2. \A r \in Ranks : NoReplay = History(r, 0)'
      <4>1. \A r \in Ranks : Read(r)' = 0 /\ ReadBack(r)' = 0
        BY <1>4, <1>6, Entered DEF Read, ReadBack
      <4>2. \A r \in Ranks : [m \in 1 .. 0 |-> Content(r, m)'] = <<>>
        OBVIOUS
      <4>3. QED
        BY <4>1, <4>2 DEF History, NoReplay
    <3>3. \A r \in Ranks : rank'[r].offset = 0
      BY <1>4, <1>6, Entered
    <3>4. replay' = [r \in Ranks |-> replay'[r]] /\ \A r \in Ranks : replay'[r] = NoReplay
      BY <3>1
    <3>5. Of(NoReplay)' = [r \in Ranks |-> NoReplay]
      BY DEF Of, NoReplay
    <3>6. ASSUME NEW r \in Ranks
          PROVE  \E n \in Nat :
            /\ replay'[r] = History(r, n)'
            /\ options.replay = "train" /\ rank'[r].pass = "ref" => n = 0
            /\ options.replay = "train" /\ rank'[r].pass = "log_probs" => n = rank'[r].offset
      <4>1. 0 \in Nat /\ replay'[r] = History(r, 0)'
        BY <3>2, <3>4
      <4>2. QED
        BY <3>3, <4>1
    <3>7. QED
      BY <1>1, <3>1, <3>4, <3>5, <3>6 DEF ReplayInv
  <2>4. CASE options.replay = "rollout"
    <3>1. replay' = [r \in Ranks |->
             [NoReplay EXCEPT !.top_indices_list = @ \o [m \in DOMAIN Batches(r) |-> Content(r, m)]]]
      BY <2>2, <2>4 DEF Filled, UsesR3
    <3>2. ASSUME NEW r \in Ranks
          PROVE  \E n \in Nat : replay'[r] = History(r, n)'
      <4>1. PICK n \in Nat : n = Len(Batches(r)) /\ DOMAIN Batches(r) = 1 .. n
        BY Batched, ListedIs
      <4> DEFINE f == [m \in 1 .. n |-> Content(r, m)]
      <4>2. f = [m \in 1 .. n |-> f[m]]
        OBVIOUS
      <4>3. replay'[r] = [NoReplay EXCEPT !.top_indices_list = <<>> \o f]
        BY <3>1, <4>1 DEF NoReplay
      <4>4. f = [m \in 1 .. n |-> Content(r, m)']
        BY <1>1, SameContent
      <4>5. <<>> \o f = f
        <5> HIDE DEF f
        <5>1. Listed(f)
          BY <4>2, ListedFcn
        <5>2. PICK S : f \in Seq(S)
          BY <5>1 DEF Listed
        <5>3. QED
          BY <5>2, ConcatEmptySeq
      <4> HIDE DEF f
      <4>6. replay'[r] = [top_indices_list |-> f, forward_index |-> 0, backward_index |-> 0]
        BY <4>3, <4>5 DEF NoReplay
      <4>7. Read(r)' = 0 /\ ReadBack(r)' = 0
        BY <1>4, <1>6, Entered DEF Read, ReadBack
      <4>8. replay'[r] = History(r, n)'
        BY <4>4, <4>6, <4>7 DEF History
      <4>9. QED
        BY <4>8
    <3>3. replay' = [r \in Ranks |-> replay'[r]]
      BY <3>1
    <3>4. QED
      BY <1>1, <2>4, <3>2, <3>3 DEF ReplayInv
  <2>5. QED
    BY <2>3, <2>4
<1>11. ReplayedIsItsOwn'
  BY <1>1 DEF StepInv, ReplayedIsItsOwn
<1>12. QED
  BY <1>3, <1>9, <1>10, <1>11 DEF StepInv

LEMMA HistoryOf ==
  ASSUME UNCHANGED data, NEW r, NEW n \in Nat
  PROVE  History(r, n)' = [top_indices_list |-> History(r, n).top_indices_list,
                           forward_index |-> Read(r)', backward_index |-> ReadBack(r)']
<1>1. \A m : Content(r, m)' = Content(r, m)
  BY SameContent
<1>2. QED
  BY <1>1 DEF History

LEMMA Options3 ==
  ASSUME StepInv
  PROVE  /\ options.replay \in {"none", "train", "rollout"} /\ options \in Options
         /\ UsesR3 <=> options.replay = "rollout"
         /\ options.replay = "train" => options.log_probs
BY StepAssumption DEF StepInv, PlanInv, UsesR3

\* What one micro-batch of one rank leaves in its replay, in a forward.
LEMMA ForwardOfOne ==
  ASSUME StepInv, phase = "computing", UNCHANGED <<options, data>>, options.replay # "none",
         NEW r \in Ranks, CanForward(r),
         rank'[r] = [rank[r] EXCEPT !.forwards = @ + 1, !.offset = @ + 1, !.stage = StageRestored(@)],
         replay'[r] = Routed(replay[r], ForwardStage(r), Content(r, rank[r].offset + 1))
  PROVE  /\ \E n \in Nat :
              /\ replay'[r] = History(r, n)'
              /\ options.replay = "train" /\ rank'[r].pass = "ref" => n = 0
              /\ options.replay = "train" /\ rank'[r].pass = "log_probs" => n = rank'[r].offset
         /\ \A ir \in Replays(replay[r], ForwardStage(r), Content(r, rank[r].offset + 1)) :
              ir[1] = ir[2]
<1>1. PICK n \in Nat :
        /\ replay[r] = History(r, n)
        /\ options.replay = "train" /\ rank[r].pass = "ref" => n = 0
        /\ options.replay = "train" /\ rank[r].pass = "log_probs" => n = rank[r].offset
  BY DEF StepInv, ReplayInv
<1>2. rank[r] \in States /\ rank[r].stage = StageOf(rank[r].pass)
      /\ rank[r].pass \in {"ref", "log_probs", "train"}
      /\ rank[r].forwards \in Nat /\ rank[r].backwards \in Nat /\ rank[r].offset \in Nat
  BY DEF StepInv, RankInv, States
<1>3. /\ rank'[r].pass = rank[r].pass /\ rank'[r].offset = rank[r].offset + 1
      /\ rank'[r].forwards = rank[r].forwards + 1 /\ rank'[r].backwards = rank[r].backwards
  BY <1>2 DEF States
<1>4. UsesR3' = UsesR3 /\ options.replay \in {"train", "rollout"}
      /\ (UsesR3 <=> options.replay = "rollout")
  BY Options3 DEF UsesR3
<1>5. CanPop(replay[r], ForwardStage(r))
  BY DEF CanForward, CanRoute
<1>6. /\ replay[r].top_indices_list = [m \in 1 .. n |-> Content(r, m)]
      /\ Len(replay[r].top_indices_list) = n
      /\ \A m \in 1 .. n : replay[r].top_indices_list[m] = Content(r, m)
      /\ replay[r].forward_index = Read(r)
  BY <1>1, InHistory
<1>7. replay[r] = [top_indices_list |-> History(r, n).top_indices_list,
                   forward_index |-> Read(r), backward_index |-> ReadBack(r)]
  BY <1>1 DEF History
<1>8. ReadBack(r)' = ReadBack(r)
  <2>1. CASE rank[r].pass = "train"
    <3>1. rank'[r].offset - rank'[r].forwards = rank[r].offset - rank[r].forwards
      BY <1>2, <1>3
    <3>2. QED
      BY <1>3, <2>1, <3>1 DEF ReadBack
  <2>2. CASE rank[r].pass # "train"
    BY <1>3, <2>2 DEF ReadBack
  <2>3. QED
    BY <2>1, <2>2
<1>9. CASE ForwardStage(r) = "fallthrough"
  <2>1. rank[r].pass = "ref"
    BY <1>2, <1>9 DEF ForwardStage, StageOf
  <2>2. Read(r) = 0 /\ Read(r)' = 0
    BY <1>3, <2>1 DEF Read
  <2>3. replay'[r] = replay[r]
    BY <1>9 DEF Routed
  <2>4. replay'[r] = History(r, n)'
    BY <1>7, <1>8, <2>2, <2>3, HistoryOf
  <2>5. Replays(replay[r], ForwardStage(r), Content(r, rank[r].offset + 1)) = {}
    BY <1>9 DEF Replays
  <2>6. QED
    BY <1>1, <1>3, <2>1, <2>4, <2>5
<1>10. CASE ForwardStage(r) = "record"
  <2>1. rank[r].pass = "log_probs" /\ options.replay = "train" /\ ~UsesR3
    BY <1>2, <1>4, <1>10 DEF ForwardStage, StageOf
  <2>2. n = rank[r].offset
    BY <1>1, <2>1
  <2>3. Read(r) = 0 /\ Read(r)' = 0
    BY <1>3, <1>4, <2>1 DEF Read
  <2>4. replay'[r] = [replay[r] EXCEPT !.top_indices_list = Append(@, Content(r, n + 1))]
    BY <1>10, <2>2 DEF Routed, Recorded
  <2> DEFINE f == [m \in 1 .. n + 1 |-> Content(r, m)]
  <2>5. Append([m \in 1 .. n |-> Content(r, m)], Content(r, n + 1))
          = [m \in 1 .. n + 1 |-> Content(r, m)]
    <3>1. [m \in 1 .. n |-> f[m]] = [m \in 1 .. n |-> Content(r, m)]
      OBVIOUS
    <3>2. f[n + 1] = Content(r, n + 1) /\ f = [m \in 1 .. n + 1 |-> f[m]]
      OBVIOUS
    <3>3. Append([m \in 1 .. n |-> f[m]], f[n + 1]) = [m \in 1 .. n + 1 |-> f[m]]
      <4> HIDE DEF f
      <4>1. QED
        BY OneMore
    <3>4. QED
      BY <3>1, <3>2, <3>3
  <2>6. replay'[r] = [top_indices_list |-> [m \in 1 .. n + 1 |-> Content(r, m)],
                      forward_index |-> 0, backward_index |-> ReadBack(r)]
    <3> DEFINE old == [m \in 1 .. n |-> Content(r, m)]
    <3>1. replay[r] = [top_indices_list |-> old, forward_index |-> 0,
                       backward_index |-> ReadBack(r)]
      <4>1. History(r, n).top_indices_list = old
        BY InHistory
      <4> HIDE DEF old
      <4>2. QED
        BY <1>7, <2>3, <4>1
    <3>2. Append(old, Content(r, n + 1)) = [m \in 1 .. n + 1 |-> Content(r, m)]
      BY <2>5
    <3> HIDE DEF old
    <3>3. replay'[r] = [top_indices_list |-> Append(old, Content(r, n + 1)),
                        forward_index |-> 0, backward_index |-> ReadBack(r)]
      BY <2>4, <3>1
    <3>4. QED
      BY <3>2, <3>3
  <2>7. n + 1 \in Nat /\ History(r, n + 1).top_indices_list = [m \in 1 .. n + 1 |-> Content(r, m)]
    BY DEF History
  <2>8. replay'[r] = History(r, n + 1)'
    <3>1. History(r, n + 1)' = [top_indices_list |-> History(r, n + 1).top_indices_list,
                                forward_index |-> Read(r)', backward_index |-> ReadBack(r)']
      BY <2>7, HistoryOf
    <3>2. QED
      BY <1>8, <2>3, <2>6, <2>7, <3>1
  <2>9. Replays(replay[r], ForwardStage(r), Content(r, rank[r].offset + 1)) = {}
    BY <1>10 DEF Replays
  <2>10. QED
    BY <1>3, <2>1, <2>2, <2>7, <2>8, <2>9
<1>11. CASE ForwardStage(r) = "replay_forward"
  <2>1. rank[r].pass = "train" \/ (rank[r].pass = "log_probs" /\ UsesR3)
    BY <1>2, <1>11 DEF ForwardStage, StageOf
  <2>2. Read(r) = rank[r].offset /\ Read(r)' = rank[r].offset + 1
    BY <1>3, <1>4, <2>1 DEF Read
  <2>3. replay'[r] = [replay[r] EXCEPT !.forward_index = @ + 1]
    BY <1>11 DEF Routed, Popped_forward
  <2>4. replay'[r] = [top_indices_list |-> History(r, n).top_indices_list,
                      forward_index |-> rank[r].offset + 1, backward_index |-> ReadBack(r)]
    BY <1>7, <2>2, <2>3
  <2>5. replay'[r] = History(r, n)'
    BY <1>8, <2>2, <2>4, HistoryOf
  <2>6. rank[r].offset < n
    BY <1>5, <1>6, <1>11, <2>2 DEF CanPop
  <2>7. rank[r].offset + 1 \in 1 .. n
    BY <1>2, <2>6
  <2>8. Replays(replay[r], ForwardStage(r), Content(r, rank[r].offset + 1))
          = {<<Content(r, rank[r].offset + 1), replay[r].top_indices_list[rank[r].offset + 1]>>}
    BY <1>6, <1>11, <2>2 DEF Replays
  <2>9. replay[r].top_indices_list[rank[r].offset + 1] = Content(r, rank[r].offset + 1)
    BY <1>6, <2>7
  <2>10. QED
    BY <1>3, <1>4, <2>1, <2>5, <2>8, <2>9
<1>12. QED
  <2>1. ForwardStage(r) \in {"fallthrough", "record", "replay_forward"}
    BY <1>2 DEF ForwardStage, StageOf
  <2>2. QED
    BY <1>9, <1>10, <1>11, <2>1

\* A step of all ranks in which each leaves its replay as it should.
LEMMA AllReplay ==
  ASSUME ReplayInv, UNCHANGED <<options, phase, data>>, phase = "computing",
         options.replay = "none" => replay' = replay,
         replay' = [r \in Ranks |-> replay'[r]],
         options.replay # "none" => \A r \in Ranks : \E n \in Nat :
           /\ replay'[r] = History(r, n)'
           /\ options.replay = "train" /\ rank'[r].pass = "ref" => n = 0
           /\ options.replay = "train" /\ rank'[r].pass = "log_probs" => n = rank'[r].offset
  PROVE  ReplayInv'
<1>1. CASE options.replay = "none"
  <2>1. Of(NoReplay)' = Of(NoReplay)
    BY DEF Of, NoReplay
  <2>2. QED
    BY <1>1, <2>1 DEF ReplayInv
<1>2. CASE options.replay # "none"
  BY <1>2 DEF ReplayInv
<1>3. QED
  BY <1>1, <1>2

LEMMA ForwardKeeps == StepInv /\ Forward => StepInv'
<1> SUFFICES ASSUME StepInv, Forward
             PROVE  StepInv'
  OBVIOUS
<1>1. /\ UNCHANGED <<options, phase, data, states_pq>> /\ phase = "computing"
      /\ \A r \in Ranks : CanForward(r)
  BY DEF Forward, balanceVars
<1>2. rank' = [r \in Ranks |-> [rank[r] EXCEPT !.forwards = @ + 1, !.offset = @ + 1,
                                              !.stage = StageRestored(@)]]
  BY DEF Forward
<1>3. replay' = [r \in Ranks |->
                  Routed(replay[r], ForwardStage(r), Content(r, rank[r].offset + 1))]
  BY DEF Forward, Content
<1>4. routed' = routed \cup UNION {Replays(replay[r], ForwardStage(r),
                                          Content(r, rank[r].offset + 1)) : r \in Ranks}
  BY DEF Forward, Content
<1>5. rank \in [Ranks -> States] /\ \A r \in Ranks :
        /\ rank[r] \in States /\ rank[r].stage = StageOf(rank[r].pass) /\ rank[r].pass # "none"
        /\ rank[r].backwards <= rank[r].forwards /\ rank[r].forwards <= rank[r].offset
  BY <1>1 DEF StepInv, RankInv
<1>6. PlanInv'
  BY <1>1, Kept
<1>7. RankInv'
  <2>1. \A r \in Ranks : rank'[r] = [rank[r] EXCEPT !.forwards = @ + 1, !.offset = @ + 1]
    BY <1>2, <1>5 DEF StageRestored, States
  <2>2. \A r \in Ranks : rank'[r] \in States
    <3> SUFFICES ASSUME NEW r \in Ranks PROVE rank'[r] \in States
      OBVIOUS
    <3>1. rank[r] \in States /\ rank[r].forwards + 1 \in Nat /\ rank[r].offset + 1 \in Nat
      BY <1>5, StatesOf
    <3>2. QED
      BY <2>1, <3>1 DEF States
  <2>3. rank' \in [Ranks -> States]
    BY <1>2, <2>2
  <2>4. \A r \in Ranks : rank'[r].pass = rank[r].pass /\ rank'[r].stage = rank[r].stage
                         /\ rank'[r].forwards = rank[r].forwards + 1
                         /\ rank'[r].backwards = rank[r].backwards
                         /\ rank'[r].offset = rank[r].offset + 1
    BY <1>5, <2>1 DEF States
  <2>5. \A r \in Ranks : StageOf(rank[r].pass)' = StageOf(rank[r].pass)
    BY <1>1, <2>4 DEF StageOf, UsesR3
  <2>6. \A r \in Ranks : rank'[r].backwards <= rank'[r].forwards
                         /\ rank'[r].forwards <= rank'[r].offset
    <3> SUFFICES ASSUME NEW r \in Ranks
                 PROVE  rank'[r].backwards <= rank'[r].forwards /\ rank'[r].forwards <= rank'[r].offset
      OBVIOUS
    <3>1. rank[r].forwards \in Nat /\ rank[r].backwards \in Nat /\ rank[r].offset \in Nat
      BY <1>5, StatesOf
    <3>2. QED
      BY <1>5, <2>4, <3>1
  <2>7. QED
    BY <1>1, <1>5, <2>3, <2>4, <2>5, <2>6 DEF RankInv
<1>8. ReplayInv'
  <2>1. replay' = [r \in Ranks |-> replay'[r]]
    BY <1>3
  <2>2. ASSUME options.replay = "none" PROVE replay' = replay
    <3>1. replay = [r \in Ranks |-> NoReplay]
      BY <2>2 DEF StepInv, ReplayInv, Of
    <3>2. replay' = [r \in Ranks |-> replay[r]]
      BY <1>3, <2>2 DEF Routed
    <3>3. QED
      BY <3>1, <3>2
  <2>3. ASSUME options.replay # "none"
        PROVE  \A r \in Ranks : \E n \in Nat :
           /\ replay'[r] = History(r, n)'
           /\ options.replay = "train" /\ rank'[r].pass = "ref" => n = 0
           /\ options.replay = "train" /\ rank'[r].pass = "log_probs" => n = rank'[r].offset
    BY <1>1, <1>2, <1>3, <2>3, ForwardOfOne
  <2>4. QED
    BY <1>1, <2>1, <2>2, <2>3, AllReplay DEF StepInv
<1>9. ReplayedIsItsOwn'
  <2>1. CASE options.replay = "none"
    <3>1. \A r \in Ranks : Replays(replay[r], ForwardStage(r), Content(r, rank[r].offset + 1)) = {}
      BY <2>1 DEF Replays
    <3>2. QED
      BY <1>4, <3>1 DEF StepInv, ReplayedIsItsOwn
  <2>2. CASE options.replay # "none"
    <3>1. \A r \in Ranks :
            \A ir \in Replays(replay[r], ForwardStage(r), Content(r, rank[r].offset + 1)) : ir[1] = ir[2]
      BY <1>1, <1>2, <1>3, <2>2, ForwardOfOne
    <3>2. QED
      BY <1>4, <3>1 DEF StepInv, ReplayedIsItsOwn
  <2>3. QED
    BY <2>1, <2>2
<1>10. QED
  BY <1>6, <1>7, <1>8, <1>9 DEF StepInv

\* The same in a backward, of the oldest micro-batch in flight.
LEMMA BackwardOfOne ==
  ASSUME StepInv, phase = "computing", UNCHANGED <<options, data>>, options.replay # "none",
         NEW r \in Ranks, CanBackward(r), NEW k, k = ReadBack(r) + 1,
         rank'[r] = [rank[r] EXCEPT !.backwards = @ + 1],
         replay'[r] = Routed(replay[r], rank[r].stage, Content(r, k))
  PROVE  /\ \E n \in Nat : replay'[r] = History(r, n)'
         /\ rank'[r].pass = "train"
         /\ \A ir \in Replays(replay[r], rank[r].stage, Content(r, k)) : ir[1] = ir[2]
<1>1. PICK n \in Nat : replay[r] = History(r, n)
  BY DEF StepInv, ReplayInv
<1>2. /\ rank[r] \in States /\ rank[r].pass = "train" /\ rank[r].stage = "replay_backward"
      /\ rank[r].forwards \in Nat /\ rank[r].backwards \in Nat /\ rank[r].offset \in Nat
      /\ rank[r].forwards <= rank[r].offset
  <2>1. rank[r] \in States /\ rank[r].pass = "train" /\ rank[r].stage = StageOf(rank[r].pass)
        /\ rank[r].forwards <= rank[r].offset
    BY DEF StepInv, RankInv, CanBackward
  <2>2. StageOf("train") = "replay_backward"
    BY DEF StageOf
  <2>3. QED
    BY <2>1, <2>2, StatesOf
<1>3. /\ rank'[r].pass = "train" /\ rank'[r].offset = rank[r].offset
      /\ rank'[r].forwards = rank[r].forwards /\ rank'[r].backwards = rank[r].backwards + 1
  BY <1>2 DEF States
<1>4. UsesR3' = UsesR3
  BY DEF UsesR3
<1>5. Read(r)' = Read(r) /\ ReadBack(r)' = k /\ ReadBack(r) \in Nat
  <2>1. ReadBack(r) = rank[r].offset - rank[r].forwards + rank[r].backwards
    BY <1>2 DEF ReadBack
  <2>2. ReadBack(r)' = rank[r].offset - rank[r].forwards + (rank[r].backwards + 1)
    BY <1>3 DEF ReadBack
  <2>3. Read(r)' = Read(r)
    BY <1>2, <1>3, <1>4 DEF Read
  <2>4. QED
    BY <1>2, <2>1, <2>2, <2>3
<1>6. CanPop(replay[r], "replay_backward")
  BY <1>2 DEF CanBackward, CanRoute
<1>7. /\ replay[r].top_indices_list = [m \in 1 .. n |-> Content(r, m)]
      /\ Len(replay[r].top_indices_list) = n
      /\ \A m \in 1 .. n : replay[r].top_indices_list[m] = Content(r, m)
      /\ replay[r].backward_index = ReadBack(r)
  BY <1>1, InHistory
<1>8. replay[r] = [top_indices_list |-> History(r, n).top_indices_list,
                   forward_index |-> Read(r), backward_index |-> ReadBack(r)]
  BY <1>1 DEF History
<1>9. replay'[r] = [replay[r] EXCEPT !.backward_index = @ + 1]
  BY <1>2 DEF Routed, Popped_backward
<1>10. replay'[r] = [top_indices_list |-> History(r, n).top_indices_list,
                     forward_index |-> Read(r), backward_index |-> k]
  BY <1>8, <1>9
<1>11. replay'[r] = History(r, n)'
  BY <1>5, <1>10, HistoryOf
<1>12. k \in 1 .. n
  <2>1. ReadBack(r) < n
    BY <1>6, <1>7 DEF CanPop
  <2>2. QED
    BY <1>5, <2>1
<1>13. Replays(replay[r], rank[r].stage, Content(r, k))
         = {<<Content(r, k), replay[r].top_indices_list[k]>>}
  BY <1>2, <1>7 DEF Replays
<1>14. QED
  BY <1>3, <1>7, <1>11, <1>12, <1>13

LEMMA BackwardKeeps == StepInv /\ Backward => StepInv'
<1> SUFFICES ASSUME StepInv, Backward
             PROVE  StepInv'
  OBVIOUS
<1>1. /\ UNCHANGED <<options, phase, data, states_pq>> /\ phase = "computing"
      /\ \A r \in Ranks : CanBackward(r)
  BY DEF Backward, balanceVars
<1>2. rank' = [r \in Ranks |-> [rank[r] EXCEPT !.backwards = @ + 1]]
  BY DEF Backward
<1>3. \A r \in Ranks : /\ rank[r] \in States /\ rank[r].pass = "train"
                       /\ rank[r].forwards \in Nat /\ rank[r].backwards \in Nat
                       /\ rank[r].offset \in Nat
                       /\ rank[r].backwards < rank[r].forwards /\ rank[r].forwards <= rank[r].offset
                       /\ rank[r].stage = StageOf(rank[r].pass)
  BY <1>1, StatesOf DEF StepInv, RankInv, CanBackward
<1>4. \A r \in Ranks : ReadBack(r) + 1 = rank[r].offset - rank[r].forwards + rank[r].backwards + 1
  BY <1>3 DEF ReadBack
<1>5. replay' = [r \in Ranks |-> Routed(replay[r], rank[r].stage, Content(r, ReadBack(r) + 1))]
  BY <1>4 DEF Backward, Content
<1>6. routed' = routed \cup UNION {Replays(replay[r], rank[r].stage, Content(r, ReadBack(r) + 1))
                                     : r \in Ranks}
  BY <1>4 DEF Backward, Content
<1>7. PlanInv'
  BY <1>1, Kept
<1>8. RankInv'
  <2>1. \A r \in Ranks : rank'[r] \in States
    <3> SUFFICES ASSUME NEW r \in Ranks PROVE rank'[r] \in States
      OBVIOUS
    <3>1. rank[r] \in States /\ rank[r].backwards + 1 \in Nat
      BY <1>3
    <3>2. rank'[r] = [rank[r] EXCEPT !.backwards = @ + 1]
      BY <1>2
    <3>3. QED
      BY <3>1, <3>2 DEF States
  <2>2. rank' \in [Ranks -> States]
    BY <1>2, <2>1
  <2>3. \A r \in Ranks : rank'[r].pass = rank[r].pass /\ rank'[r].stage = rank[r].stage
                         /\ rank'[r].forwards = rank[r].forwards
                         /\ rank'[r].backwards = rank[r].backwards + 1
                         /\ rank'[r].offset = rank[r].offset
    BY <1>2, <1>3 DEF States
  <2>4. \A r \in Ranks : StageOf(rank[r].pass)' = StageOf(rank[r].pass)
    BY <1>1, <2>3 DEF StageOf, UsesR3
  <2>5. \A r \in Ranks : rank'[r].backwards <= rank'[r].forwards
                         /\ rank'[r].forwards <= rank'[r].offset
    BY <1>3, <2>3
  <2>6. QED
    BY <1>1, <1>3, <2>2, <2>3, <2>4, <2>5 DEF RankInv
<1>9. ReplayInv'
  <2>1. replay' = [r \in Ranks |-> replay'[r]]
    BY <1>5
  <2>2. ASSUME options.replay = "none" PROVE replay' = replay
    <3>1. replay = [r \in Ranks |-> NoReplay]
      BY <2>2 DEF StepInv, ReplayInv, Of
    <3>2. replay' = [r \in Ranks |-> replay[r]]
      BY <1>5, <2>2 DEF Routed
    <3>3. QED
      BY <3>1, <3>2
  <2>3. ASSUME options.replay # "none"
        PROVE  \A r \in Ranks : \E n \in Nat :
           /\ replay'[r] = History(r, n)'
           /\ options.replay = "train" /\ rank'[r].pass = "ref" => n = 0
           /\ options.replay = "train" /\ rank'[r].pass = "log_probs" => n = rank'[r].offset
    <3> SUFFICES ASSUME NEW r \in Ranks
                 PROVE  rank'[r].pass = "train" /\ \E n \in Nat : replay'[r] = History(r, n)'
      OBVIOUS
    <3>1. QED
      BY <1>1, <1>2, <1>5, <2>3, BackwardOfOne
  <2>4. QED
    BY <1>1, <2>1, <2>2, <2>3, AllReplay DEF StepInv
<1>10. ReplayedIsItsOwn'
  <2>1. CASE options.replay = "none"
    <3>1. \A r \in Ranks : Replays(replay[r], rank[r].stage, Content(r, ReadBack(r) + 1)) = {}
      BY <2>1 DEF Replays
    <3>2. QED
      BY <1>6, <3>1 DEF StepInv, ReplayedIsItsOwn
  <2>2. CASE options.replay # "none"
    <3>1. \A r \in Ranks :
            \A ir \in Replays(replay[r], rank[r].stage, Content(r, ReadBack(r) + 1)) : ir[1] = ir[2]
      BY <1>1, <1>2, <1>5, <2>2, BackwardOfOne
    <3>2. QED
      BY <1>6, <3>1 DEF StepInv, ReplayedIsItsOwn
  <2>3. QED
    BY <2>1, <2>2
<1>11. QED
  BY <1>7, <1>8, <1>9, <1>10 DEF StepInv

\* A rank that comes to the end of a step or of a pass.
LEMMA EndForwardOnlyKeeps == \A r \in Ranks : StepInv /\ EndForwardOnly(r) => StepInv'
<1> SUFFICES ASSUME NEW r \in Ranks, StepInv, EndForwardOnly(r)
             PROVE  StepInv'
  OBVIOUS
<1>1. /\ UNCHANGED <<options, phase, data, states_pq, routed>> /\ phase = "computing"
      /\ rank[r].pass \in {"ref", "log_probs"}
  BY DEF EndForwardOnly, balanceVars
<1>2. PlanInv'
  BY <1>1, Kept
<1>3. rank \in [Ranks -> States] /\ \A q \in Ranks :
        /\ rank[q] \in States /\ rank[q].stage = StageOf(rank[q].pass) /\ rank[q].pass # "none"
        /\ rank[q].backwards <= rank[q].forwards /\ rank[q].forwards <= rank[q].offset
        /\ rank[q].step \in Nat /\ rank[q].forwards \in Nat /\ rank[q].offset \in Nat
  BY <1>1, StatesOf DEF StepInv, RankInv
<1> DEFINE new == IF LastStep(r) THEN Entering(After(rank[r].pass)) ELSE NextStep(r)
<1>4. rank' = [rank EXCEPT ![r] = new]
  BY DEF EndForwardOnly
<1>5. After(rank[r].pass) \in {"log_probs", "train"}
      /\ (rank[r].pass = "log_probs" => After(rank[r].pass) = "train")
      /\ (options.replay = "train" /\ rank[r].pass = "ref" => After(rank[r].pass) = "log_probs")
  BY <1>1, Options3 DEF After
<1>6. /\ new \in States /\ new.stage = StageOf(new.pass)
      /\ new.forwards = 0 /\ new.backwards = 0 /\ new.offset \in Nat
      /\ LastStep(r) => new.pass = After(rank[r].pass) /\ new.offset = 0
      /\ ~LastStep(r) => new.pass = rank[r].pass /\ new.offset = rank[r].offset
  <2>1. CASE LastStep(r)
    <3>1. new = Entering(After(rank[r].pass))
      BY <2>1
    <3> HIDE DEF new
    <3>2. QED
      BY <1>5, <2>1, <3>1, Entered
  <2>2. CASE ~LastStep(r)
    <3>1. new = [rank[r] EXCEPT !.step = @ + 1, !.forwards = 0, !.backwards = 0]
      BY <2>2 DEF NextStep
    <3> HIDE DEF new
    <3>2. new \in States
      <4>1. rank[r] \in States /\ rank[r].step + 1 \in Nat /\ 0 \in Nat
        BY <1>3
      <4>2. QED
        BY <3>1, <4>1 DEF States
    <3>3. new.stage = rank[r].stage /\ new.pass = rank[r].pass /\ new.offset = rank[r].offset
          /\ new.forwards = 0 /\ new.backwards = 0
      BY <1>3, <3>1 DEF States
    <3>4. QED
      BY <1>3, <2>2, <3>2, <3>3
  <2>3. QED
    BY <2>1, <2>2
<1> HIDE DEF new
<1>7. \A q \in Ranks : rank'[q] = IF q = r THEN new ELSE rank[q]
  BY <1>3, <1>4
<1>8. new.pass # "none"
  BY <1>1, <1>5, <1>6
<1>9. RankInv'
  <2>1. rank' \in [Ranks -> States]
    BY <1>3, <1>4, <1>6
  <2>2. \A q \in Ranks : rank'[q].pass # "none"
                         /\ rank'[q].backwards <= rank'[q].forwards
                         /\ rank'[q].forwards <= rank'[q].offset
    BY <1>3, <1>6, <1>7, <1>8
  <2>3. \A q \in Ranks : rank'[q].stage = StageOf(rank'[q].pass)
    BY <1>3, <1>6, <1>7
  <2>4. \A q \in Ranks : StageOf(rank'[q].pass) = StageOf(rank[q].pass)'
    BY <1>1 DEF StageOf, UsesR3
  <2>5. QED
    BY <1>1, <2>1, <2>2, <2>3, <2>4 DEF RankInv
<1>10. UsesR3' = UsesR3
  BY <1>1 DEF UsesR3
<1>11. replay' = IF LastStep(r) /\ rank[r].pass = "log_probs"
                 THEN [replay EXCEPT ![r] = ClearedForward(@)] ELSE replay
  BY <1>1 DEF EndForwardOnly
<1>12. ReplayInv'
  <2>1. replay = [q \in Ranks |-> replay[q]]
    <3>1. CASE options.replay = "none"
      <4>1. replay = [q \in Ranks |-> NoReplay]
        BY <3>1 DEF StepInv, ReplayInv, Of
      <4>2. QED
        BY <4>1
    <3>2. CASE options.replay # "none"
      BY <1>1, <3>2 DEF StepInv, ReplayInv
    <3>3. QED
      BY <3>1, <3>2
  <2>2. replay' = [q \in Ranks |-> replay'[q]]
    BY <1>11, <2>1
  <2>3. \A q \in Ranks \ {r} : replay'[q] = replay[q]
    BY <1>11, <2>1
  <2>4. ASSUME options.replay = "none" PROVE replay' = replay
    <3>1. ~UsesR3
      BY <2>4, Options3
    <3>2. [replay EXCEPT ![r] = replay[r]] = replay
      BY <2>1
    <3>3. QED
      BY <1>11, <3>1, <3>2 DEF ClearedForward
  <2>5. ASSUME options.replay # "none", NEW q \in Ranks
        PROVE  \E n \in Nat :
           /\ replay'[q] = History(q, n)'
           /\ options.replay = "train" /\ rank'[q].pass = "ref" => n = 0
           /\ options.replay = "train" /\ rank'[q].pass = "log_probs" => n = rank'[q].offset
    <3>1. PICK n \in Nat :
            /\ replay[q] = History(q, n)
            /\ options.replay = "train" /\ rank[q].pass = "ref" => n = 0
            /\ options.replay = "train" /\ rank[q].pass = "log_probs" => n = rank[q].offset
      BY <1>1, <2>5 DEF StepInv, ReplayInv
    <3>2. replay[q] = [top_indices_list |-> History(q, n).top_indices_list,
                       forward_index |-> Read(q), backward_index |-> ReadBack(q)]
      BY <3>1 DEF History
    <3>3. CASE q # r
      <4>1. rank'[q] = rank[q] /\ replay'[q] = replay[q]
        BY <1>7, <2>3, <3>3
      <4>2. Read(q)' = Read(q) /\ ReadBack(q)' = ReadBack(q)
        BY <1>10, <4>1 DEF Read, ReadBack
      <4>3. History(q, n)' = History(q, n)
        BY <1>1, <3>1, <3>2, <4>2, HistoryOf
      <4>4. QED
        BY <3>1, <4>1, <4>3
    <3>4. CASE q = r /\ ~LastStep(r)
      <4>1. rank'[q] = new /\ new.pass = rank[q].pass /\ new.offset = rank[q].offset
            /\ replay'[q] = replay[q]
        BY <1>6, <1>7, <1>11, <3>4
      <4>2. Read(q)' = Read(q) /\ ReadBack(q)' = ReadBack(q)
        BY <1>1, <1>10, <3>4, <4>1 DEF Read, ReadBack
      <4>3. History(q, n)' = History(q, n)
        BY <1>1, <3>1, <3>2, <4>2, HistoryOf
      <4>4. QED
        BY <3>1, <4>1, <4>3
    <3>5. CASE q = r /\ LastStep(r)
      <4>1. /\ rank'[q] = new /\ new.pass = After(rank[q].pass) /\ new.offset = 0
            /\ new.forwards = 0 /\ new.backwards = 0
        BY <1>6, <1>7, <3>5
      <4>2. Read(q)' = 0 /\ ReadBack(q)' = 0
        BY <4>1 DEF Read, ReadBack
      <4>3. ReadBack(q) = 0
        BY <1>1, <3>5 DEF ReadBack
      <4>4. replay'[q] = [top_indices_list |-> History(q, n).top_indices_list,
                          forward_index |-> 0, backward_index |-> 0]
        <5>1. CASE rank[q].pass = "log_probs" /\ UsesR3
          <6>1. replay'[q] = [replay[q] EXCEPT !.forward_index = 0]
            BY <1>11, <2>1, <3>5, <5>1 DEF ClearedForward
          <6>2. QED
            BY <3>2, <4>3, <6>1
        <5>2. CASE ~(rank[q].pass = "log_probs" /\ UsesR3)
          <6>1. Read(q) = 0
            BY <1>1, <3>5, <5>2 DEF Read
          <6>2. replay'[q] = replay[q]
            BY <1>11, <2>1, <3>5, <5>2 DEF ClearedForward
          <6>3. QED
            BY <3>2, <4>3, <6>1, <6>2
        <5>3. QED
          BY <5>1, <5>2
      <4>5. replay'[q] = History(q, n)'
        BY <1>1, <4>2, <4>4, HistoryOf
      <4>6. options.replay = "train" /\ rank'[q].pass = "log_probs" => n = rank'[q].offset
        BY <1>1, <1>5, <3>1, <3>5, <4>1
      <4>7. rank'[q].pass # "ref"
        BY <1>5, <3>5, <4>1
      <4>8. QED
        BY <4>5, <4>6, <4>7
    <3>6. QED
      BY <3>3, <3>4, <3>5
  <2>6. QED
    BY <1>1, <2>2, <2>4, <2>5, AllReplay DEF StepInv
<1>13. ReplayedIsItsOwn'
  BY <1>1 DEF StepInv, ReplayedIsItsOwn
<1>14. QED
  BY <1>2, <1>9, <1>12, <1>13 DEF StepInv

LEMMA OptimizeKeeps == StepInv /\ Optimize => StepInv'
<1> SUFFICES ASSUME StepInv, Optimize
             PROVE  StepInv'
  OBVIOUS
<1>1. /\ UNCHANGED <<options, data, states_pq, routed>> /\ phase = "computing"
      /\ \A r \in Ranks : rank[r].pass = "train" /\ rank[r].backwards = rank[r].forwards
  BY DEF Optimize, balanceVars
<1>2. \A r \in Ranks : rank[r] \in States /\ rank[r].stage = StageOf(rank[r].pass)
        /\ rank[r].step \in Nat /\ rank[r].forwards \in Nat /\ rank[r].offset \in Nat
  BY <1>1, StatesOf DEF StepInv, RankInv
<1>3. ReplayedIsItsOwn'
  BY <1>1 DEF StepInv, ReplayedIsItsOwn
<1>4. UsesR3' = UsesR3
  BY <1>1 DEF UsesR3
<1>5. CASE \A r \in Ranks : ~LastStep(r)
  <2>1. rank' = [r \in Ranks |-> NextStep(r)] /\ UNCHANGED <<phase, replay>>
    BY <1>5 DEF Optimize
  <2>2. \A r \in Ranks : rank'[r] = [rank[r] EXCEPT !.step = @ + 1, !.forwards = 0, !.backwards = 0]
    BY <2>1 DEF NextStep
  <2>3. \A r \in Ranks : rank'[r] \in States
    <3> SUFFICES ASSUME NEW r \in Ranks PROVE rank'[r] \in States
      OBVIOUS
    <3>1. rank[r] \in States /\ rank[r].step + 1 \in Nat /\ 0 \in Nat
      BY <1>2
    <3>2. rank'[r] = [rank[r] EXCEPT !.step = @ + 1, !.forwards = 0, !.backwards = 0]
      BY <2>2
    <3>3. QED
      BY <3>1, <3>2 DEF States
  <2>4. \A r \in Ranks : rank'[r].pass = "train" /\ rank'[r].stage = rank[r].stage
          /\ rank'[r].forwards = 0 /\ rank'[r].backwards = 0 /\ rank'[r].offset = rank[r].offset
    <3> SUFFICES ASSUME NEW r \in Ranks
                 PROVE  /\ rank'[r].pass = "train" /\ rank'[r].stage = rank[r].stage
                        /\ rank'[r].forwards = 0 /\ rank'[r].backwards = 0
                        /\ rank'[r].offset = rank[r].offset
      OBVIOUS
    <3>1. rank[r] \in States /\ rank[r].pass = "train"
      BY <1>1, <1>2
    <3>2. rank'[r] = [rank[r] EXCEPT !.step = @ + 1, !.forwards = 0, !.backwards = 0]
      BY <2>2
    <3>3. QED
      BY <3>1, <3>2 DEF States
  <2>5. PlanInv'
    BY <1>1, <2>1, Kept
  <2>6. RankInv'
    <3>1. rank' \in [Ranks -> States]
      BY <2>1, <2>3
    <3>2. \A r \in Ranks : StageOf(rank[r].pass)' = StageOf(rank[r].pass)
      BY <1>1, <1>4, <2>4 DEF StageOf
    <3>3. \A r \in Ranks : rank'[r].pass # "none" /\ rank'[r].stage = StageOf(rank[r].pass)'
            /\ rank'[r].backwards <= rank'[r].forwards /\ rank'[r].forwards <= rank'[r].offset
      BY <1>2, <2>4, <3>2
    <3>4. QED
      BY <1>1, <2>1, <3>1, <3>3 DEF RankInv
  <2>7. ASSUME options.replay # "none", NEW r \in Ranks
        PROVE  rank'[r].pass = "train" /\ \E n \in Nat : replay'[r] = History(r, n)'
    <3>1. PICK n \in Nat : replay[r] = History(r, n)
      BY <1>1, <2>7 DEF StepInv, ReplayInv
    <3>2. replay[r] = [top_indices_list |-> History(r, n).top_indices_list,
                       forward_index |-> Read(r), backward_index |-> ReadBack(r)]
      BY <3>1 DEF History
    <3>3. Read(r)' = Read(r)
      BY <1>1, <1>4, <2>4 DEF Read
    <3>4. ReadBack(r)' = ReadBack(r)
      <4>1. ReadBack(r)' = rank[r].offset - 0 + 0
        BY <2>4 DEF ReadBack
      <4>2. ReadBack(r) = rank[r].offset - rank[r].forwards + rank[r].forwards
        BY <1>1 DEF ReadBack
      <4>3. QED
        BY <1>2, <4>1, <4>2
    <3>5. replay'[r] = History(r, n)'
      BY <1>1, <2>1, <3>2, <3>3, <3>4, HistoryOf
    <3>6. QED
      BY <2>4, <3>5
  <2>8. ReplayInv'
    <3>1. replay' = [r \in Ranks |-> replay'[r]]
      <4>1. CASE options.replay = "none"
        <5>1. replay = [r \in Ranks |-> NoReplay]
          BY <4>1 DEF StepInv, ReplayInv, Of
        <5>2. QED
          BY <2>1, <5>1
      <4>2. CASE options.replay # "none"
        BY <1>1, <2>1, <4>2 DEF StepInv, ReplayInv
      <4>3. QED
        BY <4>1, <4>2
    <3>2. options.replay # "none" => \A r \in Ranks : \E n \in Nat :
           /\ replay'[r] = History(r, n)'
           /\ options.replay = "train" /\ rank'[r].pass = "ref" => n = 0
           /\ options.replay = "train" /\ rank'[r].pass = "log_probs" => n = rank'[r].offset
      BY <2>4, <2>7
    <3>3. QED
      BY <1>1, <2>1, <3>1, <3>2, AllReplay DEF StepInv
  <2>9. QED
    BY <1>3, <2>5, <2>6, <2>8 DEF StepInv
<1>6. CASE ~ \A r \in Ranks : ~LastStep(r)
  <2>1. /\ rank' = Of(Resting) /\ phase' = "waiting"
        /\ replay' = IF options.replay = "none" THEN replay ELSE Of(NoReplay)
    BY <1>6 DEF Optimize
  <2>2. replay' = Of(NoReplay)
    BY <2>1 DEF StepInv, ReplayInv
  <2>3. states_pq = {}
    BY <1>1 DEF StepInv, PlanInv, HeapInUse
  <2>4. PlanInv'
    BY <1>1, <2>1, <2>3 DEF StepInv, PlanInv, data
  <2>5. Of(Resting)' = Of(Resting) /\ Of(NoReplay)' = Of(NoReplay)
    BY DEF Of, Resting, NoReplay
  <2>6. Resting \in States
    BY DEF Resting, States
  <2>7. RankInv'
    <3>1. rank' \in [Ranks -> States]
      BY <2>1, <2>6 DEF Of
    <3>2. QED
      BY <2>1, <2>5, <3>1 DEF RankInv
  <2>8. ReplayInv'
    BY <2>1, <2>2, <2>5 DEF ReplayInv
  <2>9. QED
    BY <1>3, <2>4, <2>7, <2>8 DEF StepInv
<1>7. QED
  BY <1>5, <1>6

LEMMA InitSteps == Init => StepInv
<1> SUFFICES ASSUME Init PROVE StepInv
  OBVIOUS
<1>1. PlanInv
  <2>1. states_pq = {} /\ total_lengths = <<>> /\ <<>> \in Seq(Nat)
    BY DEF Init, BalanceInit
  <2>2. micro_batch_indices = [r \in Ranks |-> <<>>]
    BY DEF Init, Of
  <2>3. Listed(<<>>) /\ \A i \in 1 .. Len(<<>>) : Listed(<<>>[i])
    BY EmptyIsListed
  <2>4. QED
    BY <2>1, <2>2, <2>3 DEF Init, PlanInv
<1>2. RankInv
  <2>1. Resting \in States
    BY DEF Resting, States
  <2>2. QED
    BY <2>1 DEF Init, RankInv, Of
<1>3. ReplayInv
  BY DEF Init, ReplayInv
<1>4. ReplayedIsItsOwn
  BY DEF Init, ReplayedIsItsOwn
<1>5. QED
  BY <1>1, <1>2, <1>3, <1>4 DEF StepInv

LEMMA StepKeeps == StepInv /\ IInv /\ [Next]_vars => StepInv'
<1> SUFFICES ASSUME StepInv, IInv, [Next]_vars PROVE StepInv'
  OBVIOUS
<1>1. CASE Receive
  BY <1>1, ReceiveKeeps
<1>2. CASE Balance
  BY <1>2, BalanceKeeps
<1>3. CASE Deal
  BY <1>3, DealKeeps
<1>4. CASE Schedule
  BY <1>4, ScheduleKeeps
<1>5. CASE Pack
  BY <1>5, PackKeeps
<1>6. CASE Keep
  BY <1>6, KeepKeeps
<1>7. CASE Begin
  BY <1>7, BeginKeeps
<1>8. CASE Forward
  BY <1>8, ForwardKeeps
<1>9. CASE Backward
  BY <1>9, BackwardKeeps
<1>10. CASE Optimize
  BY <1>10, OptimizeKeeps
<1>11. CASE \E r \in Ranks : EndForwardOnly(r)
  BY <1>11, EndForwardOnlyKeeps
<1>12. CASE UNCHANGED vars
  <2>1. UNCHANGED <<options, phase, rank, replay, routed, data, states_pq>>
    BY <1>12 DEF vars, work, data, balanceVars
  <2>2. PlanInv'
    BY <2>1 DEF StepInv, PlanInv, HeapInUse, Unpacked, NextToPack, Steps, data
  <2>3. RankInv'
    BY <2>1 DEF StepInv, RankInv, Of, Resting, StageOf, UsesR3
  <2>4. ReplayInv'
    <3>1. \A r : \A n \in Nat : History(r, n)' = History(r, n)
      <4> SUFFICES ASSUME NEW r, NEW n \in Nat PROVE History(r, n)' = History(r, n)
        OBVIOUS
      <4>1. Read(r)' = Read(r) /\ ReadBack(r)' = ReadBack(r)
        BY <2>1 DEF Read, ReadBack, UsesR3
      <4>2. QED
        BY <2>1, <4>1, HistoryOf DEF History
    <3>2. Of(NoReplay)' = Of(NoReplay)
      BY DEF Of, NoReplay
    <3>3. QED
      BY <2>1, <3>1, <3>2 DEF StepInv, ReplayInv
  <2>5. QED
    BY <2>1, <2>2, <2>3, <2>4 DEF StepInv, ReplayedIsItsOwn
<1>13. QED
  BY <1>1, <1>2, <1>3, <1>4, <1>5, <1>6, <1>7, <1>8, <1>9, <1>10, <1>11, <1>12 DEF Next, Work
-----------------------------------------------------------------------------
(* The theorems *)

\* Types and the invariant, together with that of karmarkar_karp: what it returns
\* has a bin for every micro-batch.
THEOREM StepIsKept == Spec => []StepInv
<1>1. Init => StepInv
  BY InitSteps
<1>2. StepInv /\ IInv /\ [Next]_vars => StepInv'
  BY StepKeeps
<1>3. Spec => []IInv
  BY StepsBalance, InvariantHolds, PTL
<1>4. QED
  BY <1>1, <1>2, <1>3, PTL DEF Spec

\* In a train call, over groups or over the samples of a step, no partition is
\* heavier than another by more than one item (karmarkar_karp).
THEOREM StepsAreBalanced == Spec => []Balanced
BY StepsBalance, DifferenceIsBounded, PTL

\* The partitions that a train call deals and packs by pass the assertions on
\* them: none is empty and every item is in one.
THEOREM StepsGetAllItems == Spec => []PartitionsAreValid
BY StepsBalance, PartitionsPass, PTL

\* Every pop of a forward or a backward, in the log-prob pass with R3 or in
\* training, yields what was put into the replay for the same samples in the same
\* order (routing_replay.py).
THEOREM OwnExperts == Spec => []ReplayedIsItsOwn
<1>1. StepInv => ReplayedIsItsOwn
  BY DEF StepInv
<1>2. QED
  BY <1>1, StepIsKept, PTL
-----------------------------------------------------------------------------
(* Sums *)

\* Counting up to a bound.
LEMMA CountingTo ==
  ASSUME NEW N \in Nat, NEW S, 0 \in S,
         \A n \in 0 .. N - 1 : n \in S => n + 1 \in S
  PROVE  \A n \in 0 .. N : n \in S
<1> DEFINE T == {n \in Nat : n <= N => n \in S}
<1>1. T \in SUBSET Nat /\ 0 \in T
  OBVIOUS
<1>2. \A n \in T : n + 1 \in T
  OBVIOUS
<1>3. \A n \in Nat : n \in T
  BY <1>1, <1>2, UpwardClosed
<1>4. QED
  BY <1>3

\* d[1] + ... + d[n].
SumsTo(d, n, g) == g = [i \in 0 .. n |-> IF i = 0 THEN 0 ELSE g[i-1] + d[i]]
SumTo(d, n) == (CHOOSE g : SumsTo(d, n, g))[n]

LEMMA SumsExist ==
  ASSUME NEW d
  PROVE  \A n \in Nat : \E g : SumsTo(d, n, g)
<1> DEFINE S == {n \in Nat : \E g : SumsTo(d, n, g)}
<1>1. 0 \in S
  <2>1. SumsTo(d, 0, [i \in 0 .. 0 |-> 0])
    BY DEF SumsTo
  <2>2. QED
    BY <2>1
<1>2. \A n \in S : n + 1 \in S
  <2>1. SUFFICES ASSUME NEW n \in S PROVE n + 1 \in S
    OBVIOUS
  <2>2. n \in Nat /\ \E g : SumsTo(d, n, g)
    BY <2>1
  <2>3. PICK g : SumsTo(d, n, g)
    BY <2>2
  <2>4. \A i \in 0 .. n : g[i] = IF i = 0 THEN 0 ELSE g[i-1] + d[i]
    BY <2>3, Zenon DEF SumsTo
  <2> DEFINE h == [i \in 0 .. n + 1 |-> IF i = n + 1 THEN g[n] + d[n + 1] ELSE g[i]]
  <2>5. h[n + 1] = g[n] + d[n + 1] /\ \A i \in 0 .. n : h[i] = g[i]
    BY <2>2
  <2>6. h = [i \in 0 .. n + 1 |-> h[i]]
    BY Zenon
  <2> HIDE DEF h
  <2>7. ASSUME NEW i \in 0 .. n + 1
        PROVE  h[i] = IF i = 0 THEN 0 ELSE h[i-1] + d[i]
    <3>1. CASE i = n + 1
      <4>1. i # 0 /\ i - 1 = n /\ n \in 0 .. n
        BY <2>2, <3>1
      <4>2. QED
        BY <2>5, <3>1, <4>1
    <3>2. CASE i # n + 1 /\ i # 0
      <4>1. i \in 0 .. n /\ i - 1 \in 0 .. n
        BY <2>2, <2>7, <3>2
      <4>2. QED
        BY <2>4, <2>5, <3>2, <4>1
    <3>3. CASE i # n + 1 /\ i = 0
      <4>1. i \in 0 .. n
        BY <2>2, <3>3
      <4>2. QED
        BY <2>4, <2>5, <3>3, <4>1
    <3>4. QED
      BY <3>1, <3>2, <3>3
  <2>8. SumsTo(d, n + 1, h)
    BY <2>6, <2>7, Zenon DEF SumsTo
  <2>9. QED
    BY <2>2, <2>8
<1>3. QED
  <2> HIDE DEF S
  <2>1. S \in SUBSET Nat BY DEF S
  <2>2. \A n \in Nat : n \in S
    BY <1>1, <1>2, <2>1, UpwardClosed
  <2>3. QED BY <2>2 DEF S

LEMMA SumSteps ==
  ASSUME NEW d
  PROVE  SumTo(d, 0) = 0 /\ \A n \in Nat : SumTo(d, n + 1) = SumTo(d, n) + d[n + 1]
<1>1. ASSUME NEW n \in Nat
      PROVE  \E g : /\ \A i \in 0 .. n : g[i] = IF i = 0 THEN 0 ELSE g[i-1] + d[i]
                    /\ SumTo(d, n) = g[n]
  <2> DEFINE g == CHOOSE g : SumsTo(d, n, g)
  <2>1. SumsTo(d, n, g)
    BY SumsExist
  <2>2. SumTo(d, n) = g[n]
    BY DEF SumTo
  <2> HIDE DEF g
  <2>3. \A i \in 0 .. n : g[i] = IF i = 0 THEN 0 ELSE g[i-1] + d[i]
    BY <2>1, Zenon DEF SumsTo
  <2>4. QED
    BY <2>2, <2>3
<1>2. SumTo(d, 0) = 0
  <2>1. PICK g : /\ \A i \in 0 .. 0 : g[i] = IF i = 0 THEN 0 ELSE g[i-1] + d[i]
                 /\ SumTo(d, 0) = g[0]
    BY <1>1
  <2>2. QED
    BY <2>1
<1>3. ASSUME NEW n \in Nat PROVE SumTo(d, n + 1) = SumTo(d, n) + d[n + 1]
  <2>1. PICK g : /\ \A i \in 0 .. n : g[i] = IF i = 0 THEN 0 ELSE g[i-1] + d[i]
                 /\ SumTo(d, n) = g[n]
    BY <1>1
  <2>2. PICK h : /\ \A i \in 0 .. n + 1 : h[i] = IF i = 0 THEN 0 ELSE h[i-1] + d[i]
                 /\ SumTo(d, n + 1) = h[n + 1]
    <3>1. n + 1 \in Nat
      OBVIOUS
    <3>2. QED
      BY <1>1, <3>1
  <2> DEFINE S == {i \in Nat : g[i] = h[i]}
  <2>3. 0 \in S
    BY <2>1, <2>2
  <2>4. \A i \in 0 .. n - 1 : i \in S => i + 1 \in S
    <3>1. SUFFICES ASSUME NEW i \in 0 .. n - 1, i \in S PROVE i + 1 \in S
      OBVIOUS
    <3>2. /\ i \in Nat /\ i + 1 \in 0 .. n /\ i + 1 \in 0 .. n + 1 /\ i + 1 # 0
          /\ (i + 1) - 1 = i /\ i + 1 \in Nat
      BY <3>1
    <3>3. g[i + 1] = g[i] + d[i + 1]
      BY <2>1, <3>2
    <3>4. h[i + 1] = h[i] + d[i + 1]
      BY <2>2, <3>2
    <3>5. QED
      BY <3>1, <3>2, <3>3, <3>4
  <2>5. \A i \in 0 .. n : i \in S
    <3> HIDE DEF S
    <3>1. QED
      BY <2>3, <2>4, CountingTo
  <2>6. g[n] = h[n]
    BY <2>5
  <2>7. h[n + 1] = h[n] + d[n + 1]
    <3>1. n + 1 \in 0 .. n + 1 /\ n + 1 # 0 /\ (n + 1) - 1 = n
      OBVIOUS
    <3>2. QED
      BY <2>2, <3>1
  <2>8. QED
    BY <2>1, <2>2, <2>6, <2>7
<1>4. QED
  BY <1>2, <1>3

LEMMA SumType ==
  ASSUME NEW N \in Nat, NEW d, \A i \in 1 .. N : d[i] \in Nat
  PROVE  \A n \in 0 .. N : SumTo(d, n) \in Nat
<1> DEFINE S == {n \in Nat : SumTo(d, n) \in Nat}
<1>1. 0 \in S
  BY SumSteps
<1>2. \A n \in 0 .. N - 1 : n \in S => n + 1 \in S
  <2>1. SUFFICES ASSUME NEW n \in 0 .. N - 1, n \in S PROVE n + 1 \in S
    OBVIOUS
  <2>2. n \in Nat /\ n + 1 \in 1 .. N /\ SumTo(d, n) \in Nat
    BY <2>1
  <2>3. SumTo(d, n + 1) = SumTo(d, n) + d[n + 1]
    BY <2>2, SumSteps
  <2>4. QED
    BY <2>2, <2>3
<1>3. \A n \in 0 .. N : n \in S
  <2> HIDE DEF S
  <2>1. QED
    BY <1>1, <1>2, CountingTo
<1>4. QED
  BY <1>3

\* Sums of two functions, place by place.
LEMMA SumPlus ==
  ASSUME NEW N \in Nat, NEW d, NEW e, NEW f,
         \A i \in 1 .. N : d[i] \in Nat /\ e[i] \in Nat /\ f[i] = d[i] + e[i]
  PROVE  SumTo(f, N) = SumTo(d, N) + SumTo(e, N)
<1> DEFINE S == {n \in Nat : SumTo(f, n) = SumTo(d, n) + SumTo(e, n)}
<1>1. 0 \in S
  BY SumSteps
<1>2. \A n \in 0 .. N - 1 : n \in S => n + 1 \in S
  <2>1. SUFFICES ASSUME NEW n \in 0 .. N - 1, n \in S PROVE n + 1 \in S
    OBVIOUS
  <2>2. n \in Nat /\ n \in 0 .. N /\ n + 1 \in 1 .. N /\ SumTo(f, n) = SumTo(d, n) + SumTo(e, n)
    BY <2>1
  <2>3. SumTo(d, n) \in Nat /\ SumTo(e, n) \in Nat
    BY <2>2, SumType
  <2>4. /\ SumTo(d, n + 1) = SumTo(d, n) + d[n + 1]
        /\ SumTo(e, n + 1) = SumTo(e, n) + e[n + 1]
        /\ SumTo(f, n + 1) = SumTo(f, n) + f[n + 1]
    BY <2>2, SumSteps
  <2>5. d[n + 1] \in Nat /\ e[n + 1] \in Nat /\ f[n + 1] = d[n + 1] + e[n + 1]
    BY <2>2
  <2>6. QED
    BY <2>2, <2>3, <2>4, <2>5
<1>3. \A n \in 0 .. N : n \in S
  <2> HIDE DEF S
  <2>1. QED
    BY <1>1, <1>2, CountingTo
<1>4. QED
  BY <1>3

LEMMA SumSame ==
  ASSUME NEW N \in Nat, NEW d, NEW e, \A i \in 1 .. N : d[i] = e[i]
  PROVE  SumTo(d, N) = SumTo(e, N)
<1> DEFINE S == {n \in Nat : SumTo(d, n) = SumTo(e, n)}
<1>1. 0 \in S
  BY SumSteps
<1>2. \A n \in 0 .. N - 1 : n \in S => n + 1 \in S
  <2>1. SUFFICES ASSUME NEW n \in 0 .. N - 1, n \in S PROVE n + 1 \in S
    OBVIOUS
  <2>2. n \in Nat /\ n + 1 \in 1 .. N /\ SumTo(d, n) = SumTo(e, n)
    BY <2>1
  <2>3. SumTo(d, n + 1) = SumTo(d, n) + d[n + 1] /\ SumTo(e, n + 1) = SumTo(e, n) + e[n + 1]
    BY <2>2, SumSteps
  <2>4. QED
    BY <2>2, <2>3
<1>3. \A n \in 0 .. N : n \in S
  <2> HIDE DEF S
  <2>1. QED
    BY <1>1, <1>2, CountingTo
<1>4. QED
  BY <1>3

\* Sums between two bounds.
LEMMA SumBetween ==
  ASSUME NEW N \in Nat, NEW d, NEW a \in Nat, NEW b \in Nat,
         \A i \in 1 .. N : d[i] \in Nat /\ a <= d[i] /\ d[i] <= b
  PROVE  SumTo(d, N) \in Nat /\ N * a <= SumTo(d, N) /\ SumTo(d, N) <= N * b
<1> DEFINE S == {n \in Nat : n * a <= SumTo(d, n) /\ SumTo(d, n) <= n * b}
<1>1. 0 \in S
  BY SumSteps
<1>2. \A n \in 0 .. N - 1 : n \in S => n + 1 \in S
  <2>1. SUFFICES ASSUME NEW n \in 0 .. N - 1, n \in S PROVE n + 1 \in S
    OBVIOUS
  <2>2. /\ n \in Nat /\ n \in 0 .. N /\ n + 1 \in 1 .. N /\ n + 1 \in Nat
        /\ n * a <= SumTo(d, n) /\ SumTo(d, n) <= n * b
    BY <2>1
  <2>3. SumTo(d, n) \in Nat /\ d[n + 1] \in Nat /\ a <= d[n + 1] /\ d[n + 1] <= b
    BY <2>2, SumType
  <2>4. SumTo(d, n + 1) = SumTo(d, n) + d[n + 1]
    BY <2>2, SumSteps
  <2>5. (n + 1) * a = n * a + a /\ (n + 1) * b = n * b + b /\ n * a \in Nat /\ n * b \in Nat
    BY <2>2
  <2>6. QED
    BY <2>2, <2>3, <2>4, <2>5
<1>3. \A n \in 0 .. N : n \in S
  <2> HIDE DEF S
  <2>1. QED
    BY <1>1, <1>2, CountingTo
<1>4. SumTo(d, N) \in Nat
  BY SumType
<1>5. QED
  BY <1>3, <1>4

\* One summand more by x.
LEMMA SumChange ==
  ASSUME NEW N \in Nat, NEW d, NEW f, NEW j \in 1 .. N, NEW x \in Nat,
         \A i \in 1 .. N : d[i] \in Nat, f[j] = d[j] + x,
         \A i \in 1 .. N : i # j => f[i] = d[i]
  PROVE  SumTo(f, N) = SumTo(d, N) + x
<1> DEFINE S == {n \in Nat : SumTo(f, n) = IF n < j THEN SumTo(d, n) ELSE SumTo(d, n) + x}
<1>1. 0 \in S
  BY SumSteps
<1>2. \A n \in 0 .. N - 1 : n \in S => n + 1 \in S
  <2>1. SUFFICES ASSUME NEW n \in 0 .. N - 1, n \in S PROVE n + 1 \in S
    OBVIOUS
  <2>2. /\ n \in Nat /\ n \in 0 .. N /\ n + 1 \in 1 .. N /\ n + 1 \in Nat
        /\ SumTo(f, n) = IF n < j THEN SumTo(d, n) ELSE SumTo(d, n) + x
    BY <2>1
  <2>3. SumTo(d, n) \in Nat
    BY <2>2, SumType
  <2>4. SumTo(d, n + 1) = SumTo(d, n) + d[n + 1] /\ SumTo(f, n + 1) = SumTo(f, n) + f[n + 1]
    BY <2>2, SumSteps
  <2>5. d[n + 1] \in Nat /\ f[n + 1] = IF n + 1 = j THEN d[n + 1] + x ELSE d[n + 1]
    BY <2>2
  <2>6. QED
    BY <2>2, <2>3, <2>4, <2>5
<1>3. \A n \in 0 .. N : n \in S
  <2> HIDE DEF S
  <2>1. QED
    BY <1>1, <1>2, CountingTo
<1>4. QED
  BY <1>3
-----------------------------------------------------------------------------
(* Weights of sets of places *)

\* What the places in S weigh.
Weights(list, S) == [x \in 1 .. Len(list) |-> IF x \in S THEN list[x] ELSE 0]
Weight(list, S) == SumTo(Weights(list, S), Len(list))

LEMMA WeightsType ==
  ASSUME NEW list \in Seq(Nat), NEW S
  PROVE  /\ Len(list) \in Nat
         /\ \A x \in 1 .. Len(list) :
              list[x] \in Nat /\ Weights(list, S)[x] = IF x \in S THEN list[x] ELSE 0
         /\ Weight(list, S) \in Nat
<1>1. /\ Len(list) \in Nat
      /\ \A x \in 1 .. Len(list) :
           list[x] \in Nat /\ Weights(list, S)[x] = IF x \in S THEN list[x] ELSE 0
  BY DEF Weights
<1>2. \A x \in 1 .. Len(list) : Weights(list, S)[x] \in Nat
  BY <1>1
<1>3. \A n \in 0 .. Len(list) : SumTo(Weights(list, S), n) \in Nat
  BY <1>1, <1>2, SumType
<1>4. QED
  BY <1>1, <1>3 DEF Weight

LEMMA WeightOfNone ==
  ASSUME NEW list \in Seq(Nat), NEW S, S \cap 1 .. Len(list) = {}
  PROVE  Weight(list, S) = 0
<1>1. \A x \in 1 .. Len(list) : Weights(list, S)[x] = 0
  BY WeightsType
<1>2. /\ 0 \in Nat /\ Len(list) \in Nat
      /\ \A x \in 1 .. Len(list) : /\ Weights(list, S)[x] \in Nat
                                   /\ 0 <= Weights(list, S)[x] /\ Weights(list, S)[x] <= 0
  BY <1>1, WeightsType
<1> DEFINE f == Weights(list, S)
<1>3. SumTo(f, Len(list)) \in Nat /\ Len(list) * 0 <= SumTo(f, Len(list))
      /\ SumTo(f, Len(list)) <= Len(list) * 0
  <2> HIDE DEF f
  <2>1. \A x \in 1 .. Len(list) : f[x] \in Nat /\ 0 <= f[x] /\ f[x] <= 0
    BY <1>2 DEF f
  <2>2. QED
    BY <1>2, <2>1, SumBetween
<1>4. QED
  BY <1>2, <1>3 DEF Weight

LEMMA WeightOfBoth ==
  ASSUME NEW list \in Seq(Nat), NEW S, NEW T, S \cap T = {}
  PROVE  Weight(list, S \cup T) = Weight(list, S) + Weight(list, T)
<1> DEFINE f == Weights(list, S \cup T)
           d == Weights(list, S)
           e == Weights(list, T)
<1>1. \A x \in 1 .. Len(list) : /\ d[x] = IF x \in S THEN list[x] ELSE 0
                                /\ e[x] = IF x \in T THEN list[x] ELSE 0
                                /\ f[x] = IF x \in S \cup T THEN list[x] ELSE 0
                                /\ list[x] \in Nat
  BY WeightsType
<1> HIDE DEF f, d, e
<1>2. \A x \in 1 .. Len(list) : d[x] \in Nat /\ e[x] \in Nat /\ f[x] = d[x] + e[x]
  BY <1>1
<1>3. Len(list) \in Nat
  OBVIOUS
<1>4. SumTo(f, Len(list)) = SumTo(d, Len(list)) + SumTo(e, Len(list))
  BY <1>2, <1>3, SumPlus
<1>5. QED
  BY <1>4 DEF Weight, f, d, e

LEMMA WeightOfOne ==
  ASSUME NEW list \in Seq(Nat), NEW x \in 1 .. Len(list)
  PROVE  Weight(list, {x}) = list[x]
<1> DEFINE d == Weights(list, {})
           f == Weights(list, {x})
<1>1. list[x] \in Nat /\ Len(list) \in Nat
  OBVIOUS
<1>2. \A i \in 1 .. Len(list) : d[i] = 0 /\ f[i] = IF i = x THEN list[i] ELSE 0
  BY WeightsType
<1>3. SumTo(d, Len(list)) = 0
  BY WeightOfNone DEF Weight
<1> HIDE DEF d, f
<1>4. /\ \A i \in 1 .. Len(list) : d[i] \in Nat /\ (i # x => f[i] = d[i])
      /\ f[x] = d[x] + list[x]
  BY <1>1, <1>2
<1>5. SumTo(f, Len(list)) = SumTo(d, Len(list)) + list[x]
  BY <1>1, <1>4, SumChange
<1>6. QED
  BY <1>1, <1>3, <1>5 DEF Weight, f

LEMMA WeightOfAll ==
  ASSUME NEW list \in Seq(Nat), NEW S, 1 .. Len(list) \subseteq S
  PROVE  Weight(list, S) = SumTo(list, Len(list))
<1>1. \A x \in 1 .. Len(list) : Weights(list, S)[x] = list[x]
  BY WeightsType
<1>2. Len(list) \in Nat
  OBVIOUS
<1>3. QED
  BY <1>1, <1>2, SumSame DEF Weight

\* Sets that do not overlap weigh as much as their union.
Spanned(P, k) == UNION {P[i] : i \in 1 .. k}

LEMMA WeightsAddUp ==
  ASSUME NEW list \in Seq(Nat), NEW k \in Nat, NEW P,
         \A i, j \in 1 .. k : i # j => P[i] \cap P[j] = {}
  PROVE  SumTo([i \in 1 .. k |-> Weight(list, P[i])], k)
           = Weight(list, Spanned(P, k))
<1> DEFINE d == [i \in 1 .. k |-> Weight(list, P[i])]
           U(n) == UNION {P[i] : i \in 1 .. n}
           S == {n \in Nat : SumTo(d, n) = Weight(list, U(n))}
<1>1. 0 \in S
  <2>1. U(0) = {} /\ SumTo(d, 0) = 0
    BY SumSteps
  <2>2. Weight(list, {}) = 0
    BY WeightOfNone
  <2>3. QED
    BY <2>1, <2>2
<1>2. \A n \in 0 .. k - 1 : n \in S => n + 1 \in S
  <2>1. SUFFICES ASSUME NEW n \in 0 .. k - 1, n \in S PROVE n + 1 \in S
    OBVIOUS
  <2>2. n \in Nat /\ n + 1 \in 1 .. k /\ SumTo(d, n) = Weight(list, U(n))
    BY <2>1
  <2>3. U(n + 1) = U(n) \cup P[n + 1]
    <3>1. \A i : i \in 1 .. n + 1 <=> i \in 1 .. n \/ i = n + 1
      BY <2>2
    <3>2. QED
      BY <3>1
  <2>4. U(n) \cap P[n + 1] = {}
    <3>1. \A i \in 1 .. n : P[i] \cap P[n + 1] = {}
      <4>1. \A i \in 1 .. n : i \in 1 .. k /\ i # n + 1
        BY <2>1
      <4>2. QED
        BY <2>2, <4>1
    <3>2. QED
      BY <3>1
  <2>5. SumTo(d, n + 1) = SumTo(d, n) + d[n + 1] /\ d[n + 1] = Weight(list, P[n + 1])
    BY <2>2, SumSteps
  <2>6. Weight(list, U(n) \cup P[n + 1]) = Weight(list, U(n)) + Weight(list, P[n + 1])
    <3> HIDE DEF U
    <3>1. QED
      BY <2>4, WeightOfBoth
  <2>7. Weight(list, U(n + 1)) = Weight(list, U(n)) + Weight(list, P[n + 1])
    BY <2>3, <2>6, Zenon
  <2>8. SumTo(d, n + 1) = Weight(list, U(n + 1))
    BY <2>2, <2>5, <2>7, Zenon
  <2>9. QED
    BY <2>2, <2>8
<1>3. \A n \in 0 .. k : n \in S
  <2> HIDE DEF S
  <2>1. QED
    BY <1>1, <1>2, CountingTo
<1>4. k \in 0 .. k
  OBVIOUS
<1>5. QED
  BY <1>3, <1>4 DEF Spanned
-----------------------------------------------------------------------------
(* Flattening *)

LEMMA FlatEmpty == FlattenSeq(<<>>) = <<>>
BY DEF FlattenSeq

LEMMA FlatAppend ==
  ASSUME NEW X, NEW ss \in Seq(Seq(X)), NEW x \in Seq(X)
  PROVE  FlattenSeq(Append(ss, x)) = FlattenSeq(ss) \o x
<1>0. PICK longer : longer = Append(ss, x)
  OBVIOUS
<1>1. /\ Len(ss) \in Nat /\ Len(longer) = Len(ss) + 1
      /\ longer[Len(longer)] = x /\ \A i \in 1 .. Len(ss) : longer[i] = ss[i]
  BY <1>0, AppendProperties, LenProperties
<1>2. PICK h : FlatTo(longer, Len(longer), h) /\ FlattenSeq(longer) = h[Len(longer)]
  BY <1>1, Flattened
<1>3. \A i \in 1 .. Len(longer) : h[i] = IF i = 1 THEN longer[i] ELSE h[i-1] \o longer[i]
  BY <1>2, Zenon DEF FlatTo
<1>4. CASE ss = <<>>
  <2>1. h[1] = x /\ Len(longer) = 1
    BY <1>1, <1>3, <1>4
  <2>2. FlattenSeq(ss) \o x = x
    BY <1>4, FlatEmpty, ConcatEmptySeq
  <2>3. QED
    BY <1>2, <2>1, <2>2, <1>0
<1>5. CASE ss # <<>>
  <2>1. Len(ss) \in Nat \ {0}
    BY <1>5, EmptySeq
  <2>2. PICK g : FlatTo(ss, Len(ss), g) /\ FlattenSeq(ss) = g[Len(ss)]
    BY <2>1, Flattened
  <2>a. \A i \in 1 .. Len(ss) : g[i] = IF i = 1 THEN ss[i] ELSE g[i-1] \o ss[i]
    BY <2>2, Zenon DEF FlatTo
  <2>3. \A i \in 1 .. Len(ss) : g[i] = h[i]
    <3> DEFINE S == {i \in Nat : i \in 1 .. Len(ss) => g[i] = h[i]}
    <3>1. 0 \in S
      OBVIOUS
    <3>2. \A i \in S : i + 1 \in S
      <4>1. SUFFICES ASSUME NEW i \in S, i + 1 \in 1 .. Len(ss)
                     PROVE  g[i + 1] = h[i + 1]
        <5>1. \A i \in S : i + 1 \in Nat
          OBVIOUS
        <5>2. QED
          BY <5>1
      <4>a. i \in Nat
        BY <4>1
      <4>2. /\ i + 1 \in 1 .. Len(longer) /\ longer[i + 1] = ss[i + 1]
            /\ (i + 1) - 1 = i
        BY <1>1, <4>1, <4>a
      <4>3. CASE i = 0
        BY <1>3, <2>a, <4>1, <4>2, <4>3
      <4>4. CASE i # 0
        <5>1. g[i] = h[i] /\ i + 1 # 1
          BY <1>1, <4>1, <4>a, <4>4
        <5>2. g[i + 1] = g[i] \o ss[i + 1]
          BY <2>a, <4>1, <4>2, <5>1
        <5>3. h[i + 1] = h[i] \o longer[i + 1]
          BY <1>3, <4>2, <5>1
        <5>4. QED
          BY <4>2, <5>1, <5>2, <5>3
      <4>5. QED
        BY <4>3, <4>4
    <3>3. \A i \in Nat : i \in S
      <4> HIDE DEF S
      <4>1. S \in SUBSET Nat
        BY DEF S
      <4>2. QED
        BY <3>1, <3>2, <4>1, UpwardClosed
    <3>4. QED
      BY <1>1, <3>3
  <2>4. h[Len(longer)] = h[Len(ss)] \o x
    <3>1. Len(longer) \in 1 .. Len(longer) /\ Len(longer) # 1 /\ Len(longer) - 1 = Len(ss)
      BY <1>1, <2>1
    <3>2. QED
      BY <1>1, <1>3, <3>1
  <2>5. g[Len(ss)] = h[Len(ss)]
    BY <2>1, <2>3
  <2>6. QED
    BY <1>2, <2>2, <2>4, <2>5, <1>0
<1>6. QED
  BY <1>4, <1>5

LEMMA FlatType ==
  ASSUME NEW X, NEW ss \in Seq(Seq(X))
  PROVE  FlattenSeq(ss) \in Seq(X)
<1> DEFINE S == {n \in Nat : \A s \in Seq(Seq(X)) : Len(s) = n => FlattenSeq(s) \in Seq(X)}
<1>1. 0 \in S
  <2>1. \A s \in Seq(Seq(X)) : Len(s) = 0 => s = <<>>
    BY EmptySeq
  <2>2. QED
    BY <2>1, FlatEmpty, EmptySeq
<1>2. \A n \in S : n + 1 \in S
  <2>0. SUFFICES ASSUME NEW n \in S, NEW s \in Seq(Seq(X)), Len(s) = n + 1
                 PROVE  FlattenSeq(s) \in Seq(X)
    <3>1. \A n \in S : n + 1 \in Nat
      OBVIOUS
    <3>2. QED
      BY <3>1
  <2>1. n \in Nat /\ s # <<>>
    <3>1. n \in Nat /\ Len(s) # 0
      BY <2>0
    <3>2. QED
      BY <3>1, EmptySeq
  <2>2. PICK t \in Seq(Seq(X)), x \in Seq(X) : s = Append(t, x)
    BY <2>1, SequenceEmptyOrAppend
  <2>3. Len(t) = n
    <3>1. Len(s) = Len(t) + 1 /\ Len(t) \in Nat
      BY <2>2, AppendProperties, LenProperties
    <3>2. QED
      BY <2>0, <2>1, <3>1
  <2>4. FlattenSeq(t) \in Seq(X)
    BY <2>3
  <2>5. QED
    BY <2>2, <2>4, FlatAppend, ConcatProperties
<1>3. \A n \in Nat : n \in S
  BY <1>1, <1>2, UpwardClosed
<1>4. QED
  BY <1>3, LenProperties

LEMMA FlatConcat ==
  ASSUME NEW X, NEW ss \in Seq(Seq(X)), NEW tt \in Seq(Seq(X))
  PROVE  FlattenSeq(ss \o tt) = FlattenSeq(ss) \o FlattenSeq(tt)
<1> DEFINE S == {n \in Nat : \A t \in Seq(Seq(X)) : Len(t) = n =>
                               FlattenSeq(ss \o t) = FlattenSeq(ss) \o FlattenSeq(t)}
<1>0. FlattenSeq(ss) \in Seq(X)
  BY FlatType
<1>1. 0 \in S
  <2>1. \A s \in Seq(Seq(X)) : Len(s) = 0 => s = <<>>
    BY EmptySeq
  <2>2. ss \o <<>> = ss /\ FlattenSeq(ss) \o <<>> = FlattenSeq(ss)
    BY <1>0, ConcatEmptySeq
  <2>3. QED
    BY <2>1, <2>2, FlatEmpty
<1>2. \A n \in S : n + 1 \in S
  <2>0. SUFFICES ASSUME NEW n \in S, NEW s \in Seq(Seq(X)), Len(s) = n + 1
                 PROVE  FlattenSeq(ss \o s) = FlattenSeq(ss) \o FlattenSeq(s)
    <3>1. \A n \in S : n + 1 \in Nat
      OBVIOUS
    <3>2. QED
      BY <3>1
  <2>1. n \in Nat /\ s # <<>>
    <3>1. n \in Nat /\ Len(s) # 0
      BY <2>0
    <3>2. QED
      BY <3>1, EmptySeq
  <2>2. PICK t \in Seq(Seq(X)), x \in Seq(X) : s = Append(t, x)
    BY <2>1, SequenceEmptyOrAppend
  <2>3. Len(t) = n
    <3>1. Len(s) = Len(t) + 1 /\ Len(t) \in Nat
      BY <2>2, AppendProperties, LenProperties
    <3>2. QED
      BY <2>0, <2>1, <3>1
  <2>4. FlattenSeq(ss \o t) = FlattenSeq(ss) \o FlattenSeq(t) /\ FlattenSeq(t) \in Seq(X)
    BY <2>3, FlatType
  <2>5. ss \o s = Append(ss \o t, x) /\ ss \o t \in Seq(Seq(X))
    <3>1. <<x>> \in Seq(Seq(X)) /\ ss \o t \in Seq(Seq(X))
      BY ConcatProperties
    <3>2. s = t \o <<x>> /\ Append(ss \o t, x) = (ss \o t) \o <<x>>
      BY <2>2, <3>1, AppendIsConcat
    <3>3. t \in Seq(Seq(X)) /\ (ss \o t) \o <<x>> = ss \o (t \o <<x>>)
      BY <3>1, ConcatAssociative, SMTT(60)
    <3>4. QED
      BY <3>1, <3>2, <3>3
  <2>6. FlattenSeq(ss \o s) = FlattenSeq(ss \o t) \o x
    BY <2>5, FlatAppend
  <2>7. FlattenSeq(s) = FlattenSeq(t) \o x
    BY <2>2, FlatAppend
  <2>8. (FlattenSeq(ss) \o FlattenSeq(t)) \o x = FlattenSeq(ss) \o (FlattenSeq(t) \o x)
    <3>1. PICK a \in Seq(X), b \in Seq(X) : a = FlattenSeq(ss) /\ b = FlattenSeq(t)
      BY <1>0, <2>4
    <3>2. (a \o b) \o x = a \o (b \o x)
      BY ConcatAssociative, SMTT(60)
    <3>3. QED
      BY <3>1, <3>2
  <2>9. QED
    BY <2>4, <2>6, <2>7, <2>8
<1>3. \A n \in Nat : n \in S
  BY <1>1, <1>2, UpwardClosed
<1>4. QED
  BY <1>3, LenProperties

LEMMA FlatSingle ==
  ASSUME NEW X, NEW x \in Seq(X)
  PROVE  FlattenSeq(<<x>>) = x
<1>1. <<>> \in Seq(Seq(X)) /\ <<x>> = Append(<<>>, x) /\ <<>> \o x = x
  BY EmptySeq, ConcatEmptySeq
<1>2. QED
  BY <1>1, FlatAppend, FlatEmpty

\* The first m of the sequences, joined.
Joint(ss, m) == FlattenSeq([i \in 1 .. m |-> ss[i]])

LEMMA JointNext ==
  ASSUME NEW X, NEW ss \in Seq(Seq(X))
  PROVE  /\ Joint(ss, 0) = <<>> /\ Joint(ss, Len(ss)) = FlattenSeq(ss)
         /\ \A m \in 0 .. Len(ss) : Joint(ss, m) \in Seq(X)
         /\ \A m \in 0 .. Len(ss) - 1 :
              ss[m + 1] \in Seq(X) /\ Joint(ss, m + 1) = Joint(ss, m) \o ss[m + 1]
<1>1. Len(ss) \in Nat /\ ss = [i \in 1 .. Len(ss) |-> ss[i]] /\ \A i \in 1 .. Len(ss) : ss[i] \in Seq(X)
  BY LenProperties, ElementOfSeq
<1>2. Joint(ss, 0) = <<>>
  <2>1. [i \in 1 .. 0 |-> ss[i]] = <<>>
    OBVIOUS
  <2>2. QED
    BY <2>1, FlatEmpty DEF Joint
<1>3. Joint(ss, Len(ss)) = FlattenSeq(ss)
  BY <1>1, Zenon DEF Joint
<1>4. ASSUME NEW m \in 0 .. Len(ss)
      PROVE  [i \in 1 .. m |-> ss[i]] \in Seq(Seq(X))
  <2>1. m \in Nat /\ \A i \in 1 .. m : ss[i] \in Seq(X)
    BY <1>1
  <2> DEFINE Y == Seq(X)
             f == [i \in 1 .. m |-> ss[i]]
  <2>2. f \in [1 .. m -> Y]
    BY <2>1
  <2> HIDE DEF Y, f
  <2>3. f \in Seq(Y)
    BY <2>1, <2>2, SeqDef
  <2>4. QED
    BY <2>3 DEF Y, f
<1>5. ASSUME NEW m \in 0 .. Len(ss) - 1
      PROVE  ss[m + 1] \in Seq(X) /\ Joint(ss, m + 1) = Joint(ss, m) \o ss[m + 1]
  <2>1. m \in Nat /\ m \in 0 .. Len(ss) /\ m + 1 \in 1 .. Len(ss)
    BY <1>1
  <2>2. ss[m + 1] \in Seq(X)
    BY <1>1, <2>1
  <2>3. Append([i \in 1 .. m |-> ss[i]], ss[m + 1]) = [i \in 1 .. m + 1 |-> ss[i]]
    BY <2>1, OneMore
  <2>4. [i \in 1 .. m |-> ss[i]] \in Seq(Seq(X))
    BY <1>4, <2>1
  <2> DEFINE a == [i \in 1 .. m |-> ss[i]]
             x == ss[m + 1]
  <2>5. FlattenSeq(Append(a, x)) = FlattenSeq(a) \o x
    <3> HIDE DEF a, x
    <3>1. a \in Seq(Seq(X)) /\ x \in Seq(X)
      BY <2>2, <2>4 DEF a, x
    <3>2. QED
      BY <3>1, FlatAppend
  <2>6. QED
    BY <2>2, <2>3, <2>5, Zenon DEF Joint
<1>6. ASSUME NEW m \in 0 .. Len(ss) PROVE Joint(ss, m) \in Seq(X)
  <2> DEFINE a == [i \in 1 .. m |-> ss[i]]
  <2>1. a \in Seq(Seq(X))
    BY <1>4
  <2> HIDE DEF a
  <2>2. FlattenSeq(a) \in Seq(X)
    BY <2>1, FlatType
  <2>3. QED
    BY <2>2 DEF Joint, a
<1>7. QED
  BY <1>2, <1>3, <1>5, <1>6

\* Where an element of the joined sequences stands.
LEMMA JointPlace ==
  ASSUME NEW X, NEW ss \in Seq(Seq(X)), NEW m \in 0 .. Len(ss) - 1, NEW f \in 1 .. Len(ss[m + 1])
  PROVE  /\ Len(Joint(ss, m)) \in Nat
         /\ Len(Joint(ss, m)) + f \in 1 .. Len(FlattenSeq(ss))
         /\ FlattenSeq(ss)[Len(Joint(ss, m)) + f] = ss[m + 1][f]
<1>0. /\ Len(ss) \in Nat /\ m \in Nat /\ m \in 0 .. Len(ss) /\ Joint(ss, m) \in Seq(X)
      /\ ss[m + 1] \in Seq(X) /\ Joint(ss, m + 1) = Joint(ss, m) \o ss[m + 1]
  <2>1. Len(ss) \in Nat /\ m \in Nat /\ m \in 0 .. Len(ss)
    BY LenProperties
  <2>2. QED
    BY <2>1, JointNext
<1>1. PICK at : at = Len(Joint(ss, m)) + f
  OBVIOUS
<1>2. Len(Joint(ss, m)) \in Nat /\ at \in Nat \ {0} /\ f \in Nat \ {0}
  BY <1>0, <1>1, LenProperties
<1> DEFINE N == Len(ss) - m - 1
           S == {n \in Nat : /\ at \in 1 .. Len(Joint(ss, m + 1 + n))
                             /\ Joint(ss, m + 1 + n)[at] = ss[m + 1][f]}
<1>3. 0 \in S
  <2>1. /\ Len(Joint(ss, m + 1)) = Len(Joint(ss, m)) + Len(ss[m + 1])
        /\ Len(ss[m + 1]) \in Nat
        /\ (Joint(ss, m) \o ss[m + 1])[at] =
             IF at <= Len(Joint(ss, m)) THEN Joint(ss, m)[at] ELSE ss[m + 1][at - Len(Joint(ss, m))]
    <3>1. PICK a \in Seq(X), b \in Seq(X) : a = Joint(ss, m) /\ b = ss[m + 1]
      BY <1>0
    <3>2. /\ Len(a) \in Nat /\ Len(b) \in Nat /\ Len(a \o b) = Len(a) + Len(b)
          /\ \A i \in 1 .. Len(a) + Len(b) : (a \o b)[i] = IF i <= Len(a) THEN a[i] ELSE b[i - Len(a)]
      OBVIOUS
    <3>3. at = Len(a) + f /\ f \in 1 .. Len(b)
      BY <1>1, <3>1
    <3>4. at \in 1 .. Len(a) + Len(b)
      BY <3>2, <3>3
    <3>5. QED
      BY <1>0, <3>1, <3>2, <3>4
  <2>2. at \in 1 .. Len(Joint(ss, m + 1)) /\ ~(at <= Len(Joint(ss, m))) /\ at - Len(Joint(ss, m)) = f
    BY <1>1, <1>2, <2>1, SMTT(60)
  <2>3. Joint(ss, m + 1)[at] = ss[m + 1][f]
    BY <1>0, <2>1, <2>2
  <2>4. m + 1 + 0 = m + 1 /\ 0 \in Nat
    BY <1>0
  <2>5. QED
    BY <2>2, <2>3, <2>4
<1>4. \A n \in 0 .. N - 1 : n \in S => n + 1 \in S
  <2>1. SUFFICES ASSUME NEW n \in 0 .. N - 1, n \in S PROVE n + 1 \in S
    OBVIOUS
  <2>a. /\ n \in Nat /\ m + 1 + n \in 0 .. Len(ss) - 1 /\ m + 1 + n \in 0 .. Len(ss)
        /\ (m + 1 + n) + 1 = m + 1 + (n + 1) /\ n + 1 \in Nat
    <3>1. n \in Nat /\ n <= N - 1
      BY <1>0, <2>1
    <3>2. QED
      BY <1>0, <3>1
  <2>2. /\ n \in Nat /\ m + 1 + n \in 0 .. Len(ss) - 1 /\ m + 1 + n \in 0 .. Len(ss)
        /\ (m + 1 + n) + 1 = m + 1 + (n + 1)
        /\ at \in 1 .. Len(Joint(ss, m + 1 + n)) /\ Joint(ss, m + 1 + n)[at] = ss[m + 1][f]
    <3>1. n \in S
      BY <2>1
    <3>2. QED
      BY <2>a, <3>1
  <2>3. PICK k : k = m + 1 + n
    OBVIOUS
  <2>4. /\ ss[k + 1] \in Seq(X) /\ Joint(ss, k) \in Seq(X)
        /\ Joint(ss, k + 1) = Joint(ss, k) \o ss[k + 1]
    BY <2>2, <2>3, JointNext
  <2>5. at \in 1 .. Len(Joint(ss, k + 1)) /\ Joint(ss, k + 1)[at] = Joint(ss, k)[at]
    <3>1. PICK a \in Seq(X), b \in Seq(X) : a = Joint(ss, k) /\ b = ss[k + 1]
      BY <2>4
    <3>2. /\ Len(a) \in Nat /\ Len(b) \in Nat /\ Len(a \o b) = Len(a) + Len(b)
          /\ \A i \in 1 .. Len(a) + Len(b) : (a \o b)[i] = IF i <= Len(a) THEN a[i] ELSE b[i - Len(a)]
      OBVIOUS
    <3>3. at \in 1 .. Len(a)
      BY <2>2, <2>3, <3>1
    <3>4. at \in 1 .. Len(a) + Len(b) /\ at <= Len(a)
      BY <3>2, <3>3
    <3>5. QED
      BY <2>4, <3>1, <3>2, <3>4
  <2>6. QED
    BY <2>2, <2>3, <2>5
<1>5. \A n \in 0 .. N : n \in S
  <2>1. N \in Nat
    BY <1>0
  <2> HIDE DEF S, N
  <2>2. QED
    BY <1>3, <1>4, <2>1, CountingTo
<1>6. N \in 0 .. N /\ m + 1 + N = Len(ss)
  BY <1>0
<1>7. Joint(ss, Len(ss)) = FlattenSeq(ss)
  BY JointNext
<1>8. QED
  <2>1. N \in S
    BY <1>5, <1>6
  <2>2. at \in 1 .. Len(Joint(ss, m + 1 + N)) /\ Joint(ss, m + 1 + N)[at] = ss[m + 1][f]
    BY <2>1
  <2>3. QED
    BY <1>1, <1>2, <1>6, <1>7, <2>2, Zenon
-----------------------------------------------------------------------------
(* Sequences without repetitions *)

Items(s) == {s[n] : n \in DOMAIN s}
Distinct(s) == \A m, n \in DOMAIN s : s[m] = s[n] => m = n

LEMMA DistinctConcat ==
  ASSUME NEW s \in Seq(Nat), NEW t \in Seq(Nat), Distinct(s), Distinct(t),
         Items(s) \cap Items(t) = {}
  PROVE  Distinct(s \o t)
<1>1. /\ Len(s) \in Nat /\ Len(t) \in Nat
      /\ DOMAIN s = 1 .. Len(s) /\ DOMAIN t = 1 .. Len(t)
      /\ DOMAIN (s \o t) = 1 .. Len(s) + Len(t)
      /\ \A n \in 1 .. Len(s) + Len(t) : (s \o t)[n] = IF n <= Len(s) THEN s[n] ELSE t[n - Len(s)]
  OBVIOUS
<1>2. SUFFICES ASSUME NEW m \in 1 .. Len(s) + Len(t), NEW n \in 1 .. Len(s) + Len(t),
                      (s \o t)[m] = (s \o t)[n]
               PROVE  m = n
  BY <1>1 DEF Distinct
<1>3. \A i \in 1 .. Len(s), j \in 1 .. Len(t) : s[i] # t[j]
  BY <1>1 DEF Items
<1>4. CASE m <= Len(s) /\ n <= Len(s)
  <2>1. m \in DOMAIN s /\ n \in DOMAIN s /\ s[m] = s[n]
    BY <1>1, <1>2, <1>4
  <2>2. QED
    BY <2>1 DEF Distinct
<1>5. CASE m > Len(s) /\ n > Len(s)
  <2>1. m - Len(s) \in DOMAIN t /\ n - Len(s) \in DOMAIN t /\ t[m - Len(s)] = t[n - Len(s)]
    BY <1>1, <1>2, <1>5
  <2>2. m - Len(s) = n - Len(s)
    BY <2>1 DEF Distinct
  <2>3. QED
    BY <1>1, <1>2, <2>2
<1>6. CASE m <= Len(s) /\ n > Len(s)
  <2>1. m \in 1 .. Len(s) /\ n - Len(s) \in 1 .. Len(t) /\ s[m] = t[n - Len(s)]
    BY <1>1, <1>2, <1>6
  <2>2. QED
    BY <1>3, <2>1
<1>7. CASE m > Len(s) /\ n <= Len(s)
  <2>1. n \in 1 .. Len(s) /\ m - Len(s) \in 1 .. Len(t) /\ s[n] = t[m - Len(s)]
    BY <1>1, <1>2, <1>7
  <2>2. QED
    BY <1>3, <2>1
<1>8. QED
  BY <1>1, <1>4, <1>5, <1>6, <1>7

\* Sequences without repetitions and without a common item, joined.
LEMMA FlatDistinct ==
  ASSUME NEW ss \in Seq(Seq(Nat)), \A i \in 1 .. Len(ss) : Distinct(ss[i]),
         \A i, j \in 1 .. Len(ss) : i # j => Items(ss[i]) \cap Items(ss[j]) = {}
  PROVE  /\ FlattenSeq(ss) \in Seq(Nat) /\ Distinct(FlattenSeq(ss))
         /\ Items(FlattenSeq(ss)) = UNION {Items(ss[i]) : i \in 1 .. Len(ss)}
<1> DEFINE N == Len(ss)
           U(n) == UNION {Items(ss[i]) : i \in 1 .. n}
           S == {n \in Nat : Distinct(Joint(ss, n)) /\ Items(Joint(ss, n)) = U(n)}
<1>0. N \in Nat /\ \A n \in 0 .. N : Joint(ss, n) \in Seq(Nat)
  BY JointNext, LenProperties
<1>1. 0 \in S
  <2>1. Joint(ss, 0) = <<>> /\ U(0) = {}
    BY JointNext
  <2>2. QED
    BY <2>1 DEF Distinct, Items
<1>2. \A n \in 0 .. N - 1 : n \in S => n + 1 \in S
  <2>1. SUFFICES ASSUME NEW n \in 0 .. N - 1, n \in S PROVE n + 1 \in S
    OBVIOUS
  <2>2. /\ n \in Nat /\ n \in 0 .. N /\ n + 1 \in 1 .. N /\ n + 1 \in Nat
        /\ Distinct(Joint(ss, n)) /\ Items(Joint(ss, n)) = U(n)
    BY <1>0, <2>1
  <2>3. PICK a \in Seq(Nat), b \in Seq(Nat) :
          a = Joint(ss, n) /\ b = ss[n + 1] /\ Joint(ss, n + 1) = a \o b
    <3>1. n \in 0 .. Len(ss) - 1
      BY <1>0, <2>1
    <3>2. ss[n + 1] \in Seq(Nat) /\ Joint(ss, n) \in Seq(Nat) /\ Joint(ss, n + 1) = Joint(ss, n) \o ss[n + 1]
      BY <1>0, <2>2, <3>1, JointNext
    <3>3. QED
      BY <3>2
  <2>4. U(n + 1) = U(n) \cup Items(b)
    <3>1. \A i : i \in 1 .. n + 1 <=> i \in 1 .. n \/ i = n + 1
      BY <2>2
    <3>2. QED
      BY <2>3, <3>1
  <2>5. Items(a) \cap Items(b) = {}
    <3>1. \A i \in 1 .. n : i \in 1 .. N /\ i # n + 1
      BY <1>0, <2>1
    <3>2. \A i \in 1 .. n : Items(ss[i]) \cap Items(b) = {}
      BY <2>2, <2>3, <3>1
    <3>3. QED
      BY <2>2, <2>3, <3>2
  <2>6. Distinct(a \o b)
    BY <2>2, <2>3, <2>5, DistinctConcat
  <2>7. Items(a \o b) = Items(a) \cup Items(b)
    BY JoinedItems DEF Items
  <2>8. Items(Joint(ss, n + 1)) = U(n + 1)
    BY <2>2, <2>3, <2>4, <2>7, Zenon
  <2>9. QED
    BY <2>2, <2>3, <2>6, <2>8
<1>3. \A n \in 0 .. N : n \in S
  <2> HIDE DEF S, N
  <2>1. QED
    BY <1>0, <1>1, <1>2, CountingTo
<1>4. N \in 0 .. N /\ Joint(ss, N) = FlattenSeq(ss)
  BY <1>0, JointNext
<1>5. QED
  BY <1>0, <1>3, <1>4, Zenon

LEMMA DistinctLength ==
  ASSUME NEW X, NEW s \in Seq(X), Distinct(s)
  PROVE  IsFiniteSet(Items(s)) /\ Cardinality(Items(s)) = Len(s)
<1>1. Len(s) \in Nat /\ DOMAIN s = 1 .. Len(s) /\ s = [n \in 1 .. Len(s) |-> s[n]]
  BY LenProperties
<1>2. s \in Bijection(1 .. Len(s), Items(s))
  <2>1. s \in [1 .. Len(s) -> Items(s)]
    BY <1>1 DEF Items
  <2>2. \A y \in Items(s) : \E n \in 1 .. Len(s) : s[n] = y
    BY <1>1 DEF Items
  <2>3. \A m, n \in 1 .. Len(s) : s[m] = s[n] => m = n
    BY <1>1 DEF Distinct
  <2>4. QED
    BY <1>1, <2>1, <2>2, <2>3 DEF Bijection, Injection, Surjection, IsInjective
<1>3. ExistsBijection(1 .. Len(s), Items(s))
  BY <1>2 DEF ExistsBijection
<1>4. QED
  BY <1>1, <1>3, UpTo, FS_Bijection
-----------------------------------------------------------------------------
(* Places, and sets in order *)

LEMMA PlacesAre ==
  ASSUME NEW a \in Nat, NEW w \in Nat
  PROVE  LET s == Places(a + 1, a + w) IN
         /\ s \in Seq(Nat) /\ Len(s) = w /\ DOMAIN s = 1 .. w
         /\ \A i \in 1 .. w : s[i] = a + i
         /\ Distinct(s) /\ Items(s) = a + 1 .. a + w
<1> DEFINE s == Places(a + 1, a + w)
<1>1. (a + w) - (a + 1) + 1 = w /\ \A i \in 1 .. w : a + 1 + i - 1 = a + i
  OBVIOUS
<1>2. s = [i \in 1 .. w |-> a + 1 + i - 1]
  BY <1>1 DEF Places
<1>3. s \in [1 .. w -> Nat] /\ \A i \in 1 .. w : s[i] = a + i
  BY <1>1, <1>2
<1> HIDE DEF s
<1>4. s \in Seq(Nat) /\ DOMAIN s = 1 .. w
  BY <1>3, SeqDef
<1>5. Len(s) = w
  BY <1>4, LenProperties
<1>6. Distinct(s)
  BY <1>3, <1>4 DEF Distinct
<1>7. Items(s) = a + 1 .. a + w
  <2>1. \A x \in a + 1 .. a + w : x - a \in 1 .. w /\ s[x - a] = x
    BY <1>3
  <2>2. \A i \in 1 .. w : s[i] \in a + 1 .. a + w
    BY <1>3
  <2>3. QED
    BY <1>4, <2>1, <2>2 DEF Items
<1>8. QED
  BY <1>3, <1>4, <1>5, <1>6, <1>7 DEF s

LEMMA PlacesConcat ==
  ASSUME NEW a \in Nat, NEW v \in Nat, NEW w \in Nat
  PROVE  Places(a + 1, a + v) \o Places(a + v + 1, a + v + w) = Places(a + 1, a + v + w)
<1>1. a + v \in Nat /\ v + w \in Nat /\ a + (v + w) = a + v + w
  OBVIOUS
<1>2. PICK s, t, u : /\ s = Places(a + 1, a + v) /\ t = Places(a + v + 1, a + v + w)
                     /\ u = Places(a + 1, a + v + w)
  OBVIOUS
<1>3. s \in Seq(Nat) /\ Len(s) = v /\ \A i \in 1 .. v : s[i] = a + i
  BY <1>2, PlacesAre
<1>4. t \in Seq(Nat) /\ Len(t) = w /\ \A i \in 1 .. w : t[i] = a + v + i
  <2>1. PICK b \in Nat : b = a + v
    BY <1>1
  <2>2. QED
    BY <1>2, <2>1, PlacesAre
<1>5. u \in Seq(Nat) /\ Len(u) = v + w /\ \A i \in 1 .. v + w : u[i] = a + i
  <2>1. PICK b \in Nat : b = v + w
    BY <1>1
  <2>2. u = Places(a + 1, a + b)
    BY <1>1, <1>2, <2>1
  <2>3. QED
    BY <2>1, <2>2, PlacesAre
<1>6. s \o t \in Seq(Nat) /\ Len(s \o t) = v + w
      /\ \A i \in 1 .. v + w : (s \o t)[i] = IF i <= v THEN s[i] ELSE t[i - v]
  <2>0. s \in Seq(Nat) /\ t \in Seq(Nat)
    BY <1>3, <1>4
  <2>1. /\ s \o t \in Seq(Nat) /\ Len(s \o t) = Len(s) + Len(t)
        /\ \A i \in 1 .. Len(s) + Len(t) :
             (s \o t)[i] = IF i <= Len(s) THEN s[i] ELSE t[i - Len(s)]
    BY <2>0
  <2>2. QED
    BY <1>3, <1>4, <2>1
<1>7. \A i \in 1 .. v + w : (s \o t)[i] = u[i]
  <2>1. TAKE i \in 1 .. v + w
  <2>2. CASE i <= v
    BY <1>3, <1>5, <1>6, <2>2
  <2>3. CASE i > v
    <3>1. i - v \in 1 .. w /\ a + v + (i - v) = a + i /\ ~(i <= v)
      BY <2>1, <2>3
    <3>2. (s \o t)[i] = t[i - v]
      BY <1>6, <2>1, <3>1
    <3>3. t[i - v] = a + i
      BY <1>4, <3>1
    <3>4. QED
      BY <1>5, <2>1, <3>2, <3>3
  <2>4. i <= v \/ i > v
    BY <2>1
  <2>5. QED
    BY <2>2, <2>3, <2>4
<1>8. s \o t = u
  BY <1>5, <1>6, <1>7, SeqEqual
<1>9. QED
  BY <1>2, <1>8

\* m neighbouring pieces of w places.
Piece(a, w, j) == Places(a + (j - 1) * w + 1, a + j * w)

LEMMA PiecesOfPlaces ==
  ASSUME NEW a \in Nat, NEW w \in Nat, NEW m \in Nat, NEW ss \in Seq(Seq(Nat)), Len(ss) = m,
         \A j \in 1 .. m : ss[j] = Piece(a, w, j)
  PROVE  FlattenSeq(ss) = Places(a + 1, a + m * w)
<1> DEFINE S == {n \in Nat : Joint(ss, n) = Places(a + 1, a + n * w)}
<1>1. 0 \in S
  <2>1. 0 * w = 0 /\ a + 0 = a
    OBVIOUS
  <2>2. Places(a + 1, a) = <<>>
    BY DEF Places
  <2>3. QED
    BY <2>1, <2>2, JointNext
<1>2. \A n \in 0 .. m - 1 : n \in S => n + 1 \in S
  <2>1. SUFFICES ASSUME NEW n \in 0 .. m - 1, n \in S PROVE n + 1 \in S
    OBVIOUS
  <2>2. /\ n \in Nat /\ n + 1 \in 1 .. m /\ Joint(ss, n) = Places(a + 1, a + n * w)
        /\ n \in 0 .. Len(ss) - 1
    BY <2>1
  <2>3. PICK v \in Nat : v = n * w
    BY <2>2
  <2>4. (n + 1 - 1) * w = v /\ (n + 1) * w = v + w /\ a + (v + w) = a + v + w
    BY <2>2, <2>3
  <2>5. ss[n + 1] = Places(a + v + 1, a + v + w)
    <3>1. ss[n + 1] = Places(a + (n + 1 - 1) * w + 1, a + (n + 1) * w)
      BY <2>2 DEF Piece
    <3>2. QED
      BY <2>4, <3>1
  <2>6. Joint(ss, n + 1) = Joint(ss, n) \o ss[n + 1]
    BY <2>2, JointNext
  <2>7. Joint(ss, n + 1) = Places(a + 1, a + (n + 1) * w)
    <3>1. Places(a + 1, a + v) \o Places(a + v + 1, a + v + w) = Places(a + 1, a + v + w)
      BY <2>3, PlacesConcat, ZenonT(60)
    <3>2. Joint(ss, n) = Places(a + 1, a + v)
      BY <2>2, <2>3
    <3>3. QED
      BY <2>4, <2>5, <2>6, <3>1, <3>2
  <2>8. QED
    BY <2>2, <2>7
<1>3. \A n \in 0 .. m : n \in S
  <2> HIDE DEF S
  <2>1. QED
    BY <1>1, <1>2, CountingTo
<1>4. m \in S
  BY <1>3
<1>5. QED
  BY <1>4, JointNext

\* Pieces of one length.
LEMMA FlatLength ==
  ASSUME NEW w \in Nat, NEW ss \in Seq(Seq(Nat)), \A j \in 1 .. Len(ss) : Len(ss[j]) = w
  PROVE  Len(FlattenSeq(ss)) = Len(ss) * w
<1> DEFINE m == Len(ss)
           S == {n \in Nat : Len(Joint(ss, n)) = n * w}
<1>0. m \in Nat
  OBVIOUS
<1>1. 0 \in S
  BY JointNext
<1>2. \A n \in 0 .. m - 1 : n \in S => n + 1 \in S
  <2>1. SUFFICES ASSUME NEW n \in 0 .. m - 1, n \in S PROVE n + 1 \in S
    OBVIOUS
  <2>2. n \in Nat /\ n \in 0 .. Len(ss) /\ n + 1 \in 1 .. Len(ss) /\ Len(Joint(ss, n)) = n * w
    BY <1>0, <2>1
  <2>3. PICK a \in Seq(Nat), b \in Seq(Nat) :
          a = Joint(ss, n) /\ b = ss[n + 1] /\ Joint(ss, n + 1) = a \o b
    <3>1. Joint(ss, n) \in Seq(Nat) /\ ss[n + 1] \in Seq(Nat) /\ Joint(ss, n + 1) = Joint(ss, n) \o ss[n + 1]
      BY <2>1, <2>2, JointNext
    <3>2. QED
      BY <3>1
  <2>4. Len(a \o b) = Len(a) + Len(b)
    OBVIOUS
  <2>5. Len(b) = w /\ Len(a) = n * w /\ (n + 1) * w = n * w + w
    BY <2>2, <2>3
  <2>6. QED
    BY <2>2, <2>3, <2>4, <2>5, SMTT(60)
<1>3. \A n \in 0 .. m : n \in S
  <2> HIDE DEF S, m
  <2>1. QED
    BY <1>0, <1>1, <1>2, CountingTo
<1>4. m \in S
  BY <1>0, <1>3
<1>5. QED
  BY <1>4, JointNext

\* The items of a set in increasing order.
LEMMA InOrderIs ==
  ASSUME NEW S \in SUBSET Nat, IsFiniteSet(S)
  PROVE  /\ InOrder(S) \in Seq(S) /\ Len(InOrder(S)) = Cardinality(S)
         /\ Distinct(InOrder(S)) /\ Items(InOrder(S)) = S
<1> DEFINE c == Cardinality(S)
           Below(x) == {y \in S : y < x}
           place == [x \in S |-> Cardinality(Below(x)) + 1]
<1>0. c \in Nat
  BY FS_CardinalityType
<1>1. \A x \in S : IsFiniteSet(Below(x)) /\ Cardinality(Below(x)) \in Nat
  <2>1. \A x \in S : Below(x) \in SUBSET S
    OBVIOUS
  <2>2. QED
    BY <2>1, FS_Subset, FS_CardinalityType
<1>2. \A x, y \in S : x < y => Cardinality(Below(x)) < Cardinality(Below(y))
  <2>1. SUFFICES ASSUME NEW x \in S, NEW y \in S, x < y
                 PROVE  Cardinality(Below(x)) < Cardinality(Below(y))
    OBVIOUS
  <2>2. Below(x) \cup {x} \subseteq Below(y) /\ x \notin Below(x)
    <3>1. x \in Nat /\ y \in Nat
      OBVIOUS
    <3>2. \A z \in S : z \in Nat /\ (z < x => z < y)
      BY <2>1, <3>1
    <3>3. x \in Below(y) /\ x \notin Below(x)
      BY <2>1, <3>1
    <3>4. Below(x) \subseteq Below(y)
      BY <3>2
    <3> HIDE DEF Below
    <3>5. QED
      BY <3>3, <3>4
  <2> HIDE DEF Below
  <2>3. Cardinality(Below(x) \cup {x}) = Cardinality(Below(x)) + 1
    BY <1>1, <2>2, FS_AddElement
  <2>4. Cardinality(Below(x) \cup {x}) <= Cardinality(Below(y))
    BY <1>1, <2>2, FS_Subset
  <2>5. QED
    BY <1>1, <2>3, <2>4
<1>3. \A x \in S : Cardinality(Below(x)) < c
  <2>1. TAKE x \in S
  <2>2. Below(x) \cup {x} \subseteq S /\ x \notin Below(x)
    OBVIOUS
  <2> HIDE DEF Below
  <2>3. Cardinality(Below(x) \cup {x}) = Cardinality(Below(x)) + 1
    BY <1>1, <2>2, FS_AddElement
  <2>4. Cardinality(Below(x) \cup {x}) <= c
    BY <2>2, FS_Subset
  <2>5. QED
    BY <1>0, <1>1, <2>3, <2>4
<1>4. place \in [S -> 1 .. c]
  <2>1. \A x \in S : Cardinality(Below(x)) + 1 \in 1 .. c
    BY <1>0, <1>1, <1>3
  <2>2. QED
    BY <2>1
<1>5. \A x, y \in S : Cardinality(Below(x)) = Cardinality(Below(y)) => x = y
  <2>1. \A x, y \in S : x < y \/ y < x \/ x = y
    OBVIOUS
  <2> HIDE DEF Below
  <2>2. QED
    BY <1>1, <1>2, <2>1
<1>6. place \in Injection(S, 1 .. c)
  <2>1. \A x, y \in S : place[x] = place[y] => x = y
    <3> HIDE DEF Below
    <3>1. QED
      BY <1>1, <1>5
  <2> HIDE DEF place
  <2>2. QED
    BY <1>4, <2>1 DEF Injection, IsInjective
<1>7. place \in Surjection(S, 1 .. c)
  <2> HIDE DEF place
  <2>1. IsFiniteSet(1 .. c) /\ Cardinality(1 .. c) = Cardinality(S)
    BY <1>0, UpTo
  <2>2. QED
    BY <1>6, <2>1, FS_Injection
<1>8. \A n \in 1 .. c : \E x \in S : Cardinality(Below(x)) = n - 1
  <2>1. TAKE n \in 1 .. c
  <2>2. \E x \in S : place[x] = n
    <3> HIDE DEF place
    <3>1. QED
      BY <1>7 DEF Surjection
  <2>3. PICK x \in S : Cardinality(Below(x)) + 1 = n
    BY <2>2
  <2>4. Cardinality(Below(x)) = n - 1
    <3> HIDE DEF Below
    <3>1. QED
      BY <1>1, <2>3
  <2>5. QED
    BY <2>4
<1> DEFINE s == InOrder(S)
<1>9. s = [n \in 1 .. c |-> CHOOSE x \in S : Cardinality(Below(x)) = n - 1]
  BY DEF InOrder
<1>10. \A n \in 1 .. c : s[n] \in S /\ Cardinality(Below(s[n])) = n - 1
  <2> HIDE DEF Below
  <2>1. TAKE n \in 1 .. c
  <2>2. s[n] = CHOOSE x \in S : Cardinality(Below(x)) = n - 1
    BY <1>9
  <2>3. QED
    BY <1>8, <2>2
<1>11. s \in [1 .. c -> S]
  <2>1. DOMAIN s = 1 .. c /\ s = [n \in 1 .. c |-> s[n]]
    BY <1>9
  <2> HIDE DEF s
  <2>2. QED
    BY <1>10, <2>1
<1> HIDE DEF s
<1>12. s \in Seq(S) /\ DOMAIN s = 1 .. c
  BY <1>0, <1>11, SeqDef
<1>13. Len(s) = c
  BY <1>0, <1>12, LenProperties
<1>14. Distinct(s)
  <2>1. \A m, n \in 1 .. c : s[m] = s[n] => m = n
    <3> HIDE DEF Below
    <3>1. TAKE m \in 1 .. c, n \in 1 .. c
    <3>2. HAVE s[m] = s[n]
    <3>3. m - 1 = n - 1
      BY <1>10, <3>2
    <3>4. QED
      BY <1>0, <3>3
  <2>2. QED
    BY <1>12, <2>1 DEF Distinct
<1>15. Items(s) = S
  <2>1. ASSUME NEW x \in S PROVE \E n \in 1 .. c : s[n] = x
    <3> DEFINE n == Cardinality(Below(x)) + 1
    <3>1. n \in 1 .. c /\ n - 1 = Cardinality(Below(x))
      <4> HIDE DEF Below
      <4>1. QED
        BY <1>0, <1>1, <1>3
    <3> HIDE DEF n
    <3>2. s[n] \in S /\ Cardinality(Below(s[n])) = Cardinality(Below(x))
      BY <1>10, <3>1, Zenon
    <3>3. s[n] = x
      BY <1>5, <3>2, Zenon
    <3>4. QED
      BY <3>1, <3>3
  <2>2. Items(s) \subseteq S
    BY <1>10, <1>12 DEF Items
  <2>3. QED
    BY <1>12, <2>1, <2>2 DEF Items
<1>16. QED
  BY <1>12, <1>13, <1>14, <1>15 DEF s
-----------------------------------------------------------------------------
(* The folds *)

LEMMA Highest ==
  ASSUME NEW s \in SUBSET Nat, NEW n \in s, \A x \in s : x <= n
  PROVE  Max(s) = n
<1>1. \A x \in s : (\A y \in s : x >= y) <=> x = n
  OBVIOUS
<1>2. QED
  BY <1>1 DEF Max

SumOverFold(list, seq, n, it) ==
  it = [s \in SUBSET (1 .. n) |-> IF s = {} THEN 0 ELSE it[s \ {Max(s)}] + list[seq[Max(s)]]]

LEMMA SumOverFolds ==
  ASSUME NEW list, NEW X, NEW seq \in Seq(X)
  PROVE  \E it : /\ SumOver(list, seq) = it[1 .. Len(seq)] /\ it[1 .. 0] = 0
                 /\ \A n \in 0 .. Len(seq) - 1 : it[1 .. n + 1] = it[1 .. n] + list[seq[n + 1]]
<1>1. DOMAIN seq = 1 .. Len(seq) /\ Len(seq) \in Nat
  BY LenProperties
<1>2. \E it : SumOverFold(list, seq, Len(seq), it)
  <2> DEFINE S == {n \in Nat : \E it : SumOverFold(list, seq, n, it)}
  <2>1. 0 \in S
    <3>1. SumOverFold(list, seq, 0, [s \in {{}} |-> 0])
      <4>1. SUBSET (1 .. 0) = {{}}
        OBVIOUS
      <4>2. QED
        BY <4>1 DEF SumOverFold
    <3>2. QED
      BY <3>1
  <2>2. \A n \in S : n + 1 \in S
    <3>1. SUFFICES ASSUME NEW n \in S PROVE n + 1 \in S
      OBVIOUS
    <3>2. n \in Nat /\ \E it : SumOverFold(list, seq, n, it)
      BY <3>1
    <3>3. PICK it : SumOverFold(list, seq, n, it)
      BY <3>2
    <3>4. \A s \in SUBSET (1 .. n) :
            it[s] = IF s = {} THEN 0 ELSE it[s \ {Max(s)}] + list[seq[Max(s)]]
      BY <3>3, Zenon DEF SumOverFold
    <3> DEFINE on == [s \in SUBSET (1 .. n + 1) |->
                        IF n + 1 \in s THEN it[s \ {n + 1}] + list[seq[n + 1]] ELSE it[s]]
    <3>5. \A s \in SUBSET (1 .. n + 1) :
            on[s] = IF s = {} THEN 0 ELSE on[s \ {Max(s)}] + list[seq[Max(s)]]
      <4>1. TAKE s \in SUBSET (1 .. n + 1)
      <4>2. CASE n + 1 \in s
        <5>1. Max(s) = n + 1 /\ s # {}
          <6>1. s \in SUBSET Nat /\ \A x \in s : x <= n + 1
            BY <3>2, <4>1
          <6>2. QED
            BY <4>2, <6>1, Highest
        <5>2. s \ {n + 1} \in SUBSET (1 .. n) /\ n + 1 \notin s \ {n + 1}
          BY <3>2, <4>1
        <5>3. s \ {n + 1} \in SUBSET (1 .. n + 1)
          BY <4>1
        <5>4. on[s \ {n + 1}] = it[s \ {n + 1}] /\ on[s] = it[s \ {n + 1}] + list[seq[n + 1]]
          BY <4>1, <4>2, <5>2, <5>3
        <5> HIDE DEF on
        <5>5. QED
          BY <5>1, <5>4
      <4>3. CASE n + 1 \notin s
        <5>1. s \in SUBSET (1 .. n)
          BY <3>2, <4>1, <4>3
        <5>2. s \ {Max(s)} \in SUBSET (1 .. n + 1) /\ n + 1 \notin s \ {Max(s)}
          BY <4>1, <4>3
        <5>3. on[s] = it[s] /\ on[s \ {Max(s)}] = it[s \ {Max(s)}]
          BY <4>1, <4>3, <5>2
        <5> HIDE DEF on
        <5>4. QED
          BY <3>4, <5>1, <5>3
      <4>4. QED
        BY <4>2, <4>3
    <3>6. on = [s \in SUBSET (1 .. n + 1) |-> on[s]]
      BY Zenon
    <3> HIDE DEF on
    <3>7. SumOverFold(list, seq, n + 1, on)
      BY <3>5, <3>6, Zenon DEF SumOverFold
    <3>8. QED
      BY <3>2, <3>7
  <2>3. \A n \in Nat : n \in S
    <3> HIDE DEF S
    <3>1. S \in SUBSET Nat
      BY DEF S
    <3>2. QED
      BY <2>1, <2>2, <3>1, UpwardClosed
  <2>4. QED
    BY <1>1, <2>3
<1> DEFINE f == CHOOSE it : it = [s \in SUBSET (DOMAIN seq) |->
                  IF s = {} THEN 0 ELSE it[s \ {Max(s)}] + list[seq[Max(s)]]]
<1>3. SumOver(list, seq) = f[DOMAIN seq]
  BY DEF SumOver, FoldLeft, MapThenFoldSet
<1>4. f = CHOOSE it : SumOverFold(list, seq, Len(seq), it)
  BY <1>1 DEF SumOverFold
<1> HIDE DEF f
<1>5. SumOverFold(list, seq, Len(seq), f)
  BY <1>2, <1>4
<1>6. \A s \in SUBSET (1 .. Len(seq)) :
        f[s] = IF s = {} THEN 0 ELSE f[s \ {Max(s)}] + list[seq[Max(s)]]
  BY <1>5, Zenon DEF SumOverFold
<1>7. f[1 .. 0] = 0
  <2>1. 1 .. 0 = {} /\ {} \in SUBSET (1 .. Len(seq))
    OBVIOUS
  <2>2. QED
    BY <1>6, <2>1
<1>8. ASSUME NEW n \in 0 .. Len(seq) - 1
      PROVE  f[1 .. n + 1] = f[1 .. n] + list[seq[n + 1]]
  <2>a. n \in Nat /\ n + 1 <= Len(seq)
    BY <1>1
  <2>b. \A x \in 1 .. n + 1 : x \in 1 .. Len(seq) /\ x \in Nat /\ x <= n + 1
    BY <1>1, <2>a
  <2>c. n + 1 \in 1 .. n + 1 /\ \A x : x \in 1 .. n <=> x \in 1 .. n + 1 /\ x # n + 1
    BY <2>a
  <2>1. /\ n \in Nat /\ 1 .. n + 1 \in SUBSET (1 .. Len(seq)) /\ 1 .. n + 1 # {}
        /\ (1 .. n + 1) \ {n + 1} = 1 .. n
        /\ 1 .. n + 1 \in SUBSET Nat /\ n + 1 \in 1 .. n + 1 /\ \A x \in 1 .. n + 1 : x <= n + 1
    BY <2>a, <2>b, <2>c, Zenon
  <2>2. Max(1 .. n + 1) = n + 1
    BY <2>1, Highest
  <2>3. QED
    BY <1>6, <2>1, <2>2, Zenon
<1>9. QED
  BY <1>1, <1>3, <1>7, <1>8

\* Put of FirstFit.
Put(bins, length) ==
  LET fits == {i \in DOMAIN bins : bins[i] + length <= max_tokens_per_gpu}
  IN IF fits = {} THEN Append(bins, length) ELSE [bins EXCEPT ![Min(fits)] = @ + length]
FirstFitFold(seq, n, it) ==
  it = [s \in SUBSET (1 .. n) |-> IF s = {} THEN <<>> ELSE Put(it[s \ {Max(s)}], seq[Max(s)])]

LEMMA FirstFitFolds ==
  ASSUME NEW X, NEW seq \in Seq(X)
  PROVE  \E it : /\ FirstFit(seq) = it[1 .. Len(seq)] /\ it[1 .. 0] = <<>>
                 /\ \A n \in 0 .. Len(seq) - 1 : it[1 .. n + 1] = Put(it[1 .. n], seq[n + 1])
<1>1. DOMAIN seq = 1 .. Len(seq) /\ Len(seq) \in Nat
  BY LenProperties
<1>2. \E it : FirstFitFold(seq, Len(seq), it)
  <2> DEFINE S == {n \in Nat : \E it : FirstFitFold(seq, n, it)}
  <2>1. 0 \in S
    <3>1. FirstFitFold(seq, 0, [s \in {{}} |-> <<>>])
      <4>1. SUBSET (1 .. 0) = {{}}
        OBVIOUS
      <4>2. QED
        BY <4>1 DEF FirstFitFold
    <3>2. QED
      BY <3>1
  <2>2. \A n \in S : n + 1 \in S
    <3>1. SUFFICES ASSUME NEW n \in S PROVE n + 1 \in S
      OBVIOUS
    <3>2. n \in Nat /\ \E it : FirstFitFold(seq, n, it)
      BY <3>1
    <3>3. PICK it : FirstFitFold(seq, n, it)
      BY <3>2
    <3>4. \A s \in SUBSET (1 .. n) :
            it[s] = IF s = {} THEN <<>> ELSE Put(it[s \ {Max(s)}], seq[Max(s)])
      BY <3>3, Zenon DEF FirstFitFold
    <3> DEFINE on == [s \in SUBSET (1 .. n + 1) |->
                        IF n + 1 \in s THEN Put(it[s \ {n + 1}], seq[n + 1]) ELSE it[s]]
    <3>5. \A s \in SUBSET (1 .. n + 1) :
            on[s] = IF s = {} THEN <<>> ELSE Put(on[s \ {Max(s)}], seq[Max(s)])
      <4>1. TAKE s \in SUBSET (1 .. n + 1)
      <4>2. CASE n + 1 \in s
        <5>1. Max(s) = n + 1 /\ s # {}
          <6>1. s \in SUBSET Nat /\ \A x \in s : x <= n + 1
            BY <3>2, <4>1
          <6>2. QED
            BY <4>2, <6>1, Highest
        <5>2. s \ {n + 1} \in SUBSET (1 .. n) /\ n + 1 \notin s \ {n + 1}
          BY <3>2, <4>1
        <5>3. s \ {n + 1} \in SUBSET (1 .. n + 1)
          BY <4>1
        <5>4. on[s \ {n + 1}] = it[s \ {n + 1}] /\ on[s] = Put(it[s \ {n + 1}], seq[n + 1])
          BY <4>1, <4>2, <5>2, <5>3
        <5> HIDE DEF on
        <5>5. QED
          BY <5>1, <5>4
      <4>3. CASE n + 1 \notin s
        <5>1. s \in SUBSET (1 .. n)
          BY <3>2, <4>1, <4>3
        <5>2. s \ {Max(s)} \in SUBSET (1 .. n + 1) /\ n + 1 \notin s \ {Max(s)}
          BY <4>1, <4>3
        <5>3. on[s] = it[s] /\ on[s \ {Max(s)}] = it[s \ {Max(s)}]
          BY <4>1, <4>3, <5>2
        <5> HIDE DEF on
        <5>4. QED
          BY <3>4, <5>1, <5>3
      <4>4. QED
        BY <4>2, <4>3
    <3>6. on = [s \in SUBSET (1 .. n + 1) |-> on[s]]
      BY Zenon
    <3> HIDE DEF on
    <3>7. FirstFitFold(seq, n + 1, on)
      BY <3>5, <3>6, Zenon DEF FirstFitFold
    <3>8. QED
      BY <3>2, <3>7
  <2>3. \A n \in Nat : n \in S
    <3> HIDE DEF S
    <3>1. S \in SUBSET Nat
      BY DEF S
    <3>2. QED
      BY <2>1, <2>2, <3>1, UpwardClosed
  <2>4. QED
    BY <1>1, <2>3
<1> DEFINE f == CHOOSE it : it = [s \in SUBSET (DOMAIN seq) |->
                  IF s = {} THEN <<>> ELSE Put(it[s \ {Max(s)}], seq[Max(s)])]
<1>3. FirstFit(seq) = f[DOMAIN seq]
  BY DEF FirstFit, Put, FoldLeft, MapThenFoldSet
<1>4. f = CHOOSE it : FirstFitFold(seq, Len(seq), it)
  BY <1>1 DEF FirstFitFold
<1> HIDE DEF f
<1>5. FirstFitFold(seq, Len(seq), f)
  BY <1>2, <1>4
<1>6. \A s \in SUBSET (1 .. Len(seq)) :
        f[s] = IF s = {} THEN <<>> ELSE Put(f[s \ {Max(s)}], seq[Max(s)])
  BY <1>5, Zenon DEF FirstFitFold
<1>7. f[1 .. 0] = <<>>
  <2>1. 1 .. 0 = {} /\ {} \in SUBSET (1 .. Len(seq))
    OBVIOUS
  <2>2. QED
    BY <1>6, <2>1
<1>8. ASSUME NEW n \in 0 .. Len(seq) - 1
      PROVE  f[1 .. n + 1] = Put(f[1 .. n], seq[n + 1])
  <2>a. n \in Nat /\ n + 1 <= Len(seq)
    BY <1>1
  <2>b. \A x \in 1 .. n + 1 : x \in 1 .. Len(seq) /\ x \in Nat /\ x <= n + 1
    BY <1>1, <2>a
  <2>c. n + 1 \in 1 .. n + 1 /\ \A x : x \in 1 .. n <=> x \in 1 .. n + 1 /\ x # n + 1
    BY <2>a
  <2>1. /\ n \in Nat /\ 1 .. n + 1 \in SUBSET (1 .. Len(seq)) /\ 1 .. n + 1 # {}
        /\ (1 .. n + 1) \ {n + 1} = 1 .. n
        /\ 1 .. n + 1 \in SUBSET Nat /\ n + 1 \in 1 .. n + 1 /\ \A x \in 1 .. n + 1 : x <= n + 1
    BY <2>a, <2>b, <2>c, Zenon
  <2>2. Max(1 .. n + 1) = n + 1
    BY <2>1, Highest
  <2>3. QED
    BY <1>6, <2>1, <2>2, Zenon
<1>9. QED
  BY <1>1, <1>3, <1>7, <1>8

LEMMA SumOverIs ==
  ASSUME NEW list, NEW X, NEW seq \in Seq(X)
  PROVE  SumOver(list, seq) = SumTo([n \in 1 .. Len(seq) |-> list[seq[n]]], Len(seq))
<1> DEFINE d == [n \in 1 .. Len(seq) |-> list[seq[n]]]
<1>1. PICK it : /\ SumOver(list, seq) = it[1 .. Len(seq)] /\ it[1 .. 0] = 0
                /\ \A n \in 0 .. Len(seq) - 1 : it[1 .. n + 1] = it[1 .. n] + list[seq[n + 1]]
  BY SumOverFolds
<1> DEFINE S == {n \in Nat : it[1 .. n] = SumTo(d, n)}
<1>2. Len(seq) \in Nat
  BY LenProperties
<1>3. 0 \in S
  BY <1>1, SumSteps
<1>4. \A n \in 0 .. Len(seq) - 1 : n \in S => n + 1 \in S
  <2>1. SUFFICES ASSUME NEW n \in 0 .. Len(seq) - 1, n \in S PROVE n + 1 \in S
    OBVIOUS
  <2>2. n \in Nat /\ n + 1 \in Nat /\ n + 1 \in 1 .. Len(seq) /\ it[1 .. n] = SumTo(d, n)
    BY <1>2, <2>1
  <2>3. SumTo(d, n + 1) = SumTo(d, n) + d[n + 1] /\ d[n + 1] = list[seq[n + 1]]
    BY <2>2, SumSteps
  <2>4. it[1 .. n + 1] = it[1 .. n] + list[seq[n + 1]]
    BY <1>1, <2>1
  <2>5. it[1 .. n + 1] = SumTo(d, n + 1)
    BY <2>2, <2>3, <2>4, Zenon
  <2>6. QED
    BY <2>2, <2>5
<1>5. \A n \in 0 .. Len(seq) : n \in S
  <2> HIDE DEF S
  <2>1. QED
    BY <1>2, <1>3, <1>4, CountingTo
<1>6. Len(seq) \in S
  BY <1>2, <1>5
<1>7. QED
  BY <1>1, <1>6

\* Without repetitions, what a sequence of places weighs is what its set does.
LEMMA SumOverDistinct ==
  ASSUME NEW list \in Seq(Nat), NEW seq \in Seq(Nat), Distinct(seq), Items(seq) \subseteq 1 .. Len(list)
  PROVE  SumOver(list, seq) = Weight(list, Items(seq))
<1> DEFINE d == [n \in 1 .. Len(seq) |-> list[seq[n]]]
           U(n) == {seq[i] : i \in 1 .. n}
           S == {n \in Nat : SumTo(d, n) = Weight(list, U(n))}
<1>2. Len(seq) \in Nat /\ DOMAIN seq = 1 .. Len(seq)
  BY LenProperties
<1>3. 0 \in S
  <2>1. U(0) = {}
    OBVIOUS
  <2>2. QED
    BY <2>1, SumSteps, WeightOfNone
<1>4. \A n \in 0 .. Len(seq) - 1 : n \in S => n + 1 \in S
  <2>1. SUFFICES ASSUME NEW n \in 0 .. Len(seq) - 1, n \in S PROVE n + 1 \in S
    OBVIOUS
  <2>2. n \in Nat /\ n + 1 \in Nat /\ n + 1 \in 1 .. Len(seq) /\ SumTo(d, n) = Weight(list, U(n))
    <3>1. n \in Nat /\ n + 1 \in Nat /\ n + 1 \in 1 .. Len(seq)
      BY <1>2, <2>1
    <3>2. SumTo(d, n) = Weight(list, U(n))
      BY <2>1
    <3>3. QED
      BY <3>1, <3>2
  <2>3. SumTo(d, n + 1) = SumTo(d, n) + d[n + 1] /\ d[n + 1] = list[seq[n + 1]]
    BY <2>2, SumSteps
  <2>4. seq[n + 1] \in 1 .. Len(list)
    BY <1>2, <2>2 DEF Items
  <2>5. U(n + 1) = U(n) \cup {seq[n + 1]}
    <3>1. \A i : i \in 1 .. n + 1 <=> i \in 1 .. n \/ i = n + 1
      BY <2>2
    <3>2. QED
      BY <3>1
  <2>6. U(n) \cap {seq[n + 1]} = {}
    <3>1. \A i \in 1 .. n : i \in DOMAIN seq /\ n + 1 \in DOMAIN seq /\ i # n + 1
      BY <1>2, <2>2
    <3>2. \A i \in 1 .. n : seq[i] # seq[n + 1]
      BY <3>1 DEF Distinct
    <3>3. QED
      BY <3>2
  <2>7. Weight(list, U(n) \cup {seq[n + 1]}) = Weight(list, U(n)) + list[seq[n + 1]]
    <3> HIDE DEF U
    <3>1. Weight(list, {seq[n + 1]}) = list[seq[n + 1]]
      BY <2>4, WeightOfOne
    <3>2. QED
      BY <2>6, <3>1, WeightOfBoth, SMTT(60)
  <2>8. SumTo(d, n + 1) = Weight(list, U(n + 1))
    BY <2>2, <2>3, <2>5, <2>7, Zenon
  <2>9. QED
    BY <2>2, <2>8
<1>5. \A n \in 0 .. Len(seq) : n \in S
  <2> HIDE DEF S
  <2>1. QED
    BY <1>2, <1>3, <1>4, CountingTo
<1>6. Len(seq) \in S
  BY <1>2, <1>5
<1>7. U(Len(seq)) = Items(seq)
  BY <1>2 DEF Items
<1>8. QED
  BY <1>6, <1>7, SumOverIs

\* Lengths, and what counts of them: no more than max_tokens_per_gpu.
Capped(n) == IF n <= max_tokens_per_gpu THEN n ELSE max_tokens_per_gpu
CappedAll(seq) == [i \in 1 .. Len(seq) |-> Capped(seq[i])]

LEMMA CappedIs ==
  ASSUME NEW seq \in Seq(Nat)
  PROVE  /\ CappedAll(seq) \in Seq(Nat) /\ Len(CappedAll(seq)) = Len(seq) /\ Len(seq) \in Nat
         /\ \A i \in 1 .. Len(seq) :
              /\ seq[i] \in Nat
              /\ CappedAll(seq)[i] = Capped(seq[i])
              /\ CappedAll(seq)[i] \in Nat /\ CappedAll(seq)[i] <= max_tokens_per_gpu
<1>1. Len(seq) \in Nat /\ \A i \in 1 .. Len(seq) : seq[i] \in Nat
  OBVIOUS
<1>2. max_tokens_per_gpu \in Nat
  BY StepAssumption
<1>3. \A i \in 1 .. Len(seq) : Capped(seq[i]) \in Nat /\ Capped(seq[i]) <= max_tokens_per_gpu
  BY <1>1, <1>2 DEF Capped
<1>4. \A i \in 1 .. Len(seq) : CappedAll(seq)[i] = Capped(seq[i])
  BY DEF CappedAll
<1>5. CappedAll(seq) \in [1 .. Len(seq) -> Nat]
  BY <1>3 DEF CappedAll
<1>6. CappedAll(seq) \in Seq(Nat) /\ Len(CappedAll(seq)) = Len(seq)
  BY <1>1, <1>5, SeqDef, LenProperties
<1>7. QED
  BY <1>1, <1>3, <1>4, <1>6

\* One length more in the bins.
LEMMA PutIs ==
  ASSUME NEW bins \in Seq(Nat), NEW length \in Nat
  PROVE  /\ Put(bins, length) \in Seq(Nat)
         /\ SumTo(CappedAll(Put(bins, length)), Len(Put(bins, length)))
              = SumTo(CappedAll(bins), Len(bins)) + Capped(length)
<1> DEFINE fits == {i \in DOMAIN bins : bins[i] + length <= max_tokens_per_gpu}
<1>0. Len(bins) \in Nat /\ DOMAIN bins = 1 .. Len(bins) /\ \A i \in 1 .. Len(bins) : bins[i] \in Nat
  OBVIOUS
<1>1. CASE fits = {}
  <2>1. Put(bins, length) = Append(bins, length)
    BY <1>1 DEF Put
  <2>2. PICK more : more = Append(bins, length)
    OBVIOUS
  <2>3. /\ more \in Seq(Nat) /\ Len(more) = Len(bins) + 1 /\ more[Len(bins) + 1] = length
        /\ \A i \in 1 .. Len(bins) : more[i] = bins[i]
    BY <2>2
  <2>4. /\ Len(bins) + 1 \in 1 .. Len(more)
        /\ \A i \in 1 .. Len(bins) : i \in 1 .. Len(more)
    BY <1>0, <2>3
  <2>5. /\ CappedAll(more)[Len(bins) + 1] = Capped(length)
        /\ \A i \in 1 .. Len(bins) : CappedAll(more)[i] = CappedAll(bins)[i]
    <3>1. \A i \in 1 .. Len(more) : CappedAll(more)[i] = Capped(more[i])
      BY <2>3, CappedIs
    <3>2. \A i \in 1 .. Len(bins) : CappedAll(bins)[i] = Capped(bins[i])
      BY CappedIs
    <3>3. QED
      BY <2>3, <2>4, <3>1, <3>2
  <2>6. SumTo(CappedAll(more), Len(bins)) = SumTo(CappedAll(bins), Len(bins))
    BY <1>0, <2>5, SumSame
  <2>7. SumTo(CappedAll(more), Len(bins) + 1)
          = SumTo(CappedAll(more), Len(bins)) + CappedAll(more)[Len(bins) + 1]
    BY <1>0, SumSteps
  <2>8. QED
    BY <2>1, <2>2, <2>3, <2>5, <2>6, <2>7
<1>2. CASE fits # {}
  <2>0. fits \in SUBSET Nat
    BY <1>0
  <2>1. PICK low \in fits : \A m \in fits : low <= m
    <3> HIDE DEF fits
    <3>1. QED
      BY <1>2, <2>0, Least
  <2>2. Min(fits) \in fits
    <3> HIDE DEF fits
    <3>1. QED
      BY <2>1 DEF Min
  <2>3. Put(bins, length) = [bins EXCEPT ![Min(fits)] = bins[Min(fits)] + length]
    BY <1>2 DEF Put
  <2>4. PICK at \in 1 .. Len(bins) : at = Min(fits) /\ bins[at] + length <= max_tokens_per_gpu
    BY <1>0, <2>2
  <2>5. PICK more : more = [bins EXCEPT ![at] = bins[at] + length]
    OBVIOUS
  <2>6. /\ more \in Seq(Nat) /\ Len(more) = Len(bins)
        /\ \A i \in 1 .. Len(bins) : more[i] = IF i = at THEN bins[i] + length ELSE bins[i]
    BY <1>0, <2>5
  <2>7. SumTo(CappedAll(more), Len(bins)) = SumTo(CappedAll(bins), Len(bins)) + Capped(length)
    <3>1. /\ bins[at] \in Nat /\ max_tokens_per_gpu \in Nat
          /\ more[at] = bins[at] + length
          /\ \A i \in 1 .. Len(bins) : i # at => more[i] = bins[i]
      BY <1>0, <2>6, StepAssumption
    <3>2. Capped(bins[at] + length) = Capped(bins[at]) + Capped(length) /\ Capped(length) \in Nat
      BY <2>4, <3>1 DEF Capped
    <3>3. /\ \A i \in 1 .. Len(bins) : CappedAll(bins)[i] \in Nat
          /\ CappedAll(bins)[at] = Capped(bins[at])
          /\ CappedAll(more)[at] = Capped(bins[at] + length)
          /\ \A i \in 1 .. Len(bins) : i # at => CappedAll(more)[i] = CappedAll(bins)[i]
      <4>1. \A i \in 1 .. Len(more) : CappedAll(more)[i] = Capped(more[i])
        BY <2>6, CappedIs
      <4>2. \A i \in 1 .. Len(bins) :
              CappedAll(bins)[i] = Capped(bins[i]) /\ CappedAll(bins)[i] \in Nat
        BY CappedIs
      <4>3. QED
        BY <2>6, <3>1, <4>1, <4>2
    <3>4. CappedAll(more)[at] = CappedAll(bins)[at] + Capped(length)
      BY <3>2, <3>3
    <3>5. QED
      BY <1>0, <3>2, <3>3, <3>4, SumChange, ZenonT(150)
  <2>8. QED
    BY <2>3, <2>4, <2>5, <2>6, <2>7
<1>3. QED
  BY <1>1, <1>2

\* First fit loses no length, as far as lengths count.
LEMMA FirstFitIs ==
  ASSUME NEW seq \in Seq(Nat)
  PROVE  /\ FirstFit(seq) \in Seq(Nat)
         /\ SumTo(CappedAll(FirstFit(seq)), Len(FirstFit(seq))) = SumTo(CappedAll(seq), Len(seq))
<1>1. PICK it : /\ FirstFit(seq) = it[1 .. Len(seq)] /\ it[1 .. 0] = <<>>
                /\ \A n \in 0 .. Len(seq) - 1 : it[1 .. n + 1] = Put(it[1 .. n], seq[n + 1])
  BY FirstFitFolds
<1> DEFINE S == {n \in Nat : /\ it[1 .. n] \in Seq(Nat)
                             /\ SumTo(CappedAll(it[1 .. n]), Len(it[1 .. n]))
                                  = SumTo(CappedAll(seq), n)}
<1>2. Len(seq) \in Nat
  OBVIOUS
<1>3. 0 \in S
  <2>1. it[1 .. 0] \in Seq(Nat) /\ Len(it[1 .. 0]) = 0
    BY <1>1
  <2>2. SumTo(CappedAll(it[1 .. 0]), 0) = 0 /\ SumTo(CappedAll(seq), 0) = 0
    BY SumSteps
  <2>3. QED
    BY <2>1, <2>2
<1>4. \A n \in 0 .. Len(seq) - 1 : n \in S => n + 1 \in S
  <2>1. SUFFICES ASSUME NEW n \in 0 .. Len(seq) - 1, n \in S PROVE n + 1 \in S
    OBVIOUS
  <2>2. n \in Nat /\ n + 1 \in Nat /\ n + 1 \in 1 .. Len(seq)
    BY <1>2, <2>1
  <2>3. PICK bins \in Seq(Nat) :
          bins = it[1 .. n] /\ SumTo(CappedAll(bins), Len(bins)) = SumTo(CappedAll(seq), n)
    BY <2>1
  <2>4. PICK length \in Nat : length = seq[n + 1]
    BY <2>2
  <2>5. PICK more : more = Put(bins, length)
    OBVIOUS
  <2>6. /\ more \in Seq(Nat)
        /\ SumTo(CappedAll(more), Len(more)) = SumTo(CappedAll(bins), Len(bins)) + Capped(length)
    BY <2>3, <2>4, <2>5, PutIs
  <2>7. it[1 .. n + 1] = more
    BY <1>1, <2>1, <2>3, <2>4, <2>5
  <2>8. SumTo(CappedAll(seq), n + 1) = SumTo(CappedAll(seq), n) + Capped(length)
    <3>1. CappedAll(seq)[n + 1] = Capped(length)
      BY <2>2, <2>4, CappedIs
    <3>2. SumTo(CappedAll(seq), n + 1) = SumTo(CappedAll(seq), n) + CappedAll(seq)[n + 1]
      BY <2>2, SumSteps
    <3>3. QED
      BY <3>1, <3>2
  <2>9. QED
    BY <2>2, <2>3, <2>6, <2>7, <2>8
<1>5. \A n \in 0 .. Len(seq) : n \in S
  <2> HIDE DEF S
  <2>1. QED
    BY <1>2, <1>3, <1>4, CountingTo
<1>6. Len(seq) \in S
  BY <1>2, <1>5
<1>7. QED
  BY <1>1, <1>6
-----------------------------------------------------------------------------
(* What the sets of the heap hold: each item once, and the sum of their lengths *)

Whole(s, k, list) ==
  \A i \in 1 .. k :
    /\ Distinct(s[i].items) /\ Indices(s[i]) \subseteq 1 .. Len(list)
    /\ s[i].sum = Weight(list, Indices(s[i]))

ItemsInv ==
  /\ IsFiniteSet(states_pq)
  /\ \A s \in states_pq : Whole(s, k_partitions, seqlen_list)

LEMMA ImageIsFinite ==
  ASSUME NEW S, IsFiniteSet(S), NEW f
  PROVE  IsFiniteSet({f[x] : x \in S})
<1> DEFINE T == {f[x] : x \in S}
           g == [x \in S |-> f[x]]
<1>1. g \in Surjection(S, T)
  BY DEF Surjection
<1> HIDE DEF T, g
<1>2. IsFiniteSet(T)
  BY <1>1, FS_Surjection
<1>3. QED
  BY <1>2 DEF T

LEMMA SingleIsWhole ==
  ASSUME NEW list \in Seq(Nat), NEW x \in 1 .. Len(list)
  PROVE  /\ Distinct(Single(list, x).items) /\ Indices(Single(list, x)) \subseteq 1 .. Len(list)
         /\ Single(list, x).sum = Weight(list, Indices(Single(list, x)))
<1>1. Single(list, x).sum = list[x] /\ Indices(Single(list, x)) = {x}
  BY SingleSet
<1>2. Single(list, x).items = <<x>>
  BY DEF Single
<1>3. Distinct(<<x>>)
  BY DEF Distinct
<1>4. Weight(list, {x}) = list[x]
  BY WeightOfOne
<1>5. QED
  BY <1>1, <1>2, <1>3, <1>4

LEMMA NoItemsAreWhole ==
  ASSUME NEW list \in Seq(Nat)
  PROVE  /\ Distinct(NoItems.items) /\ Indices(NoItems) \subseteq 1 .. Len(list)
         /\ NoItems.sum = Weight(list, Indices(NoItems))
<1>1. NoItems.sum = 0 /\ NoItems.items = <<>> /\ Indices(NoItems) = {}
  BY EmptySet
<1>2. Distinct(<<>>)
  BY DEF Distinct
<1>3. Weight(list, {}) = 0
  BY WeightOfNone
<1>4. QED
  BY <1>1, <1>2, <1>3

LEMMA ApartIsFinite ==
  ASSUME NEW list, NEW k, Acceptable(list, k, FALSE)
  PROVE  IsFiniteSet(Apart(list, k))
<1>1. DOMAIN list = 1 .. Len(list) /\ Len(list) \in Nat
  BY DEF Acceptable
<1> DEFINE f == [x \in DOMAIN list |-> [i \in 1 .. k |-> IF i = 1 THEN Single(list, x) ELSE NoItems]]
<1>2. IsFiniteSet(DOMAIN list)
  BY <1>1, UpTo
<1>3. Apart(list, k) = {f[x] : x \in DOMAIN list}
  BY DEF Apart
<1> HIDE DEF f
<1>4. QED
  BY <1>2, <1>3, ImageIsFinite

LEMMA ChunksAreFinite ==
  ASSUME NEW list, NEW k, Acceptable(list, k, TRUE), NEW order
  PROVE  IsFiniteSet(Chunks(list, k, order))
<1> DEFINE m == Len(list) \div k
           S == 0 .. m - 1
           f == [c \in S |-> [i \in 1 .. k |-> Single(list, order[c * k + k + 1 - i])]]
<1>1. Len(list) \in Nat /\ k \in Nat \ {0}
  BY DEF Acceptable
<1>2. m \in Nat
  BY <1>1, Division
<1>3. Chunks(list, k, order) = {f[c] : c \in S}
  BY DEF Chunks
<1> HIDE DEF m, f
<1>4. IsFiniteSet(S)
  <2>1. 0 \in Int /\ m - 1 \in Int
    BY <1>2
  <2>2. QED
    BY <2>1, FS_Interval, Zenon
<1> HIDE DEF S
<1>5. QED
  BY <1>3, <1>4, ImageIsFinite

LEMMA ApartIsWhole ==
  ASSUME NEW list, NEW k, Acceptable(list, k, FALSE), NEW s \in Apart(list, k)
  PROVE  Whole(s, k, list)
<1>1. list \in Seq(Nat) /\ DOMAIN list = 1 .. Len(list)
  BY DEF Acceptable
<1>2. PICK x \in 1 .. Len(list) : s = [i \in 1 .. k |-> IF i = 1 THEN Single(list, x) ELSE NoItems]
  BY <1>1 DEF Apart
<1>3. \A i \in 1 .. k : s[i] = Single(list, x) \/ s[i] = NoItems
  BY <1>2
<1>4. QED
  BY <1>1, <1>3, SingleIsWhole, NoItemsAreWhole DEF Whole

LEMMA ChunksAreWhole ==
  ASSUME NEW list, NEW k, Acceptable(list, k, TRUE), NEW order \in Ascending(list),
         NEW s \in Chunks(list, k, order)
  PROVE  Whole(s, k, list)
<1> DEFINE N == Len(list)
           m == N \div k
<1>1. /\ list \in Seq(Nat) /\ k \in Nat \ {0} /\ N \in Nat /\ DOMAIN list = 1 .. N
      /\ N % k = 0
  BY DEF Acceptable
<1>2. N = m * k /\ m \in Nat
  <2>1. N = k * m + (N % k) /\ m \in Nat
    BY <1>1, Division
  <2>2. N % k = 0 /\ N \in Nat /\ k \in Nat
    BY <1>1
  <2> HIDE DEF m, N
  <2>3. N = k * m /\ k * m = m * k
    BY <2>1, <2>2
  <2>4. QED
    BY <2>1, <2>3
<1>3. order \in [1 .. N -> 1 .. N]
  <2>1. order \in Bijection(1 .. N, 1 .. N)
    BY <1>1 DEF Ascending
  <2>2. QED
    BY <2>1, Bijective
<1>4. PICK c \in 0 .. m - 1 : s = [i \in 1 .. k |-> Single(list, order[c * k + k + 1 - i])]
  BY DEF Chunks
<1> HIDE DEF m, N
<1>5. ASSUME NEW i \in 1 .. k PROVE \E x \in 1 .. N : s[i] = Single(list, x)
  <2>1. c * k + k + 1 - i \in 1 .. m * k
    BY <1>1, <1>2, ChunkPlace
  <2>2. order[c * k + k + 1 - i] \in 1 .. N
    BY <1>2, <1>3, <2>1
  <2>3. QED
    BY <1>4, <2>2
<1>6. QED
  BY <1>1, <1>5, SingleIsWhole DEF Whole, N

\* The sets that a merge joins have no item in common, or it would be in two
\* states of the heap.
LEMMA MergedIsWhole ==
  ASSUME NEW list \in Seq(Nat), NEW k \in Nat \ {0},
         NEW pq, Once(pq, k), \A s \in pq : s \in StateOf(k) /\ Whole(s, k, list),
         NEW a \in pq, NEW b \in pq, a # b, NEW c \in Sortings(Joined(a, b))
  PROVE  Whole(c, k, list)
<1> DEFINE m(i) == k + 1 - i
<1>1. a \in StateOf(k) /\ b \in StateOf(k) /\ Whole(a, k, list) /\ Whole(b, k, list)
  OBVIOUS
<1>2. PICK p \in Bijection(1 .. k, 1 .. k) :
        /\ \A i \in 1 .. k :
             /\ p[i] \in 1 .. k /\ m(p[i]) \in 1 .. k
             /\ c[i].sum = a[p[i]].sum + b[m(p[i])].sum
             /\ c[i].items = a[p[i]].items \o b[m(p[i])].items
        /\ c \in StateOf(k)
        /\ \A i, j \in 1 .. k : i < j => ~Greater(c[j], c[i])
  BY <1>1, MergedState
<1> HIDE DEF m
<1> SUFFICES ASSUME NEW i \in 1 .. k
             PROVE  /\ Distinct(c[i].items) /\ Indices(c[i]) \subseteq 1 .. Len(list)
                    /\ c[i].sum = Weight(list, Indices(c[i]))
  BY DEF Whole
<1>3. p[i] \in 1 .. k /\ m(p[i]) \in 1 .. k
  BY <1>2
<1>4. a[p[i]] \in Set /\ b[m(p[i])] \in Set
  BY <1>1, <1>3 DEF StateOf
<1>5. PICK u \in Seq(Nat) : u = a[p[i]].items
  BY <1>4 DEF Set
<1>6. PICK v \in Seq(Nat) : v = b[m(p[i])].items
  BY <1>4 DEF Set
<1>7. c[i].items = u \o v /\ c[i].sum = a[p[i]].sum + b[m(p[i])].sum
  BY <1>2, <1>5, <1>6
<1>8. Indices(a[p[i]]) = Items(u) /\ Indices(b[m(p[i])]) = Items(v)
  BY <1>5, <1>6 DEF Indices, Items
<1>9. Items(u) \cap Items(v) = {}
  BY <1>3, <1>8 DEF Once
<1>10. Distinct(u) /\ Distinct(v)
  BY <1>1, <1>3, <1>5, <1>6 DEF Whole
<1>11. Distinct(u \o v)
  BY <1>9, <1>10, DistinctConcat
<1>12. Indices(c[i]) = Items(u) \cup Items(v)
  <2>1. {(u \o v)[n] : n \in DOMAIN (u \o v)} = {u[n] : n \in DOMAIN u} \cup {v[n] : n \in DOMAIN v}
    BY JoinedItems
  <2>2. QED
    BY <1>7, <2>1 DEF Indices, Items
<1>13. Items(u) \subseteq 1 .. Len(list) /\ Items(v) \subseteq 1 .. Len(list)
  BY <1>1, <1>3, <1>8 DEF Whole
<1>14. Weight(list, Items(u) \cup Items(v)) = Weight(list, Items(u)) + Weight(list, Items(v))
  BY <1>9, WeightOfBoth
<1>15. a[p[i]].sum = Weight(list, Items(u)) /\ b[m(p[i])].sum = Weight(list, Items(v))
  BY <1>1, <1>3, <1>8 DEF Whole
<1>16. QED
  BY <1>7, <1>11, <1>12, <1>13, <1>14, <1>15

LEMMA ItemsHold == BalanceSpec => []ItemsInv
<1>1. BalanceInit => ItemsInv
  BY FS_EmptySet DEF BalanceInit, ItemsInv
<1>2. IInv /\ ItemsInv /\ [BalanceNext]_balanceVars => ItemsInv'
  <2> SUFFICES ASSUME IInv, ItemsInv, [BalanceNext]_balanceVars PROVE ItemsInv'
    OBVIOUS
  <2>1. CASE Call
    <3>1. Acceptable(seqlen_list', k_partitions', equal_size') /\ equal_size' \in BOOLEAN
      BY <2>1 DEF Call, Acceptable
    <3>2. CASE equal_size' = TRUE
      <4>1. PICK order \in Ascending(seqlen_list') :
              states_pq' = Chunks(seqlen_list', k_partitions', order)
        BY <2>1, <3>2 DEF Call, Starts
      <4>2. QED
        BY <3>1, <3>2, <4>1, ChunksAreWhole, ChunksAreFinite DEF ItemsInv
    <3>3. CASE equal_size' = FALSE
      <4>1. states_pq' = Apart(seqlen_list', k_partitions')
        BY <2>1, <3>3 DEF Call, Starts
      <4>2. QED
        BY <3>1, <3>3, <4>1, ApartIsWhole, ApartIsFinite DEF ItemsInv
    <3>4. QED
      BY <3>1, <3>2, <3>3
  <2>2. CASE Merge
    <3>1. PICK ab \in Popped(states_pq) :
            \E c \in Sortings(Joined(ab[1], ab[2])) :
              states_pq' = (states_pq \ {ab[1], ab[2]}) \cup {c}
      BY <2>2 DEF Merge, MergesOf
    <3>2. PICK c \in Sortings(Joined(ab[1], ab[2])) :
            states_pq' = (states_pq \ {ab[1], ab[2]}) \cup {c}
      BY <3>1
    <3>3. ab[1] \in states_pq /\ ab[2] \in states_pq /\ ab[1] # ab[2]
      BY DEF Popped
    <3>4. /\ Acceptable(seqlen_list, k_partitions, equal_size)
          /\ HeapInv(states_pq, seqlen_list, k_partitions, equal_size)
      BY <3>3 DEF IInv
    <3>5. /\ seqlen_list \in Seq(Nat) /\ k_partitions \in Nat \ {0} /\ Once(states_pq, k_partitions)
          /\ \A s \in states_pq : s \in StateOf(k_partitions) /\ Whole(s, k_partitions, seqlen_list)
      BY <3>4 DEF Acceptable, HeapInv, Good, ItemsInv
    <3>6. Whole(c, k_partitions, seqlen_list)
      BY <3>3, <3>5, MergedIsWhole
    <3>7. UNCHANGED arguments
      BY <2>2 DEF Merge
    <3>8. IsFiniteSet(states_pq')
      <4>1. IsFiniteSet(states_pq \ {ab[1], ab[2]})
        <5>1. IsFiniteSet(states_pq) /\ states_pq \ {ab[1], ab[2]} \in SUBSET states_pq
          BY DEF ItemsInv
        <5>2. QED
          BY <5>1, FS_Subset
      <4>2. QED
        BY <3>2, <4>1, FS_AddElement
    <3>9. QED
      BY <3>2, <3>6, <3>7, <3>8 DEF ItemsInv, arguments
  <2>3. CASE Return
    BY <2>3, FS_EmptySet DEF Return, ItemsInv
  <2>4. CASE UNCHANGED balanceVars
    BY <2>4 DEF balanceVars, arguments, ItemsInv
  <2>5. QED
    BY <2>1, <2>2, <2>3, <2>4 DEF BalanceNext
<1>3. QED
  BY <1>1, <1>2, InvariantHolds, PTL DEF BalanceSpec
-----------------------------------------------------------------------------
(* What karmarkar_karp returns *)

\* The sums of the partitions add up to that of the list.
LEMMA PartitionSums ==
  ASSUME NEW list \in Seq(Nat), NEW k \in Nat, NEW P,
         \A x \in 1 .. Len(list) : \E i \in 1 .. k : x \in P[i],
         \A i, j \in 1 .. k : i # j => P[i] \cap P[j] = {}
  PROVE  SumTo([i \in 1 .. k |-> Weight(list, P[i])], k) = SumTo(list, Len(list))
<1>1. 1 .. Len(list) \subseteq Spanned(P, k)
  BY DEF Spanned
<1>2. SumTo([i \in 1 .. k |-> Weight(list, P[i])], k) = Weight(list, Spanned(P, k))
  BY WeightsAddUp, ZenonT(60)
<1>3. Weight(list, Spanned(P, k)) = SumTo(list, Len(list))
  BY <1>1, WeightOfAll
<1>4. QED
  BY <1>2, <1>3

LEMMA Returned ==
  ASSUME IInv, ItemsInv, Return, NEW s \in states_pq
  PROVE  /\ seqlen_list \in Seq(Nat) /\ k_partitions \in Nat \ {0} /\ equal_size \in BOOLEAN
         /\ s \in StateOf(k_partitions) /\ DOMAIN s = 1 .. k_partitions
         /\ Whole(s, k_partitions, seqlen_list) /\ Even(s, k_partitions, seqlen_list)
         /\ equal_size => SameCount(s, k_partitions)
         /\ \A x \in 1 .. Len(seqlen_list) : \E i \in 1 .. k_partitions : x \in Indices(s[i])
         /\ \A i, j \in 1 .. k_partitions : i # j => Indices(s[i]) \cap Indices(s[j]) = {}
<1>1. states_pq = {s}
  <2>1. IsFiniteSet(states_pq) /\ Cardinality(states_pq) = 1
    BY DEF ItemsInv, Return
  <2>2. PICK t : states_pq = {t}
    BY <2>1, FS_Singleton
  <2>3. QED
    BY <2>2
<1>2. /\ Acceptable(seqlen_list, k_partitions, equal_size)
      /\ HeapInv(states_pq, seqlen_list, k_partitions, equal_size)
  BY DEF IInv
<1>3. /\ seqlen_list \in Seq(Nat) /\ k_partitions \in Nat \ {0} /\ equal_size \in BOOLEAN
      /\ Good(s, k_partitions, equal_size, seqlen_list)
  BY <1>2 DEF Acceptable, HeapInv
<1>4. /\ s \in StateOf(k_partitions) /\ Even(s, k_partitions, seqlen_list)
      /\ equal_size => SameCount(s, k_partitions)
  BY <1>3 DEF Good
<1>5. DOMAIN s = 1 .. k_partitions
  BY <1>4 DEF StateOf
<1>6. Whole(s, k_partitions, seqlen_list)
  BY DEF ItemsInv
<1>7. \A x \in 1 .. Len(seqlen_list) : \E i \in 1 .. k_partitions : x \in Indices(s[i])
  BY <1>1, <1>2 DEF HeapInv, Covered
<1>8. \A i, j \in 1 .. k_partitions : i # j => Indices(s[i]) \cap Indices(s[j]) = {}
  BY <1>2 DEF HeapInv, Once
<1>9. QED
  BY <1>3, <1>4, <1>5, <1>6, <1>7, <1>8

\* Partitions of one size hold as many items together as there are.
LEMMA PartitionCounts ==
  ASSUME NEW n \in Nat, NEW k \in Nat, NEW its, NEW c \in Nat,
         its \in [1 .. k -> Seq(Nat)], \A i \in 1 .. k : Distinct(its[i]),
         \A i \in 1 .. k : Len(its[i]) = c, \A i \in 1 .. k : Items(its[i]) \subseteq 1 .. n,
         \A x \in 1 .. n : \E i \in 1 .. k : x \in Items(its[i]),
         \A i, j \in 1 .. k : i # j => Items(its[i]) \cap Items(its[j]) = {}
  PROVE  n = k * c
<1> DEFINE ones == [x \in 1 .. n |-> 1]
           P == [i \in 1 .. k |-> Items(its[i])]
           w == [i \in 1 .. k |-> Weight(ones, P[i])]
<1>1. ones \in Seq(Nat) /\ Len(ones) = n /\ \A x \in 1 .. n : ones[x] = 1
  OBVIOUS
<1>2. SumTo(ones, Len(ones)) = n
  <2>1. \A x \in 1 .. n : ones[x] \in Nat /\ 1 <= ones[x] /\ ones[x] <= 1
    BY <1>1
  <2> HIDE DEF ones
  <2>2. SumTo(ones, n) \in Nat /\ n * 1 <= SumTo(ones, n) /\ SumTo(ones, n) <= n * 1
    BY <2>1, SumBetween, 1 \in Nat
  <2>3. QED
    BY <1>1, <2>2
<1>3. \A i \in 1 .. k : P[i] = Items(its[i])
  OBVIOUS
<1> HIDE DEF ones, P
<1>4. ASSUME NEW i \in 1 .. k PROVE w[i] = c
  <2> DEFINE d == [m \in 1 .. c |-> ones[its[i][m]]]
  <2>1. /\ its[i] \in Seq(Nat) /\ Distinct(its[i]) /\ Len(its[i]) = c
        /\ Items(its[i]) \subseteq 1 .. Len(ones)
    BY <1>1
  <2>2. SumOver(ones, its[i]) = Weight(ones, Items(its[i]))
    BY <1>1, <2>1, SumOverDistinct
  <2>3. SumOver(ones, its[i]) = SumTo(d, c)
    BY <2>1, SumOverIs
  <2>4. \A m \in 1 .. c : its[i][m] \in 1 .. n
    <3>1. PICK t \in Seq(Nat) : t = its[i]
      BY <2>1
    <3>2. Len(t) = c /\ Items(t) \subseteq 1 .. n /\ DOMAIN t = 1 .. c
      BY <3>1
    <3>3. \A m \in 1 .. c : t[m] \in Items(t)
      BY <3>2 DEF Items
    <3>4. \A m \in 1 .. c : t[m] \in 1 .. n
      BY <3>2, <3>3, Zenon
    <3>5. QED
      BY <3>1, <3>4
  <2>5. \A m \in 1 .. c : d[m] \in Nat /\ 1 <= d[m] /\ d[m] <= 1
    BY <1>1, <2>4
  <2> HIDE DEF d
  <2>6. SumTo(d, c) \in Nat /\ c * 1 <= SumTo(d, c) /\ SumTo(d, c) <= c * 1
    BY <2>5, SumBetween, 1 \in Nat
  <2>7. SumTo(d, c) = c
    BY <2>6
  <2>8. Weight(ones, P[i]) = c
    BY <1>3, <2>2, <2>3, <2>7
  <2>9. QED
    BY <2>8
<1>5. SumTo(w, k) = n
  <2>1. \A x \in 1 .. Len(ones) : \E i \in 1 .. k : x \in P[i]
    <3> SUFFICES ASSUME NEW x \in 1 .. n PROVE \E i \in 1 .. k : x \in P[i]
      BY <1>1
    <3>1. PICK i \in 1 .. k : x \in Items(its[i])
      OBVIOUS
    <3>2. P[i] = Items(its[i])
      BY <1>3
    <3>3. QED
      BY <3>1, <3>2
  <2>2. \A i, j \in 1 .. k : i # j => P[i] \cap P[j] = {}
    BY <1>3, Zenon
  <2>3. SumTo([i \in 1 .. k |-> Weight(ones, P[i])], k) = SumTo(ones, Len(ones))
    <3>1. ones \in Seq(Nat) /\ k \in Nat
      BY <1>1
    <3> HIDE DEF w
    <3>2. QED
      BY <2>1, <2>2, <3>1, PartitionSums, Zenon
  <2>4. QED
    BY <1>2, <2>3
<1> HIDE DEF w
<1>6. SumTo(w, k) \in Nat /\ k * c <= SumTo(w, k) /\ SumTo(w, k) <= k * c
  <2>1. \A i \in 1 .. k : w[i] \in Nat /\ c <= w[i] /\ w[i] <= c
    BY <1>4
  <2>2. QED
    BY <2>1, SumBetween
<1>7. PICK v \in Nat : v = k * c
  OBVIOUS
<1>8. QED
  BY <1>5, <1>6, <1>7

\* The weight of a set is that of one of its items and that of the others.
LEMMA WeightWithout ==
  ASSUME NEW list \in Seq(Nat), NEW S, NEW x \in 1 .. Len(list), x \in S
  PROVE  /\ list[x] \in Nat /\ Weight(list, S) \in Nat /\ Weight(list, S \ {x}) \in Nat
         /\ Weight(list, S) = Weight(list, S \ {x}) + list[x]
<1>1. S = (S \ {x}) \cup {x} /\ (S \ {x}) \cap {x} = {}
  OBVIOUS
<1>2. Weight(list, (S \ {x}) \cup {x}) = Weight(list, S \ {x}) + Weight(list, {x})
  <2> DEFINE T == S \ {x}
  <2>1. T \cap {x} = {}
    OBVIOUS
  <2> HIDE DEF T
  <2>2. Weight(list, T \cup {x}) = Weight(list, T) + Weight(list, {x})
    BY <2>1, WeightOfBoth
  <2>3. QED
    BY <2>2 DEF T
<1>3. Weight(list, {x}) = list[x] /\ list[x] \in Nat
  BY WeightOfOne, ElementOfSeq
<1>4. Weight(list, S) \in Nat /\ Weight(list, S \ {x}) \in Nat
  BY WeightsType
<1>5. QED
  BY <1>1, <1>2, <1>3, <1>4

\* Where nothing is over the cap all of a set counts, and else at least the cap.
LEMMA CappedWeight ==
  ASSUME NEW list \in Seq(Nat), NEW S
  PROVE  \/ Weight(CappedAll(list), S) = Weight(list, S)
         \/ \E x \in 1 .. Len(list) :
              /\ x \in S /\ max_tokens_per_gpu <= list[x]
              /\ Weight(CappedAll(list), S)
                   = Weight(CappedAll(list), S \ {x}) + max_tokens_per_gpu
<1> DEFINE cap == CappedAll(list)
<1>1. /\ cap \in Seq(Nat) /\ Len(cap) = Len(list) /\ Len(list) \in Nat
      /\ \A x \in 1 .. Len(list) : list[x] \in Nat /\ cap[x] = Capped(list[x])
  BY CappedIs
<1>2. max_tokens_per_gpu \in Nat
  BY StepAssumption
<1> HIDE DEF cap
<1>3. CASE \A x \in 1 .. Len(list) : x \in S => list[x] <= max_tokens_per_gpu
  <2>1. \A x \in 1 .. Len(list) : Weights(cap, S)[x] = Weights(list, S)[x]
    BY <1>1, <1>3 DEF Weights, Capped
  <2>2. SumTo(Weights(cap, S), Len(list)) = SumTo(Weights(list, S), Len(list))
    BY <1>1, <2>1, SumSame
  <2>3. QED
    BY <1>1, <2>2 DEF Weight, cap
<1>4. CASE \E x \in 1 .. Len(list) : x \in S /\ ~(list[x] <= max_tokens_per_gpu)
  <2>1. PICK x \in 1 .. Len(list) : x \in S /\ ~(list[x] <= max_tokens_per_gpu)
    BY <1>4
  <2>2. max_tokens_per_gpu <= list[x]
    BY <1>1, <1>2, <2>1
  <2>3. cap[x] = max_tokens_per_gpu
    BY <1>1, <2>1 DEF Capped
  <2>4. Weight(cap, S) = Weight(cap, S \ {x}) + cap[x]
    BY <1>1, <2>1, WeightWithout
  <2>5. QED
    BY <2>1, <2>2, <2>3, <2>4 DEF cap
<1>5. QED
  BY <1>3, <1>4

\* Finitely many numbers have a bound.
LEMMA Bounded ==
  ASSUME NEW N \in Nat, NEW f, \A i \in 1 .. N : f[i] \in Nat
  PROVE  \E b \in Nat : \A i \in 1 .. N : f[i] <= b
<1> DEFINE S == {n \in Nat : n <= N => \E b \in Nat : \A i \in 1 .. n : f[i] <= b}
<1>1. 0 \in S
  <2>1. \A i \in 1 .. 0 : f[i] <= 0
    OBVIOUS
  <2>2. QED
    BY <2>1
<1>2. ASSUME NEW n \in S PROVE n + 1 \in S
  <2> SUFFICES ASSUME n + 1 <= N PROVE \E b \in Nat : \A i \in 1 .. n + 1 : f[i] <= b
    OBVIOUS
  <2>1. PICK b \in Nat : \A i \in 1 .. n : f[i] <= b
    BY <1>2
  <2>2. n + 1 \in 1 .. N /\ f[n + 1] \in Nat
    BY <1>2
  <2>3. b + f[n + 1] \in Nat
    BY <2>2
  <2>4. ASSUME NEW i \in 1 .. n + 1 PROVE f[i] <= b + f[n + 1]
    <3>1. CASE i \in 1 .. n
      <4>1. f[i] \in Nat /\ f[i] <= b
        BY <1>2, <2>1, <3>1
      <4>2. QED
        BY <2>2, <4>1
    <3>2. CASE i = n + 1
      BY <2>2, <3>2
    <3>3. QED
      BY <1>2, <3>1, <3>2
  <2>5. QED
    BY <2>3, <2>4
<1>3. S \in SUBSET Nat
  OBVIOUS
<1> HIDE DEF S
<1>4. \A n \in Nat : n \in S
  BY <1>1, <1>2, <1>3, UpwardClosed
<1>5. N \in S /\ N <= N
  BY <1>4
<1>6. QED
  BY <1>5 DEF S

\* Where none is less than c and together they are k * c, each is c.
LEMMA EachIs ==
  ASSUME NEW k \in Nat, NEW c \in Nat, NEW v, \A i \in 1 .. k : v[i] \in Nat /\ c <= v[i],
         SumTo(v, k) <= k * c, NEW j \in 1 .. k
  PROVE  v[j] = c
<1> DEFINE u == [i \in 1 .. k |-> IF i = j THEN c ELSE v[i]]
<1>1. PICK x \in Nat : v[j] = c + x
  <2>1. v[j] \in Nat /\ c <= v[j]
    OBVIOUS
  <2>2. v[j] - c \in Nat /\ v[j] = c + (v[j] - c)
    BY <2>1
  <2>3. QED
    BY <2>2
<1>2. PICK b \in Nat : \A i \in 1 .. k : v[i] <= b
  BY Bounded
<1>3. u[j] = c /\ \A i \in 1 .. k : i # j => u[i] = v[i]
  OBVIOUS
<1> HIDE DEF u
<1>4. \A i \in 1 .. k : u[i] \in Nat /\ c <= u[i] /\ u[i] <= b + c
  <2> TAKE i \in 1 .. k
  <2>1. v[i] \in Nat /\ c <= v[i] /\ v[i] <= b
    BY <1>2
  <2>2. u[i] = c \/ u[i] = v[i]
    BY <1>3
  <2>3. QED
    BY <2>1, <2>2
<1>5. SumTo(v, k) = SumTo(u, k) + x
  <2>1. v[j] = u[j] + x /\ \A i \in 1 .. k : i # j => v[i] = u[i]
    BY <1>1, <1>3
  <2>2. \A i \in 1 .. k : u[i] \in Nat
    BY <1>4
  <2>3. QED
    BY <2>1, <2>2, SumChange, ZenonT(150)
<1>6. SumTo(u, k) \in Nat /\ k * c <= SumTo(u, k)
  <2>1. b + c \in Nat
    OBVIOUS
  <2>2. QED
    BY <1>4, <2>1, SumBetween
<1>7. PICK d \in Nat : d = k * c
  OBVIOUS
<1>8. x = 0
  BY <1>5, <1>6, <1>7
<1>9. QED
  BY <1>1, <1>8

\* Every place is in one of the sets.
Splits(P, k, list) ==
  /\ \A x \in 1 .. Len(list) : \E i \in 1 .. k : x \in P[i]
  /\ \A i, j \in 1 .. k : i # j => P[i] \cap P[j] = {}

\* With as many partitions as first fit opens bins, the lengths that count come to
\* no more than a full bin for each partition.
LEMMA PartitionsCount ==
  ASSUME NEW list \in Seq(Nat), NEW k \in Nat, NEW P, Splits(P, k, list),
         Len(FirstFit(list)) <= k,
         NEW v, v = [i \in 1 .. k |-> Weight(CappedAll(list), P[i])]
  PROVE  SumTo(v, k) <= k * max_tokens_per_gpu
<1> DEFINE c == max_tokens_per_gpu
           cap == CappedAll(list)
           bins == FirstFit(list)
           f == Len(bins)
           d == CappedAll(bins)
<1>1. bins \in Seq(Nat) /\ SumTo(d, f) = SumTo(cap, Len(list))
  BY FirstFitIs
<1>2. cap \in Seq(Nat) /\ Len(cap) = Len(list)
  BY CappedIs
<1>3. c \in Nat /\ f \in Nat /\ \A i \in 1 .. f : d[i] \in Nat /\ 0 <= d[i] /\ d[i] <= c
  BY <1>1, CappedIs, StepAssumption
<1> HIDE DEF cap
<1>4. SumTo([i \in 1 .. k |-> Weight(cap, P[i])], k) = SumTo(cap, Len(cap))
  <2>1. \A x \in 1 .. Len(cap) : \E i \in 1 .. k : x \in P[i]
    BY <1>2 DEF Splits
  <2>2. \A i, j \in 1 .. k : i # j => P[i] \cap P[j] = {}
    BY DEF Splits
  <2>3. QED
    BY <1>2, <2>1, <2>2, PartitionSums, ZenonT(60)
<1>5. f <= k
  OBVIOUS
<1> HIDE DEF c, bins, f, d
<1>6. SumTo(d, f) \in Nat /\ SumTo(d, f) <= f * c
  BY <1>3, SumBetween, 0 \in Nat
<1>7. f * c <= k * c /\ f * c \in Nat /\ k * c \in Nat
  BY <1>3, <1>5
<1>8. SumTo(cap, Len(list)) <= k * c
  BY <1>1, <1>6, <1>7
<1>9. QED
  BY <1>2, <1>4, <1>8 DEF c, cap

\* A partition that is over the cap is within it without one of its sequences:
\* either one partition is within the cap and no other heavier by more than one
\* of its own, or each has one sequence over the cap and nothing besides.
LEMMA PartitionsFit ==
  ASSUME NEW list \in Seq(Nat), NEW k \in Nat, NEW P, Splits(P, k, list),
         Len(FirstFit(list)) <= k,
         \A i, j \in 1 .. k :
           \/ Weight(list, P[i]) <= Weight(list, P[j])
           \/ \E x \in 1 .. Len(list) :
                x \in P[i] /\ Weight(list, P[i]) <= Weight(list, P[j]) + list[x],
         NEW i \in 1 .. k, Weight(list, P[i]) > max_tokens_per_gpu
  PROVE  \E x \in 1 .. Len(list) : x \in P[i] /\ Weight(list, P[i]) - list[x] <= max_tokens_per_gpu
<1> DEFINE c == max_tokens_per_gpu
           cap == CappedAll(list)
           w(j) == Weight(list, P[j])
           v == [j \in 1 .. k |-> Weight(cap, P[j])]
<1>1. c \in Nat \ {0}
  BY StepAssumption
<1>2. \A j \in 1 .. k : w(j) \in Nat
  BY WeightsType
<1>3. \A x \in 1 .. Len(list) : list[x] \in Nat
  BY ElementOfSeq
<1>4. cap \in Seq(Nat) /\ Len(cap) = Len(list)
  BY CappedIs
<1>5. \A j \in 1 .. k : v[j] = Weight(cap, P[j]) /\ v[j] \in Nat
  BY <1>4, WeightsType
<1>6. SumTo(v, k) <= k * c
  <2>1. v = [j \in 1 .. k |-> Weight(CappedAll(list), P[j])]
    OBVIOUS
  <2> HIDE DEF v
  <2>2. SumTo(v, k) <= k * max_tokens_per_gpu
    BY <2>1, PartitionsCount, ZenonT(60)
  <2>3. QED
    BY <2>2
<1>7. CASE \E j \in 1 .. k : w(j) <= c
  <2>1. PICK j \in 1 .. k : w(j) <= c
    BY <1>7
  <2>2. w(i) > c /\ w(i) \in Nat /\ w(j) \in Nat
    BY <1>2
  <2>3. ~(w(i) <= w(j))
    BY <1>1, <2>1, <2>2
  <2>4. PICK x \in 1 .. Len(list) : x \in P[i] /\ w(i) <= w(j) + list[x]
    BY <2>3
  <2>5. list[x] \in Nat
    BY <1>3
  <2> HIDE DEF c, w
  <2>6. w(i) - list[x] <= c
    BY <1>1, <2>1, <2>2, <2>4, <2>5
  <2>7. QED
    BY <2>4, <2>6 DEF c, w
<1>8. CASE \A j \in 1 .. k : ~(w(j) <= c)
  <2>1. \A j \in 1 .. k : c <= v[j]
    <3> TAKE j \in 1 .. k
    <3>1. CASE Weight(cap, P[j]) = Weight(list, P[j])
      BY <1>1, <1>2, <1>5, <1>8, <3>1
    <3>2. CASE \E x \in 1 .. Len(list) : Weight(cap, P[j]) = Weight(cap, P[j] \ {x}) + c
      <4>1. PICK x \in 1 .. Len(list) : Weight(cap, P[j]) = Weight(cap, P[j] \ {x}) + c
        BY <3>2
      <4>2. Weight(cap, P[j] \ {x}) \in Nat
        BY <1>4, WeightsType
      <4>3. QED
        BY <1>1, <1>5, <4>1, <4>2
    <3>3. QED
      BY <3>1, <3>2, CappedWeight
  <2>2. v[i] = c
    <3> HIDE DEF v, c
    <3>1. QED
      BY <1>1, <1>5, <1>6, <2>1, EachIs
  <2>3. Weight(cap, P[i]) = c /\ w(i) # c
    BY <1>1, <1>2, <1>5, <1>8, <2>2
  <2>4. PICK x \in 1 .. Len(list) :
          /\ x \in P[i] /\ c <= list[x]
          /\ Weight(cap, P[i]) = Weight(cap, P[i] \ {x}) + c
    BY <2>3, CappedWeight
  <2>5. Weight(cap, P[i] \ {x}) \in Nat /\ Weight(cap, P[i] \ {x}) = 0
    <3>1. Weight(cap, P[i] \ {x}) \in Nat
      BY <1>4, WeightsType
    <3>2. QED
      BY <1>1, <2>3, <2>4, <3>1
  <2>6. Weight(list, P[i] \ {x}) = 0
    <3> DEFINE R == P[i] \ {x}
    <3>0. Weight(cap, R) = 0
      BY <2>5
    <3> HIDE DEF R, c
    <3>1. CASE Weight(cap, R) = Weight(list, R)
      BY <3>0, <3>1 DEF R
    <3>2. CASE \E y \in 1 .. Len(list) : Weight(cap, R) = Weight(cap, R \ {y}) + c
      <4>1. PICK y \in 1 .. Len(list) : Weight(cap, R) = Weight(cap, R \ {y}) + c
        BY <3>2
      <4>2. Weight(cap, R \ {y}) \in Nat
        BY <1>4, WeightsType, ZenonT(60)
      <4>3. QED
        BY <1>1, <3>0, <4>1, <4>2
    <3>3. \/ Weight(cap, R) = Weight(list, R)
          \/ \E y \in 1 .. Len(list) : Weight(cap, R) = Weight(cap, R \ {y}) + c
      BY CappedWeight, ZenonT(60) DEF c
    <3>4. QED
      BY <3>1, <3>2, <3>3
  <2>7. Weight(list, P[i]) = Weight(list, P[i] \ {x}) + list[x] /\ list[x] \in Nat
    BY <2>4, WeightWithout
  <2>8. Weight(list, P[i]) - list[x] <= c
    BY <1>1, <2>6, <2>7
  <2>9. QED
    BY <2>4, <2>8
<1>9. QED
  BY <1>7, <1>8
-----------------------------------------------------------------------------
(* Arithmetic of the sizes *)

LEMMA Remainder ==
  ASSUME NEW k \in Nat \ {0}, NEW q \in Nat, NEW a \in 0 .. k - 1
  PROVE  (k * q + a) \div k = q /\ (k * q + a) % k = a
<1> DEFINE n == k * q + a
           d == n \div k
           b == n % k
<1>1. n \in Nat
  OBVIOUS
<1>2. n = k * d + b /\ b \in 0 .. k - 1 /\ d \in Nat
  BY <1>1, Division
<1>3. k * q + a = k * d + b
  BY <1>2
<1> HIDE DEF d, b, n
<1>4. k * q = q * k /\ k * d = d * k /\ q * k \in Nat /\ d * k \in Nat
  BY <1>2
<1>5. k - a \in 1 .. k /\ k - b \in 1 .. k
  BY <1>2
<1>6. q * k + k + 1 - (k - a) = d * k + k + 1 - (k - b)
  BY <1>2, <1>3, <1>4
<1>7. q = d /\ k - a = k - b
  BY <1>2, <1>5, <1>6, DistinctPlaces
<1>8. QED
  BY <1>2, <1>7 DEF n, d, b

LEMMA Cancelled ==
  ASSUME NEW k \in Nat \ {0}, NEW a \in Nat, NEW b \in Nat, k * a = k * b
  PROVE  a = b
<1>1. a * k + k + 1 - 1 = b * k + k + 1 - 1
  <2>1. k * a = a * k /\ k * b = b * k /\ a * k \in Nat /\ b * k \in Nat
    OBVIOUS
  <2>2. QED
    BY <2>1
<1>2. QED
  BY <1>1, DistinctPlaces, 1 \in 1 .. k

LEMMA Product ==
  ASSUME NEW a \in Nat, NEW b \in Nat, NEW c \in Nat
  PROVE  /\ a * b \in Nat /\ a * b = b * a /\ (a * b) * c = a * (b * c)
         /\ (a + b) * c = a * c + b * c /\ (a * b) * c = (a * c) * b
  OBVIOUS

\* The batch sizes divide as the arguments of a job have to.
LEMMA BatchSizes ==
  /\ num_local_gbs \in Nat \ {0} /\ global_batch_size = dp_size * num_local_gbs
  /\ num_local_gbs \div micro_batch_size \in Nat
  /\ num_local_gbs = (num_local_gbs \div micro_batch_size) * micro_batch_size
<1>1. /\ dp_size \in Nat \ {0} /\ global_batch_size \in Nat \ {0} /\ micro_batch_size \in Nat \ {0}
      /\ global_batch_size % (micro_batch_size * dp_size) = 0
  BY StepAssumption
<1> DEFINE m == micro_batch_size * dp_size
           q == global_batch_size \div m
           p == q * micro_batch_size
<1>2. m \in Nat \ {0}
  BY <1>1
<1>3. global_batch_size = m * q + (global_batch_size % m) /\ q \in Nat
  <2> HIDE DEF m
  <2>1. QED
    BY <1>1, <1>2, Division
<1>4. m * q \in Nat /\ global_batch_size % m = 0
  BY <1>1, <1>2, <1>3
<1>5. global_batch_size = m * q
  BY <1>1, <1>3, <1>4
<1> HIDE DEF q
<1>6. p \in Nat /\ m * q = dp_size * p
  BY <1>1, <1>3
<1>7. global_batch_size = dp_size * p + 0
  BY <1>1, <1>5, <1>6
<1> HIDE DEF p
<1>8. (dp_size * p + 0) \div dp_size = p
  <2>1. 0 \in 0 .. dp_size - 1
    BY <1>1
  <2>2. QED
    BY <1>1, <1>6, <2>1, Remainder
<1>9. num_local_gbs = p
  BY <1>7, <1>8 DEF num_local_gbs
<1>10. p # 0
  BY <1>1, <1>7
<1>11. p = micro_batch_size * q + 0
  BY <1>1, <1>3 DEF p
<1>12. (micro_batch_size * q + 0) \div micro_batch_size = q
  <2>1. 0 \in 0 .. micro_batch_size - 1
    BY <1>1
  <2>2. QED
    BY <1>1, <1>3, <2>1, Remainder
<1>13. p \div micro_batch_size = q
  BY <1>11, <1>12
<1>14. p = q * micro_batch_size
  BY DEF p
<1>15. global_batch_size = dp_size * p /\ p \in Nat \ {0}
  BY <1>1, <1>6, <1>7, <1>10
<1>16. QED
  BY <1>3, <1>9, <1>13, <1>14, <1>15, Zenon

\* A group of samples takes n_samples_per_prompt places.
LEMMA GroupOfIs ==
  ASSUME NEW x \in Nat \ {0}, NEW g \in Nat \ {0}
  PROVE  /\ GroupOf(x) \in Nat /\ (g - 1) * n_samples_per_prompt \in Nat
         /\ g * n_samples_per_prompt = (g - 1) * n_samples_per_prompt + n_samples_per_prompt
         /\ GroupOf(x) = g - 1 <=>
              x \in (g - 1) * n_samples_per_prompt + 1 .. g * n_samples_per_prompt
<1> DEFINE n == n_samples_per_prompt
           h == GroupOf(x)
           b == (x - 1) % n
<1>1. n \in Nat \ {0}
  BY StepAssumption
<1>2. x - 1 = n * h + b /\ b \in 0 .. n - 1 /\ h \in Nat
  <2>1. x - 1 \in Nat
    OBVIOUS
  <2>2. QED
    BY <1>1, <2>1, Division DEF GroupOf
<1> HIDE DEF n, h, b
<1>3. PICK d \in Nat : d = g - 1
  OBVIOUS
<1>4. d * n \in Nat /\ g * n = d * n + n
  BY <1>1, <1>3
<1>5. ASSUME h = d PROVE x \in d * n + 1 .. g * n
  <2>1. n * h = d * n
    BY <1>1, <1>5
  <2>2. QED
    BY <1>1, <1>2, <1>4, <2>1
<1>6. ASSUME x \in d * n + 1 .. g * n PROVE h = d
  <2> DEFINE a == x - 1 - d * n
  <2>1. a \in 0 .. n - 1 /\ x - 1 = n * d + a
    <3>1. n * d = d * n
      BY <1>1
    <3>2. QED
      BY <1>1, <1>4, <1>6, <3>1
  <2> HIDE DEF a
  <2>2. (n * d + a) \div n = d
    BY <1>1, <2>1, Remainder
  <2>3. (x - 1) \div n = d
    BY <2>1, <2>2
  <2>4. QED
    BY <2>3 DEF h, n, GroupOf
<1>7. (g - 1) * n = d * n
  BY <1>3
<1>8. QED
  BY <1>2, <1>3, <1>4, <1>5, <1>6, <1>7 DEF n, h

LEMMA GroupPlacesAre ==
  ASSUME NEW g \in Nat \ {0}
  PROVE  /\ GroupPlaces(g) \in Seq(Nat) /\ Len(GroupPlaces(g)) = n_samples_per_prompt
         /\ Distinct(GroupPlaces(g))
         /\ Items(GroupPlaces(g)) = {x \in Nat \ {0} : GroupOf(x) = g - 1}
<1> DEFINE n == n_samples_per_prompt
           a == (g - 1) * n
<1>1. n \in Nat /\ a \in Nat /\ g * n = a + n
  BY GroupOfIs, StepAssumption
<1>2. GroupPlaces(g) = Places(a + 1, a + n)
  BY <1>1 DEF GroupPlaces
<1> HIDE DEF a, n
<1>3. LET s == Places(a + 1, a + n) IN
      s \in Seq(Nat) /\ Len(s) = n /\ Distinct(s) /\ Items(s) = a + 1 .. a + n
  BY <1>1, PlacesAre
<1>4. ASSUME NEW x \in Nat \ {0} PROVE GroupOf(x) = g - 1 <=> x \in a + 1 .. a + n
  BY <1>1, GroupOfIs DEF a, n
<1>5. a + 1 .. a + n \subseteq Nat \ {0}
  BY <1>1
<1>6. a + 1 .. a + n = {x \in Nat \ {0} : GroupOf(x) = g - 1}
  BY <1>4, <1>5
<1>7. QED
  BY <1>2, <1>3, <1>6 DEF n
-----------------------------------------------------------------------------
(* The shares: every sample is in one of them *)

Dealt(sh, n) ==
  /\ sh \in [Ranks -> Seq(Nat)]
  /\ \A r \in Ranks : /\ Distinct(sh[r]) /\ Items(sh[r]) \subseteq 1 .. n
                      /\ dp_size * Len(sh[r]) = n
  /\ \A x \in 1 .. n : \E r \in Ranks : x \in Items(sh[r])
  /\ \A q, r \in Ranks : q # r => Items(sh[q]) \cap Items(sh[r]) = {}

GroupsApart(sh) ==
  \A q, r \in Ranks : q # r =>
    \A x \in Items(sh[q]), y \in Items(sh[r]) : GroupOf(x) # GroupOf(y)

LEMMA StridedIsDealt ==
  ASSUME NEW list, NEW c \in Nat, Len(list) = c * dp_size
  PROVE  Dealt(Strided(list), c * dp_size)
<1> DEFINE k == dp_size
           sh == Strided(list)
           at(n, r) == (n - 1) * k + r
<1>1. k \in Nat \ {0} /\ Ranks = 1 .. k
  BY Sizes
<1>2. ASSUME NEW r \in 1 .. k PROVE (Len(list) + k - r) \div k = c
  <2>1. k - r \in 0 .. k - 1 /\ c * k = k * c /\ c * k \in Nat
    BY <1>1
  <2> HIDE DEF k
  <2>2. (k * c + (k - r)) \div k = c
    BY <1>1, <2>1, Remainder
  <2>3. Len(list) + k - r = k * c + (k - r)
    BY <1>1, <2>1 DEF k
  <2>4. QED
    BY <2>2, <2>3
<1>3. sh = [r \in 1 .. k |-> [n \in 1 .. c |-> at(n, r)]]
  <2>1. sh = [r \in 1 .. k |-> [n \in 1 .. (Len(list) + k - r) \div k |-> at(n, r)]]
    BY <1>1 DEF Strided
  <2>2. QED
    BY <1>2, <2>1, Zenon
<1>4. ASSUME NEW n \in 1 .. c, NEW r \in 1 .. k
      PROVE  /\ at(n, r) \in 1 .. c * k
             /\ k + 1 - r \in 1 .. k /\ at(n, r) = (n - 1) * k + k + 1 - (k + 1 - r)
  <2>1. n - 1 \in 0 .. c - 1 /\ k + 1 - r \in 1 .. k /\ (n - 1) * k \in Nat
    BY <1>1
  <2>2. at(n, r) = (n - 1) * k + k + 1 - (k + 1 - r)
    BY <1>1, <2>1
  <2>3. (n - 1) * k + k + 1 - (k + 1 - r) \in 1 .. c * k
    BY <1>1, <2>1, ChunkPlace
  <2>4. QED
    BY <2>1, <2>2, <2>3
<1>5. ASSUME NEW m \in 1 .. c, NEW n \in 1 .. c, NEW q \in 1 .. k, NEW r \in 1 .. k,
             at(m, q) = at(n, r)
      PROVE  m = n /\ q = r
  <2>1. PICK i \in 1 .. k : i = k + 1 - q
    BY <1>4
  <2>2. PICK j \in 1 .. k : j = k + 1 - r
    BY <1>4
  <2>3. m - 1 \in Nat /\ n - 1 \in Nat
    OBVIOUS
  <2>4. (m - 1) * k + k + 1 - i = (n - 1) * k + k + 1 - j
    BY <1>4, <1>5, <2>1, <2>2
  <2>5. m - 1 = n - 1 /\ i = j
    BY <1>1, <2>3, <2>4, DistinctPlaces
  <2>6. QED
    BY <1>1, <2>1, <2>2, <2>5
<1>6. ASSUME NEW x \in 1 .. c * k PROVE \E n \in 1 .. c, r \in 1 .. k : x = at(n, r)
  <2>1. PICK m \in 0 .. c - 1, i \in 1 .. k : x = m * k + k + 1 - i
    BY <1>1, EveryPlace
  <2>2. m + 1 \in 1 .. c /\ k + 1 - i \in 1 .. k /\ m * k \in Nat
    BY <1>1
  <2>3. x = at(m + 1, k + 1 - i)
    BY <1>1, <2>1, <2>2
  <2>4. QED
    BY <2>2, <2>3
<1> HIDE DEF k, sh, at
<1>7. ASSUME NEW r \in 1 .. k
      PROVE  /\ sh[r] \in Seq(Nat) /\ Len(sh[r]) = c /\ DOMAIN sh[r] = 1 .. c
             /\ \A n \in 1 .. c : sh[r][n] = at(n, r)
  <2>1. sh[r] = [n \in 1 .. c |-> at(n, r)]
    BY <1>3
  <2>2. \A n \in 1 .. c : at(n, r) \in Nat
    <3>1. 1 .. c * k \subseteq Nat
      BY <1>1
    <3>2. QED
      BY <1>4, <3>1
  <2>3. QED
    BY <2>1, <2>2
<1>8. ASSUME NEW r \in 1 .. k
      PROVE  Distinct(sh[r]) /\ Items(sh[r]) = {at(n, r) : n \in 1 .. c}
  BY <1>5, <1>7 DEF Distinct, Items
<1>9. sh \in [1 .. k -> Seq(Nat)]
  BY <1>3, <1>7
<1>10. ASSUME NEW r \in 1 .. k
       PROVE  Items(sh[r]) \subseteq 1 .. c * k /\ k * Len(sh[r]) = c * k
  <2>1. Items(sh[r]) \subseteq 1 .. c * k
    <3>1. \A n \in 1 .. c : at(n, r) \in 1 .. c * k
      BY <1>4
    <3>2. Items(sh[r]) = {at(n, r) : n \in 1 .. c}
      BY <1>8
    <3>3. QED
      BY <3>1, <3>2, Zenon
  <2>2. Len(sh[r]) = c /\ k * c = c * k
    BY <1>1, <1>7
  <2>3. QED
    BY <2>1, <2>2
<1>11. \A x \in 1 .. c * k : \E r \in 1 .. k : x \in Items(sh[r])
  BY <1>6, <1>8
<1>12. \A q, r \in 1 .. k : q # r => Items(sh[q]) \cap Items(sh[r]) = {}
  <2> SUFFICES ASSUME NEW q \in 1 .. k, NEW r \in 1 .. k, q # r,
                      NEW x \in Items(sh[q]) \cap Items(sh[r])
               PROVE  FALSE
    OBVIOUS
  <2>1. PICK m \in 1 .. c : x = at(m, q)
    BY <1>8
  <2>2. PICK n \in 1 .. c : x = at(n, r)
    BY <1>8
  <2>3. QED
    BY <1>5, <2>1, <2>2
<1>13. QED
  BY <1>1, <1>8, <1>9, <1>10, <1>11, <1>12 DEF Dealt, k, sh

\* A list of groups, with all their samples.
LEMMA ExpandedIs ==
  ASSUME NEW o \in Seq(Nat \ {0}), Distinct(o)
  PROVE  /\ Expanded(o) \in Seq(Nat) /\ Distinct(Expanded(o))
         /\ Items(Expanded(o)) = {x \in Nat \ {0} : \E g \in Items(o) : GroupOf(x) = g - 1}
         /\ Len(Expanded(o)) = Len(o) * n_samples_per_prompt
<1> DEFINE ss == [m \in DOMAIN o |-> GroupPlaces(o[m])]
<1>1. DOMAIN o = 1 .. Len(o) /\ Len(o) \in Nat
  OBVIOUS
<1>2. \A m \in 1 .. Len(o) : o[m] \in Nat \ {0}
  OBVIOUS
<1>3. \A m \in 1 .. Len(o) : ss[m] = GroupPlaces(o[m])
  BY <1>1
<1>4. ss \in Seq(Seq(Nat)) /\ Len(ss) = Len(o)
  <2> DEFINE S == Seq(Nat)
  <2>1. \A m \in 1 .. Len(o) : GroupPlaces(o[m]) \in S
    BY <1>2, GroupPlacesAre
  <2> HIDE DEF S
  <2>2. ss \in Seq(S) /\ Len(ss) = Len(o)
    BY <1>1, <2>1
  <2>3. QED
    BY <2>2 DEF S
<1> HIDE DEF ss
<1>5. \A m \in 1 .. Len(ss) :
        /\ Distinct(ss[m]) /\ Len(ss[m]) = n_samples_per_prompt
        /\ Items(ss[m]) = {x \in Nat \ {0} : GroupOf(x) = o[m] - 1}
  BY <1>2, <1>3, <1>4, GroupPlacesAre
<1>6. \A i, j \in 1 .. Len(ss) : i # j => Items(ss[i]) \cap Items(ss[j]) = {}
  <2> SUFFICES ASSUME NEW i \in 1 .. Len(ss), NEW j \in 1 .. Len(ss), i # j,
                      NEW x \in Items(ss[i]) \cap Items(ss[j])
               PROVE  FALSE
    OBVIOUS
  <2>1. x \in Nat \ {0} /\ GroupOf(x) = o[i] - 1 /\ GroupOf(x) = o[j] - 1
    BY <1>5
  <2>2. o[i] \in Nat \ {0} /\ o[j] \in Nat \ {0} /\ i \in DOMAIN o /\ j \in DOMAIN o
    BY <1>1, <1>2, <1>4
  <2>3. o[i] = o[j]
    BY <2>1, <2>2
  <2>4. QED
    BY <2>2, <2>3 DEF Distinct
<1>7. /\ FlattenSeq(ss) \in Seq(Nat) /\ Distinct(FlattenSeq(ss))
      /\ Items(FlattenSeq(ss)) = UNION {Items(ss[i]) : i \in 1 .. Len(ss)}
  <2>1. \A m \in 1 .. Len(ss) : Distinct(ss[m])
    BY <1>5
  <2>2. QED
    BY <1>4, <1>6, <2>1, FlatDistinct
<1>8. Len(FlattenSeq(ss)) = Len(o) * n_samples_per_prompt
  <2>1. \A m \in 1 .. Len(ss) : Len(ss[m]) = n_samples_per_prompt
    BY <1>5
  <2>2. QED
    BY <1>4, <2>1, FlatLength, StepAssumption
<1>9. UNION {Items(ss[i]) : i \in 1 .. Len(ss)} =
        {x \in Nat \ {0} : \E g \in Items(o) : GroupOf(x) = g - 1}
  <2>1. \A g : g \in Items(o) <=> \E i \in 1 .. Len(ss) : g = o[i]
    BY <1>1, <1>4 DEF Items
  <2>2. ASSUME NEW x
        PROVE  x \in UNION {Items(ss[i]) : i \in 1 .. Len(ss)} <=>
                 \E i \in 1 .. Len(ss) : x \in Items(ss[i])
    OBVIOUS
  <2>3. ASSUME NEW x, NEW i \in 1 .. Len(ss)
        PROVE  x \in Items(ss[i]) <=> x \in Nat \ {0} /\ GroupOf(x) = o[i] - 1
    BY <1>5
  <2>4. QED
    BY <2>1, <2>2, <2>3, ZenonT(40)
<1>10. Expanded(o) = FlattenSeq(ss)
  BY DEF Expanded, ss
<1>11. QED
  BY <1>7, <1>8, <1>9, <1>10

\* With balance_data a rank gets all the samples of the groups of its partition.
LEMMA PartitionIsDealt ==
  ASSUME NEW s, NEW G \in Nat, NEW c \in Nat,
         s \in [Ranks -> Set], \A r \in Ranks : Distinct(s[r].items),
         \A r \in Ranks : Len(s[r].items) = c, \A r \in Ranks : Indices(s[r]) \subseteq 1 .. G,
         \A g \in 1 .. G : \E r \in Ranks : g \in Indices(s[r]),
         \A q, r \in Ranks : q # r => Indices(s[q]) \cap Indices(s[r]) = {}
  PROVE  /\ Dealt([r \in Ranks |-> Expanded(InOrder(Indices(s[r])))], G * n_samples_per_prompt)
         /\ GroupsApart([r \in Ranks |-> Expanded(InOrder(Indices(s[r])))])
<1> DEFINE n == n_samples_per_prompt
           sh == [r \in Ranks |-> Expanded(InOrder(Indices(s[r])))]
<1>1. n \in Nat \ {0} /\ dp_size \in Nat \ {0} /\ Ranks = 1 .. dp_size
  BY Sizes, StepAssumption
<1>2. ASSUME NEW r \in Ranks
      PROVE  /\ sh[r] \in Seq(Nat) /\ Distinct(sh[r]) /\ Len(sh[r]) = c * n
             /\ Items(sh[r]) = {x \in Nat \ {0} : \E g \in Indices(s[r]) : GroupOf(x) = g - 1}
  <2>1. PICK t \in Seq(Nat) : t = s[r].items
    BY DEF Set
  <2>2. Indices(s[r]) = Items(t) /\ Distinct(t) /\ Len(t) = c
    BY <2>1 DEF Indices, Items
  <2> DEFINE S == Indices(s[r])
             o == InOrder(S)
  <2>3. S \in SUBSET Nat /\ S \subseteq Nat \ {0} /\ IsFiniteSet(S) /\ Cardinality(S) = c
    <3>1. S \subseteq 1 .. G
      OBVIOUS
    <3>2. 1 .. G \subseteq Nat /\ 0 \notin 1 .. G
      OBVIOUS
    <3>3. S \subseteq Nat /\ 0 \notin S
      BY <3>1, <3>2, Zenon
    <3>4. IsFiniteSet(Items(t)) /\ Cardinality(Items(t)) = c
      BY <2>2, DistinctLength
    <3>5. S = Items(t)
      BY <2>2
    <3> HIDE DEF S
    <3>6. QED
      BY <3>3, <3>4, <3>5
  <2> HIDE DEF S
  <2>4. o \in Seq(S) /\ Len(o) = c /\ Distinct(o) /\ Items(o) = S
    BY <2>3, InOrderIs
  <2> HIDE DEF o
  <2>5. o \in Seq(Nat \ {0})
    <3> DEFINE P == Nat \ {0}
    <3>1. \A m \in 1 .. Len(o) : o[m] \in P
      BY <2>3, <2>4, ElementOfSeq
    <3>2. o = [m \in 1 .. Len(o) |-> o[m]] /\ Len(o) \in Nat
      BY <2>4
    <3> HIDE DEF P
    <3>3. PICK d \in Nat : d = Len(o)
      BY <3>2
    <3>4. o \in [1 .. d -> P]
      BY <3>1, <3>2, <3>3
    <3>5. o \in Seq(P)
      BY <3>4, SeqDef
    <3>6. QED
      BY <3>5 DEF P
  <2>6. /\ Expanded(o) \in Seq(Nat) /\ Distinct(Expanded(o))
        /\ Items(Expanded(o)) = {x \in Nat \ {0} : \E g \in Items(o) : GroupOf(x) = g - 1}
        /\ Len(Expanded(o)) = Len(o) * n
    BY <2>4, <2>5, ExpandedIs
  <2>7. sh[r] = Expanded(o)
    BY DEF o, S
  <2>8. QED
    BY <2>4, <2>6, <2>7 DEF S
<1>3. ASSUME NEW x \in Nat \ {0}
      PROVE  GroupOf(x) \in Nat /\ (GroupOf(x) + 1 \in 1 .. G <=> x \in 1 .. G * n)
  <2>0. GroupOf(x) \in Nat
    BY GroupOfIs, 1 \in Nat \ {0}
  <2> DEFINE g == GroupOf(x) + 1
  <2>1. g \in Nat \ {0} /\ GroupOf(x) = g - 1
    BY <2>0
  <2> HIDE DEF g
  <2>2. (g - 1) * n \in Nat /\ g * n = (g - 1) * n + n /\ x \in (g - 1) * n + 1 .. g * n
    BY <2>1, GroupOfIs
  <2>3. ASSUME g <= G PROVE x <= G * n
    <3>1. g * n <= G * n /\ G * n \in Nat
      BY <1>1, <2>1, <2>3
    <3>2. QED
      BY <1>1, <2>2, <3>1
  <2>4. ASSUME G < g PROVE G * n < x
    <3>1. PICK h \in Nat : h = g - 1
      BY <2>1
    <3>2. G <= h
      BY <2>1, <2>4, <3>1
    <3>3. G * n <= h * n /\ G * n \in Nat /\ h * n \in Nat
      BY <1>1, <3>2
    <3>4. QED
      BY <1>1, <2>2, <3>1, <3>3
  <2>5. G * n \in Nat
    BY <1>1
  <2>6. g \in 1 .. G <=> x \in 1 .. G * n
    BY <2>1, <2>3, <2>4, <2>5
  <2>7. QED
    BY <2>0, <2>6 DEF g
<1>4. ASSUME NEW r \in Ranks, NEW x
      PROVE  x \in Items(sh[r]) <=> x \in Nat \ {0} /\ GroupOf(x) + 1 \in Indices(s[r])
  <2>1. Indices(s[r]) \subseteq 1 .. G
    OBVIOUS
  <2>2. ASSUME x \in Nat \ {0}
        PROVE  (\E g \in Indices(s[r]) : GroupOf(x) = g - 1) <=> GroupOf(x) + 1 \in Indices(s[r])
    <3>1. GroupOf(x) \in Nat
      BY <1>3, <2>2, Zenon
    <3>2. \A g \in Indices(s[r]) : g \in Nat
      <4>1. 1 .. G \subseteq Nat
        OBVIOUS
      <4>2. QED
        BY <2>1, <4>1, Zenon
    <3>3. ASSUME NEW g \in Nat PROVE GroupOf(x) = g - 1 <=> g = GroupOf(x) + 1
      BY <3>1
    <3>4. GroupOf(x) + 1 \in Nat
      BY <3>1
    <3>5. QED
      BY <3>2, <3>3, <3>4, Zenon
  <2>3. QED
    BY <1>2, <2>2
<1> HIDE DEF n
<1>5. sh \in [Ranks -> Seq(Nat)]
  BY <1>2
<1> HIDE DEF sh
<1>6. ASSUME NEW r \in Ranks PROVE Items(sh[r]) \subseteq 1 .. G * n
  <2> SUFFICES ASSUME NEW x \in Items(sh[r]) PROVE x \in 1 .. G * n
    OBVIOUS
  <2>1. x \in Nat \ {0} /\ GroupOf(x) + 1 \in Indices(s[r])
    BY <1>4
  <2>2. Indices(s[r]) \subseteq 1 .. G
    OBVIOUS
  <2>3. GroupOf(x) + 1 \in 1 .. G
    BY <2>1, <2>2, Zenon
  <2>4. GroupOf(x) + 1 \in 1 .. G <=> x \in 1 .. G * n
    BY <1>3, <2>1
  <2>5. QED
    BY <2>3, <2>4
<1>7. ASSUME NEW x \in 1 .. G * n PROVE \E r \in Ranks : x \in Items(sh[r])
  <2>1. G * n \in Nat /\ x \in Nat \ {0}
    BY <1>1
  <2>2. GroupOf(x) + 1 \in 1 .. G
    BY <1>3, <2>1
  <2>3. QED
    BY <1>4, <2>1, <2>2
<1>8. ASSUME NEW q \in Ranks, NEW r \in Ranks, q # r,
             NEW x \in Items(sh[q]), NEW y \in Items(sh[r])
      PROVE  GroupOf(x) # GroupOf(y)
  BY <1>4, <1>8
<1>9. G = dp_size * c
  <2> DEFINE its == [r \in Ranks |-> s[r].items]
  <2>1. \A r \in Ranks : its[r] = s[r].items /\ Items(its[r]) = Indices(s[r])
    BY DEF Items, Indices
  <2>2. its \in [1 .. dp_size -> Seq(Nat)]
    BY <1>1 DEF Set
  <2> HIDE DEF its
  <2>3. dp_size \in Nat /\ \A r \in 1 .. dp_size : Distinct(its[r])
    BY <1>1, <2>1
  <2>4. \A r \in 1 .. dp_size : Len(its[r]) = c
    BY <1>1, <2>1
  <2>5. \A r \in 1 .. dp_size : Items(its[r]) \subseteq 1 .. G
    BY <1>1, <2>1
  <2>6. \A x \in 1 .. G : \E r \in 1 .. dp_size : x \in Items(its[r])
    <3> SUFFICES ASSUME NEW x \in 1 .. G PROVE \E r \in Ranks : x \in Items(its[r])
      BY <1>1
    <3>1. PICK r \in Ranks : x \in Indices(s[r])
      OBVIOUS
    <3>2. Items(its[r]) = Indices(s[r])
      BY <2>1
    <3>3. QED
      BY <3>1, <3>2
  <2>7. \A q, r \in 1 .. dp_size : q # r => Items(its[q]) \cap Items(its[r]) = {}
    <3> SUFFICES ASSUME NEW q \in Ranks, NEW r \in Ranks, q # r
                 PROVE  Items(its[q]) \cap Items(its[r]) = {}
      BY <1>1
    <3>1. Items(its[q]) = Indices(s[q]) /\ Items(its[r]) = Indices(s[r])
      BY <2>1
    <3>2. Indices(s[q]) \cap Indices(s[r]) = {}
      OBVIOUS
    <3>3. QED
      BY <3>1, <3>2
  <2>8. QED
    BY <2>2, <2>3, <2>4, <2>5, <2>6, <2>7, PartitionCounts, Zenon
<1>10. dp_size * (c * n) = G * n
  BY <1>1, <1>9, Product
<1>11. Dealt(sh, G * n)
  <2>1. \A r \in Ranks : dp_size * Len(sh[r]) = G * n
    BY <1>2, <1>10 DEF n, sh
  <2>2. \A r \in Ranks : Distinct(sh[r])
    BY <1>2 DEF n, sh
  <2>3. \A q, r \in Ranks : q # r => Items(sh[q]) \cap Items(sh[r]) = {}
    BY <1>8
  <2>4. QED
    BY <1>5, <1>6, <1>7, <2>1, <2>2, <2>3 DEF Dealt
<1>12. GroupsApart(sh)
  BY <1>8 DEF GroupsApart
<1>13. QED
  BY <1>11, <1>12 DEF sh, n
-----------------------------------------------------------------------------
(* The first invariant of a train call: every sample is in one share *)

Total == Len(total_lengths)
StepCount == Total \div global_batch_size

\* The rollout is whole steps and can be dealt; what is balanced are its groups;
\* the shares, once there, are a partition of the samples.
TotalInv ==
  phase # "waiting" =>
    /\ StepCount \in Nat \ {0} /\ Total = StepCount * global_batch_size
    /\ Total % (n_samples_per_prompt * dp_size) = 0

BalanceUse ==
  phase = "balancing" =>
    /\ options.balance /\ equal_size = TRUE /\ k_partitions = dp_size
    /\ seqlen_list = GroupLengths(total_lengths)

ShareInv ==
  phase \in {"scheduling", "packing", "computing"} =>
    Dealt(share, Total) /\ (options.balance => GroupsApart(share))

DealInv == TotalInv /\ BalanceUse /\ ShareInv

LEMMA Divides ==
  ASSUME NEW t \in Nat, t % (n_samples_per_prompt * dp_size) = 0
  PROVE  /\ t \div n_samples_per_prompt \in Nat
         /\ (t \div n_samples_per_prompt) * n_samples_per_prompt = t
         /\ \E c \in Nat : t = c * dp_size
<1> DEFINE n == n_samples_per_prompt
           m == n * dp_size
           d == t \div m
           e == d * dp_size
           c == d * n
<1>1. n \in Nat \ {0} /\ dp_size \in Nat \ {0}
  BY StepAssumption
<1>2. m \in Nat \ {0}
  BY <1>1
<1>3. t = m * d + (t % m) /\ d \in Nat
  <2> HIDE DEF m
  <2>1. QED
    BY <1>2, Division
<1>4. t % m = 0
  OBVIOUS
<1>5. t = m * d
  <2> HIDE DEF m, d
  <2>1. m * d \in Nat
    BY <1>2, <1>3
  <2>2. QED
    BY <1>3, <1>4, <2>1
<1>6. e \in Nat /\ c \in Nat /\ m * d = n * e /\ m * d = c * dp_size
  <2> HIDE DEF d
  <2>1. QED
    BY <1>1, <1>3
<1> HIDE DEF n, m, d, e, c
<1>7. n * e + 0 = t /\ n * e = e * n
  BY <1>1, <1>5, <1>6
<1>8. (n * e + 0) \div n = e
  BY <1>1, <1>6, Remainder, 0 \in 0 .. n - 1
<1>9. t \div n = e
  BY <1>7, <1>8
<1>10. t = c * dp_size /\ t = e * n
  BY <1>5, <1>6, <1>7
<1>11. QED
  BY <1>6, <1>9, <1>10 DEF n

LEMMA ReceiveDeals == StepInv /\ Receive => DealInv'
<1> SUFFICES ASSUME StepInv, Receive PROVE DealInv'
  OBVIOUS
<1>1. PICK lengths \in Rollouts :
        /\ total_lengths' = Trimmed(lengths)
        /\ IF options.balance
           THEN /\ Calls(GroupLengths(Trimmed(lengths)), dp_size, TRUE)
                /\ phase' = "balancing"
           ELSE /\ phase' = "scheduling" /\ share' = Strided(Trimmed(lengths))
  BY DEF Receive
<1> DEFINE b == global_batch_size
           q == Len(lengths) \div b
           kept == Trimmed(lengths)
<1>2. /\ lengths \in Seq(Nat) /\ Len(lengths) \in Nat /\ b \in Nat \ {0} /\ Len(lengths) >= b
      /\ (q * b) % (n_samples_per_prompt * dp_size) = 0
  BY StepAssumption
<1>3. Len(lengths) = b * q + (Len(lengths) % b) /\ Len(lengths) % b \in 0 .. b - 1 /\ q \in Nat
  BY <1>2, Division
<1> HIDE DEF q
<1>4. q * b \in Nat /\ q * b <= Len(lengths) /\ q # 0
  <2>1. b * q = q * b /\ q * b \in Nat
    BY <1>2, <1>3
  <2>2. ASSUME q = 0 PROVE FALSE
    <3>1. b * q = 0
      BY <1>2, <2>2
    <3>2. QED
      BY <1>2, <1>3, <3>1
  <2>3. QED
    BY <1>2, <1>3, <2>1, <2>2
<1>5. kept = SubSeq(lengths, 1, q * b)
  BY DEF Trimmed, q
<1>6. Len(kept) = q * b
  <2> DEFINE m == q * b
  <2>1. m \in Nat /\ m <= Len(lengths)
    BY <1>4
  <2> HIDE DEF m
  <2>2. Len(SubSeq(lengths, 1, m)) = m
    BY <1>2, <2>1
  <2>3. QED
    BY <1>5, <2>2 DEF m
<1>7. Total' = q * b /\ StepCount' = q
  <2>1. Total' = q * b
    BY <1>1, <1>6 DEF Total
  <2>2. b * q + 0 = q * b
    BY <1>2, <1>3
  <2>3. (b * q + 0) \div b = q
    BY <1>2, <1>3, Remainder, 0 \in 0 .. b - 1
  <2>4. QED
    BY <2>1, <2>2, <2>3 DEF StepCount
<1>8. TotalInv'
  BY <1>2, <1>3, <1>4, <1>7 DEF TotalInv
<1>9. BalanceUse'
  BY <1>1 DEF BalanceUse, Calls, Receive
<1>10. ShareInv'
  <2>1. CASE options.balance
    BY <1>1, <2>1 DEF ShareInv
  <2>2. CASE ~options.balance
    <3>1. PICK c \in Nat : Total' = c * dp_size
      BY <1>2, <1>4, <1>7, Divides
    <3>2. Dealt(Strided(kept), c * dp_size)
      BY <1>6, <1>7, <3>1, StridedIsDealt
    <3>3. share' = Strided(kept) /\ options' = options
      BY <1>1, <2>2 DEF Receive
    <3>4. QED
      BY <2>2, <3>1, <3>2, <3>3 DEF ShareInv
  <2>3. QED
    BY <2>1, <2>2
<1>11. QED
  BY <1>8, <1>9, <1>10 DEF DealInv

LEMMA DealDeals == StepInv /\ IInv /\ ItemsInv /\ DealInv /\ Deal => DealInv'
<1> SUFFICES ASSUME StepInv, IInv, ItemsInv, DealInv, Deal PROVE DealInv'
  OBVIOUS
<1>1. PICK s \in states_pq : share' = [r \in Ranks |-> Expanded(InOrder(Indices(s[r])))]
  BY DEF Deal
<1>2. /\ phase = "balancing" /\ phase' = "scheduling" /\ Return
      /\ UNCHANGED <<options, total_lengths>>
  BY DEF Deal
<1> DEFINE k == k_partitions
           G == Len(seqlen_list)
<1>3. /\ seqlen_list \in Seq(Nat) /\ k \in Nat \ {0} /\ s \in StateOf(k)
      /\ Whole(s, k, seqlen_list) /\ (equal_size => SameCount(s, k))
      /\ \A x \in 1 .. G : \E i \in 1 .. k : x \in Indices(s[i])
      /\ \A i, j \in 1 .. k : i # j => Indices(s[i]) \cap Indices(s[j]) = {}
  BY <1>2, Returned
<1>4. /\ equal_size = TRUE /\ k = dp_size /\ Ranks = 1 .. k
      /\ seqlen_list = GroupLengths(total_lengths)
  BY <1>2 DEF DealInv, BalanceUse, Ranks
<1>5. Total \in Nat /\ Total % (n_samples_per_prompt * dp_size) = 0
  BY <1>2 DEF DealInv, TotalInv, StepInv, PlanInv, Total
<1>6. G \in Nat /\ G * n_samples_per_prompt = Total
  <2> DEFINE g == Total \div n_samples_per_prompt
  <2>1. g \in Nat /\ g * n_samples_per_prompt = Total
    BY <1>5, Divides
  <2>2. seqlen_list = [h \in 1 .. g |-> SumOver(total_lengths, GroupPlaces(h))]
    BY <1>4 DEF GroupLengths, Total
  <2> HIDE DEF g
  <2>3. G = g
    BY <1>3, <2>1, <2>2
  <2>4. QED
    BY <2>1, <2>3
<1> DEFINE c == Len(s[1].items)
<1>7. s \in [Ranks -> Set]
  BY <1>3, <1>4 DEF StateOf
<1>8. c \in Nat /\ 1 \in Ranks
  <2>1. 1 \in Ranks
    BY <1>3, <1>4
  <2>2. s[1].items \in Seq(Nat)
    BY <1>7, <2>1 DEF Set
  <2>3. QED
    BY <2>1, <2>2
<1>9. \A r \in Ranks : Len(s[r].items) = c
  BY <1>3, <1>4, <1>8 DEF SameCount
<1>10. /\ \A r \in Ranks : Distinct(s[r].items)
       /\ \A r \in Ranks : Indices(s[r]) \subseteq 1 .. G
  BY <1>3, <1>4 DEF Whole
<1>11. /\ \A x \in 1 .. G : \E r \in Ranks : x \in Indices(s[r])
       /\ \A q, r \in Ranks : q # r => Indices(s[q]) \cap Indices(s[r]) = {}
  BY <1>3, <1>4
<1> HIDE DEF c, G
<1>12. /\ Dealt([r \in Ranks |-> Expanded(InOrder(Indices(s[r])))], G * n_samples_per_prompt)
       /\ GroupsApart([r \in Ranks |-> Expanded(InOrder(Indices(s[r])))])
  BY <1>6, <1>7, <1>8, <1>9, <1>10, <1>11, PartitionIsDealt, Zenon
<1>13. Dealt(share, Total)' /\ GroupsApart(share)'
  BY <1>1, <1>2, <1>6, <1>12 DEF Total
<1>14. QED
  BY <1>2, <1>13 DEF DealInv, TotalInv, BalanceUse, ShareInv, Total, StepCount

LEMMA ShareKept ==
  ASSUME DealInv, UNCHANGED <<total_lengths, share, options>>,
         phase \in {"scheduling", "packing", "computing"},
         phase' \in {"packing", "computing", "waiting"}
  PROVE  DealInv'
BY DEF DealInv, TotalInv, BalanceUse, ShareInv, Total, StepCount

LEMMA DealKeepsShares == StepInv /\ IInv /\ ItemsInv /\ DealInv /\ [Next]_vars => DealInv'
<1> SUFFICES ASSUME StepInv, IInv, ItemsInv, DealInv, [Next]_vars PROVE DealInv'
  OBVIOUS
<1>1. CASE Receive
  BY <1>1, ReceiveDeals
<1>2. CASE Balance
  <2>1. UNCHANGED <<phase, total_lengths, share, options, arguments>>
    BY <1>2 DEF Balance, data, Merge
  <2>2. QED
    BY <2>1 DEF DealInv, TotalInv, BalanceUse, ShareInv, Total, StepCount, arguments
<1>3. CASE Deal
  BY <1>3, DealDeals
<1>4. CASE Schedule
  BY <1>4, ShareKept DEF Schedule
<1>5. CASE Pack
  BY <1>5, ShareKept DEF Pack, data
<1>6. CASE Keep
  BY <1>6, ShareKept DEF Keep
<1>7. CASE Begin
  BY <1>7, ShareKept DEF Begin, data
<1>8. CASE Forward
  BY <1>8, ShareKept DEF Forward, data
<1>9. CASE Backward
  BY <1>9, ShareKept DEF Backward, data
<1>10. CASE Optimize
  BY <1>10, ShareKept DEF Optimize, data
<1>11. CASE \E r \in Ranks : EndForwardOnly(r)
  BY <1>11, ShareKept DEF EndForwardOnly, data
<1>12. CASE UNCHANGED vars
  BY <1>12 DEF vars, data, balanceVars, arguments, DealInv, TotalInv, BalanceUse, ShareInv, Total, StepCount
<1>13. QED
  BY <1>1, <1>2, <1>3, <1>4, <1>5, <1>6, <1>7, <1>8, <1>9, <1>10, <1>11, <1>12 DEF Next, Work

LEMMA SharesHold == Spec => [](StepInv /\ IInv /\ ItemsInv /\ DealInv)
<1>1. Init => DealInv
  BY DEF Init, DealInv, TotalInv, BalanceUse, ShareInv
<1>2. StepInv /\ IInv /\ ItemsInv /\ DealInv /\ [Next]_vars => DealInv'
  BY DealKeepsShares
<1>3. Spec => [](StepInv /\ IInv /\ ItemsInv)
  BY StepIsKept, StepsBalance, InvariantHolds, ItemsHold, PTL
<1>4. QED
  BY <1>1, <1>2, <1>3, PTL DEF Spec
-----------------------------------------------------------------------------
(* The places of a step in a share *)

LEMMA Greatest ==
  ASSUME NEW S \in SUBSET Nat, S # {}, NEW b \in Nat, \A x \in S : x <= b
  PROVE  Max(S) \in S /\ \A x \in S : x <= Max(S)
<1> DEFINE U == {n \in Nat : \A x \in S : x <= n}
<1>1. U \in SUBSET Nat /\ U # {}
  OBVIOUS
<1>2. PICK n \in U : \A m \in U : n <= m
  BY <1>1, Least
<1>3. n \in S
  <2> SUFFICES ASSUME n \notin S PROVE FALSE
    OBVIOUS
  <2>1. \A x \in S : x \in Nat /\ x < n
    BY <1>2
  <2>2. PICK y \in S : TRUE
    OBVIOUS
  <2>3. n \in Nat /\ n - 1 \in Nat
    BY <1>2, <2>1, <2>2
  <2>4. n - 1 \in U
    BY <2>1, <2>3
  <2>5. n <= n - 1
    BY <1>2, <2>4
  <2>6. QED
    BY <2>3, <2>5
<1>4. n \in Nat /\ \A x \in S : x <= n
  BY <1>2
<1>5. Max(S) = n
  BY <1>3, <1>4, Highest
<1>6. QED
  BY <1>3, <1>4, <1>5

LEMMA StepPlacesAre ==
  ASSUME NEW i \in Nat \ {0}
  PROVE  LET a == (i - 1) * num_local_gbs IN
         /\ a \in Nat /\ i * num_local_gbs = a + num_local_gbs
         /\ StepPlaces(i) = Places(a + 1, a + num_local_gbs)
         /\ StepPlaces(i) \in Seq(Nat) /\ Len(StepPlaces(i)) = num_local_gbs
         /\ DOMAIN StepPlaces(i) = 1 .. num_local_gbs
         /\ \A n \in 1 .. num_local_gbs : StepPlaces(i)[n] = a + n
         /\ Distinct(StepPlaces(i)) /\ Items(StepPlaces(i)) = a + 1 .. a + num_local_gbs
<1> DEFINE w == num_local_gbs
           a == (i - 1) * w
<1>1. w \in Nat
  BY BatchSizes
<1>2. a \in Nat /\ i * w = a + w
  <2> HIDE DEF w
  <2>1. PICK h \in Nat : h = i - 1
    OBVIOUS
  <2>2. h * w \in Nat /\ i * w = h * w + w
    BY <1>1, <2>1
  <2>3. QED
    BY <2>1, <2>2
<1>3. StepPlaces(i) = Places(a + 1, a + w)
  BY <1>2 DEF StepPlaces
<1> HIDE DEF a, w
<1>4. LET s == Places(a + 1, a + w) IN
         /\ s \in Seq(Nat) /\ Len(s) = w /\ DOMAIN s = 1 .. w
         /\ \A n \in 1 .. w : s[n] = a + n
         /\ Distinct(s) /\ Items(s) = a + 1 .. a + w
  BY <1>1, <1>2, PlacesAre
<1>5. QED
  BY <1>2, <1>3, <1>4 DEF a, w

\* Step i of T takes its places among the first T * num_local_gbs.
LEMMA StepPlacesIn ==
  ASSUME NEW T \in Nat, NEW i \in 1 .. T, NEW p \in Items(StepPlaces(i))
  PROVE  p \in 1 .. T * num_local_gbs
<1> DEFINE w == num_local_gbs
           a == (i - 1) * w
<1>1. i \in Nat \ {0} /\ w \in Nat
  BY BatchSizes
<1>2. a \in Nat /\ i * w = a + w /\ Items(StepPlaces(i)) = a + 1 .. a + w
  BY <1>1, StepPlacesAre
<1> HIDE DEF a, w
<1>3. i * w <= T * w /\ T * w \in Nat
  BY <1>1
<1>4. p \in 1 .. T * w
  BY <1>1, <1>2, <1>3
<1>5. QED
  BY <1>4 DEF w

LEMMA SharesAre ==
  ASSUME StepInv, DealInv, phase \in {"scheduling", "packing", "computing"}
  PROVE  /\ StepCount \in Nat \ {0} /\ Steps = 1 .. StepCount /\ Total \in Nat
         /\ Total = StepCount * global_batch_size
         /\ \A r \in Ranks :
              /\ share[r] \in Seq(Nat) /\ Len(share[r]) = StepCount * num_local_gbs
              /\ DOMAIN share[r] = 1 .. StepCount * num_local_gbs /\ Distinct(share[r])
              /\ \A n \in 1 .. StepCount * num_local_gbs :
                   share[r][n] \in 1 .. Total /\ total_lengths[share[r][n]] \in Nat
<1> DEFINE w == num_local_gbs
           T == StepCount
<1>1. T \in Nat \ {0} /\ Total = T * global_batch_size /\ Steps = 1 .. T
  BY DEF DealInv, TotalInv, Steps, StepCount, Total
<1>2. total_lengths \in Seq(Nat) /\ Total = Len(total_lengths) /\ Total \in Nat
  BY DEF StepInv, PlanInv, Total
<1>3. dp_size \in Nat \ {0} /\ w \in Nat /\ global_batch_size = dp_size * w
  BY BatchSizes, StepAssumption
<1>4. Dealt(share, Total)
  BY DEF DealInv, ShareInv
<1> HIDE DEF w, T
<1>5. T * w \in Nat /\ Total = dp_size * (T * w)
  BY <1>1, <1>3
<1>6. ASSUME NEW r \in Ranks
      PROVE  /\ share[r] \in Seq(Nat) /\ Len(share[r]) = T * w
             /\ DOMAIN share[r] = 1 .. T * w /\ Distinct(share[r])
             /\ \A n \in 1 .. T * w : share[r][n] \in 1 .. Total /\ total_lengths[share[r][n]] \in Nat
  <2>1. PICK s \in Seq(Nat) : s = share[r]
    BY <1>4 DEF Dealt
  <2>2. Distinct(s) /\ Items(s) \subseteq 1 .. Total /\ dp_size * Len(s) = Total
    BY <1>4, <2>1 DEF Dealt
  <2>3. Len(s) \in Nat /\ dp_size * Len(s) = dp_size * (T * w)
    BY <1>5, <2>2
  <2>4. Len(s) = T * w
    BY <1>3, <1>5, <2>3, Cancelled
  <2>5. DOMAIN s = 1 .. T * w
    BY <2>4
  <2>6. \A n \in 1 .. T * w : s[n] \in 1 .. Total
    BY <2>2, <2>5 DEF Items
  <2>7. \A x \in 1 .. Total : total_lengths[x] \in Nat
    BY <1>2
  <2>8. QED
    BY <2>1, <2>2, <2>4, <2>5, <2>6, <2>7
<1>7. QED
  BY <1>1, <1>2, <1>6 DEF w, T
-----------------------------------------------------------------------------
(* The second invariant: a step's micro-batches have each of its places once *)

Planned == phase \in {"packing", "computing"}

\* The micro-batches ss of rank r for step i.
Cut(r, i, ss) ==
  /\ ss \in Seq(Seq(Nat)) /\ Len(ss) = num_microbatches[r][i]
  /\ Distinct(FlattenSeq(ss)) /\ Items(FlattenSeq(ss)) = Items(StepPlaces(i))
Fits(r, ss) ==
  options.dynamic /\ options.vp_group = 0 =>
    \A j \in 1 .. Len(ss) : BoundedButForOne(Samples(r, ss[j]))

\* Every step has the number of micro-batches that the ranks agreed on, its places
\* are cut into them, and what is packed is the step that comes next.
CountInv ==
  Planned => num_microbatches = [r \in Ranks |-> [i \in Steps |-> Count(r, i)]]
CutInv ==
  Planned => \A r \in Ranks :
    /\ Len(micro_batch_indices[r]) <= StepCount
    /\ phase = "computing" => Len(micro_batch_indices[r]) = StepCount
    /\ \A i \in 1 .. Len(micro_batch_indices[r]) :
         Cut(r, i, micro_batch_indices[r][i]) /\ Fits(r, micro_batch_indices[r][i])
    /\ ~options.dynamic => micro_batch_indices[r] = [i \in Steps |-> Sliced(i)]
PackUse ==
  phase = "packing" /\ states_pq # {} =>
    /\ Unpacked # {}
    /\ \A r, i : r = Min(Unpacked) /\ i = NextToPack(r) =>
         seqlen_list = LengthsOf(r, StepPlaces(i)) /\ k_partitions = num_microbatches[r][i]

MicroBatchInv == CountInv /\ CutInv /\ PackUse

\* Slices of the places of a step.
LEMMA SlicedIs ==
  ASSUME NEW i \in Nat \ {0}
  PROVE  /\ Sliced(i) \in Seq(Seq(Nat)) /\ Len(Sliced(i)) = num_local_gbs \div micro_batch_size
         /\ FlattenSeq(Sliced(i)) = StepPlaces(i)
<1> DEFINE w == num_local_gbs
           m == micro_batch_size
           k == w \div m
           a == (i - 1) * w
           ss == Sliced(i)
           S == Seq(Nat)
<1>1. w \in Nat /\ m \in Nat \ {0} /\ k \in Nat /\ w = k * m
  BY BatchSizes, StepAssumption
<1>2. /\ a \in Nat /\ StepPlaces(i) = Places(a + 1, a + w)
      /\ StepPlaces(i) \in Seq(Nat) /\ Len(StepPlaces(i)) = w
      /\ \A n \in 1 .. w : StepPlaces(i)[n] = a + n
  BY StepPlacesAre
<1>3. ss = [j \in 1 .. k |-> SubSeq(StepPlaces(i), (j - 1) * m + 1, j * m)]
  BY DEF Sliced
<1> HIDE DEF a, k, ss, m, w
<1>4. ASSUME NEW j \in 1 .. k
      PROVE  /\ SubSeq(StepPlaces(i), (j - 1) * m + 1, j * m) \in Seq(Nat)
             /\ SubSeq(StepPlaces(i), (j - 1) * m + 1, j * m) =
                  Places(a + (j - 1) * m + 1, a + j * m)
  <2>1. PICK h \in Nat : h = j - 1
    OBVIOUS
  <2>2. PICK u \in Nat : u = h * m
    BY <1>1
  <2>3. j * m = u + m
    BY <1>1, <2>1, <2>2
  <2>4. j * m <= k * m
    BY <1>1
  <2>5. u + m <= w
    BY <1>1, <2>3, <2>4
  <2>6. PICK s \in Seq(Nat) : s = StepPlaces(i)
    BY <1>2
  <2>7. Len(s) = w /\ \A n \in 1 .. w : s[n] = a + n
    BY <1>2, <2>6
  <2>8. /\ SubSeq(s, u + 1, u + m) \in Seq(Nat)
        /\ Len(SubSeq(s, u + 1, u + m)) = m
        /\ SubSeq(s, u + 1, u + m) = [n \in 1 .. m |-> s[u + n]]
    <3>1. u + 1 \in Int /\ u + m \in Int /\ u + m - (u + 1) + 1 = m
      BY <1>1
    <3>2. \A n \in u + 1 .. u + m : s[n] \in Nat
      BY <1>1, <2>5, <2>7
    <3>3. \A n \in 1 .. m : u + 1 + n - 1 = u + n
      BY <1>1
    <3>4. SubSeq(s, u + 1, u + m) = [n \in 1 .. m |-> s[u + n]]
      BY <1>1, <2>5, <2>7
    <3>5. \A n \in 1 .. m : s[u + n] \in Nat
      BY <1>1, <2>5, <2>7
    <3>6. /\ [n \in 1 .. m |-> s[u + n]] \in Seq(Nat)
          /\ Len([n \in 1 .. m |-> s[u + n]]) = m
      BY <1>1, <3>5
    <3>7. QED
      BY <3>4, <3>6
  <2>9. PICK d \in Nat : d = a + u
    BY <1>2
  <2>10. LET t == Places(d + 1, d + m) IN
         t \in Seq(Nat) /\ Len(t) = m /\ \A n \in 1 .. m : t[n] = d + n
    BY <1>1, PlacesAre
  <2>11. PICK t \in Seq(Nat) : t = Places(d + 1, d + m)
    BY <2>10
  <2>12. Len(t) = m /\ \A n \in 1 .. m : t[n] = d + n
    BY <2>10, <2>11
  <2>13. PICK v \in Seq(Nat) : v = SubSeq(s, u + 1, u + m)
    BY <2>8
  <2>14. Len(v) = m /\ \A n \in 1 .. m : v[n] = d + n
    <3>1. Len(v) = m /\ \A n \in 1 .. m : v[n] = s[u + n]
      BY <2>8, <2>13
    <3>2. \A n \in 1 .. m : u + n \in 1 .. w
      BY <1>1, <2>5
    <3>3. \A n \in 1 .. m : s[u + n] = a + (u + n)
      BY <2>7, <3>2
    <3>4. \A n \in 1 .. m : a + (u + n) = d + n
      BY <1>1, <1>2, <2>9
    <3>5. QED
      BY <3>1, <3>3, <3>4
  <2>15. v = t
    BY <1>1, <2>12, <2>14
  <2>16. (j - 1) * m = u /\ j * m = u + m /\ a + (u + m) = d + m
    BY <1>1, <1>2, <2>1, <2>2, <2>3, <2>9
  <2>17. QED
    BY <2>6, <2>8, <2>9, <2>11, <2>13, <2>15, <2>16
<1>5. ss \in Seq(S) /\ Len(ss) = k
  <2>1. \A j \in 1 .. k : SubSeq(StepPlaces(i), (j - 1) * m + 1, j * m) \in S
    BY <1>4
  <2> HIDE DEF S
  <2>2. QED
    BY <1>1, <1>3, <2>1
<1>6. ss \in Seq(Seq(Nat))
  BY <1>5
<1> HIDE DEF S
<1>7. \A j \in 1 .. k : ss[j] = Piece(a, m, j)
  BY <1>3, <1>4 DEF Piece
<1>8. FlattenSeq(ss) = Places(a + 1, a + k * m)
  <2>1. m \in Nat /\ a \in Nat /\ k \in Nat
    BY <1>1, <1>2, <1>5
  <2>2. PICK t \in Seq(Seq(Nat)) : t = ss
    BY <1>6
  <2>3. PICK b \in Nat, c \in Nat, n \in Nat : b = a /\ c = m /\ n = k
    BY <2>1
  <2>4. Len(t) = n
    BY <1>5, <2>2, <2>3
  <2>5. \A j \in 1 .. n : t[j] = Piece(b, c, j)
    BY <1>7, <2>2, <2>3
  <2>6. b \in Nat /\ c \in Nat /\ n \in Nat /\ t \in Seq(Seq(Nat))
    BY <2>2, <2>3
  <2>7. FlattenSeq(t) = Places(b + 1, b + n * c)
    BY <2>4, <2>5, <2>6, PiecesOfPlaces, SMTT(30)
  <2>8. QED
    BY <2>2, <2>3, <2>7
<1>9. QED
  BY <1>1, <1>2, <1>5, <1>6, <1>8 DEF ss, k, w, m
-----------------------------------------------------------------------------
(* The counts of the micro-batches *)

Cutting == phase \in {"scheduling", "packing", "computing"}

\* The lengths of the samples of one step.
LEMMA LengthsAre ==
  ASSUME StepInv, DealInv, Cutting, NEW r \in Ranks, NEW i \in 1 .. StepCount
  PROVE  LET a == (i - 1) * num_local_gbs
             list == LengthsOf(r, StepPlaces(i)) IN
         /\ list \in Seq(Nat) /\ Len(list) = num_local_gbs /\ a \in Nat
         /\ \A n \in 1 .. num_local_gbs :
              /\ a + n \in DOMAIN share[r] /\ StepPlaces(i)[n] = a + n
              /\ list[n] = total_lengths[share[r][a + n]]
<1> DEFINE w == num_local_gbs
           a == (i - 1) * w
           list == LengthsOf(r, StepPlaces(i))
<1>1. /\ StepCount \in Nat \ {0} /\ DOMAIN share[r] = 1 .. StepCount * w
      /\ \A n \in 1 .. StepCount * w : total_lengths[share[r][n]] \in Nat
  BY SharesAre DEF Cutting
<1>2. i \in Nat \ {0} /\ w \in Nat
  BY <1>1, BatchSizes
<1>3. /\ a \in Nat /\ DOMAIN StepPlaces(i) = 1 .. w
      /\ \A n \in 1 .. w : StepPlaces(i)[n] = a + n
      /\ Items(StepPlaces(i)) = a + 1 .. a + w
  BY <1>2, StepPlacesAre
<1>4. list = [n \in 1 .. w |-> total_lengths[share[r][StepPlaces(i)[n]]]]
  BY <1>3 DEF LengthsOf
<1> HIDE DEF a, list, w
<1>5. \A n \in 1 .. w : a + n \in 1 .. StepCount * w
  <2>1. TAKE n \in 1 .. w
  <2>2. a + n \in Items(StepPlaces(i))
    BY <1>2, <1>3
  <2>3. StepCount \in Nat
    BY <1>1
  <2>4. QED
    BY <2>2, <2>3, StepPlacesIn DEF w
<1>6. \A n \in 1 .. w : list[n] = total_lengths[share[r][a + n]]
  BY <1>3, <1>4
<1>7. \A n \in 1 .. w : list[n] \in Nat /\ a + n \in DOMAIN share[r]
  BY <1>1, <1>5, <1>6
<1>8. list \in [1 .. w -> Nat]
  BY <1>4, <1>7
<1>9. list \in Seq(Nat)
  BY <1>2, <1>8, SeqDef
<1>10. Len(list) = w
  <2>1. DOMAIN list = 1 .. w
    BY <1>8
  <2>2. QED
    BY <1>2, <1>9, <2>1, LenProperties
<1>11. QED
  BY <1>3, <1>6, <1>7, <1>9, <1>10 DEF a, list, w

\* All ranks agree on a count that is enough for each.
LEMMA CountIs ==
  ASSUME StepInv, DealInv, Cutting, NEW r \in Ranks, NEW i \in 1 .. StepCount,
         options.dynamic, options.vp_group = 0
  PROVE  Count(r, i) \in Nat /\ Needed(r, i) <= Count(r, i)
<1>1. \A q \in Ranks : Needed(q, i) \in Nat
  <2>1. TAKE q \in Ranks
  <2>2. LengthsOf(q, StepPlaces(i)) \in Seq(Nat)
    BY LengthsAre
  <2>3. FirstFit(LengthsOf(q, StepPlaces(i))) \in Seq(Nat)
    BY <2>2, FirstFitIs
  <2>4. QED
    BY <2>3 DEF Needed
<1> DEFINE f == [q \in Ranks |-> Needed(q, i)]
           S == {Needed(q, i) : q \in Ranks}
<1>2. dp_size \in Nat /\ Ranks = 1 .. dp_size
  BY Sizes
<1>3. \A q \in 1 .. dp_size : f[q] \in Nat
  BY <1>1, <1>2
<1>4. PICK b \in Nat : \A q \in 1 .. dp_size : f[q] <= b
  <2> HIDE DEF f
  <2>1. QED
    BY <1>2, <1>3, Bounded
<1>5. S \in SUBSET Nat /\ Needed(r, i) \in S /\ \A x \in S : x <= b
  BY <1>1, <1>2, <1>4
<1> HIDE DEF S
<1>6. Max(S) \in S /\ \A x \in S : x <= Max(S)
  BY <1>5, Greatest
<1>7. Count(r, i) = Max(S)
  BY DEF Count, Clamped, Agreed, S
<1>8. QED
  BY <1>5, <1>6, <1>7

\* The rank whose step is packed next.
LEMMA NextIs ==
  ASSUME Unpacked # {}
  PROVE  Min(Unpacked) \in Unpacked /\ Min(Unpacked) \in Ranks
<1>1. Unpacked \in SUBSET Nat
  BY Sizes DEF Unpacked
<1>2. PICK n \in Unpacked : \A m \in Unpacked : n <= m
  BY <1>1, Least
<1>3. Min(Unpacked) \in Unpacked
  BY <1>2 DEF Min
<1>4. QED
  BY <1>3 DEF Unpacked
-----------------------------------------------------------------------------
(* The micro-batches that a partition makes *)

\* The micro-batch of a set has its places.
PartOf(r, s, j) ==
  LET a == (NextToPack(r) - 1) * num_local_gbs
      part == InOrder(Indices(s[j]))
      piece == Packed(r, s)[j] IN
  /\ part \in Seq(Nat) /\ Distinct(part) /\ Items(part) = Indices(s[j])
  /\ piece \in Seq(Nat) /\ Len(piece) = Len(part) /\ DOMAIN piece = 1 .. Len(part)
  /\ \A n \in 1 .. Len(part) : part[n] \in 1 .. num_local_gbs /\ piece[n] = a + part[n]
  /\ Distinct(piece) /\ Items(piece) = {a + x : x \in Indices(s[j])}

LEMMA PackedPart ==
  ASSUME NEW r \in Ranks, NextToPack(r) \in Nat \ {0},
         NEW k \in Nat, NEW s \in StateOf(k), NEW j \in 1 .. k,
         Indices(s[j]) \subseteq 1 .. num_local_gbs
  PROVE  PartOf(r, s, j)
<1> DEFINE w == num_local_gbs
           i == NextToPack(r)
           a == (i - 1) * w
           S == Indices(s[j])
           part == InOrder(S)
           piece == Packed(r, s)[j]
<1>1. w \in Nat /\ a \in Nat /\ \A n \in 1 .. w : StepPlaces(i)[n] = a + n
  <2>1. i \in Nat \ {0} /\ w \in Nat
    BY BatchSizes
  <2> HIDE DEF i, w
  <2>2. QED
    BY <2>1, StepPlacesAre DEF w
<1>2. DOMAIN s = 1 .. k
  BY StateLength
<1>3. piece = [n \in DOMAIN part |-> StepPlaces(i)[part[n]]]
  BY <1>2 DEF Packed
<1> HIDE DEF S, a, i, piece, w
<1>4. S \in SUBSET Nat /\ IsFiniteSet(S) /\ S \subseteq 1 .. w
  <2>1. S \subseteq 1 .. w
    BY DEF S, w
  <2>2. IsFiniteSet(S)
    BY <1>1, <2>1, UpTo, FS_Subset
  <2>3. QED
    BY <2>1, <2>2
<1>5. part \in Seq(S) /\ Distinct(part) /\ Items(part) = S
  BY <1>4, InOrderIs
<1> HIDE DEF part
<1>6. /\ part \in Seq(Nat) /\ Len(part) \in Nat /\ DOMAIN part = 1 .. Len(part)
      /\ \A n \in 1 .. Len(part) : part[n] \in S
  <2>1. \A n \in 1 .. Len(part) : part[n] \in S
    BY <1>5, ElementOfSeq
  <2>2. Len(part) \in Nat /\ DOMAIN part = 1 .. Len(part)
    BY <1>5, LenProperties
  <2>3. part \in [1 .. Len(part) -> Nat]
    <3>1. part \in [1 .. Len(part) -> S]
      BY <1>5, LenProperties
    <3>2. QED
      BY <1>4, <3>1
  <2>4. part \in Seq(Nat)
    BY <2>2, <2>3, SeqDef
  <2>5. QED
    BY <2>1, <2>2, <2>4
<1>7. \A n \in 1 .. Len(part) : part[n] \in 1 .. w /\ piece[n] = a + part[n]
  BY <1>1, <1>3, <1>4, <1>6
<1>8. piece \in [1 .. Len(part) -> Nat] /\ DOMAIN piece = 1 .. Len(part)
  <2>1. piece = [n \in 1 .. Len(part) |-> piece[n]]
    BY <1>3, <1>6
  <2>2. \A n \in 1 .. Len(part) : piece[n] \in Nat
    BY <1>1, <1>7
  <2>3. QED
    BY <2>1, <2>2
<1>9. piece \in Seq(Nat) /\ Len(piece) = Len(part)
  <2>1. piece \in Seq(Nat)
    BY <1>6, <1>8, SeqDef
  <2>2. QED
    BY <1>6, <1>8, <2>1, LenProperties
<1>10. Distinct(piece)
  <2>1. \A m, n \in 1 .. Len(part) : piece[m] = piece[n] => part[m] = part[n]
    BY <1>1, <1>7
  <2>2. QED
    BY <1>5, <1>6, <1>8, <2>1 DEF Distinct
<1>11. Items(piece) = {a + x : x \in S}
  <2>1. Items(piece) = {a + part[n] : n \in 1 .. Len(part)}
    BY <1>7, <1>8 DEF Items
  <2>2. S = {part[n] : n \in 1 .. Len(part)}
    BY <1>5, <1>6 DEF Items
  <2>3. QED
    BY <2>1, <2>2
<1>12. QED
  BY <1>5, <1>6, <1>7, <1>8, <1>9, <1>10, <1>11 DEF PartOf, a, i, part, piece, w, S

\* A partition of the places of a step makes micro-batches with each of them once.
LEMMA PackedIs ==
  ASSUME NEW r \in Ranks, NextToPack(r) \in Nat \ {0},
         NEW k \in Nat, NEW s \in StateOf(k),
         \A j \in 1 .. k : Indices(s[j]) \subseteq 1 .. num_local_gbs,
         \A x \in 1 .. num_local_gbs : \E j \in 1 .. k : x \in Indices(s[j]),
         \A i, j \in 1 .. k : i # j => Indices(s[i]) \cap Indices(s[j]) = {}
  PROVE  LET ss == Packed(r, s) IN
         /\ ss \in Seq(Seq(Nat)) /\ Len(ss) = k
         /\ Distinct(FlattenSeq(ss))
         /\ Items(FlattenSeq(ss)) = Items(StepPlaces(NextToPack(r)))
<1> DEFINE w == num_local_gbs
           a == (NextToPack(r) - 1) * w
           ss == Packed(r, s)
<1>1. w \in Nat /\ a \in Nat /\ Items(StepPlaces(NextToPack(r))) = a + 1 .. a + w
  <2>1. PICK i \in Nat \ {0} : i = NextToPack(r)
    OBVIOUS
  <2>2. w \in Nat
    BY BatchSizes
  <2>3. QED
    BY <2>1, <2>2, StepPlacesAre
<1>2. DOMAIN s = 1 .. k
  BY StateLength
<1>3. ASSUME NEW j \in 1 .. k
      PROVE  /\ ss[j] \in Seq(Nat) /\ Distinct(ss[j])
             /\ Items(ss[j]) = {a + x : x \in Indices(s[j])}
  <2>1. Indices(s[j]) \subseteq 1 .. num_local_gbs
    OBVIOUS
  <2>2. PartOf(r, s, j)
    BY <2>1, PackedPart
  <2>3. QED
    BY <2>2 DEF PartOf
<1>4. DOMAIN ss = 1 .. k /\ ss = [j \in 1 .. k |-> ss[j]]
  BY <1>2 DEF Packed
<1> HIDE DEF ss, a, w
<1>5. ss \in Seq(Seq(Nat))
  <2> DEFINE S == Seq(Nat)
  <2>1. \A j \in 1 .. k : ss[j] \in S
    BY <1>3
  <2> HIDE DEF S
  <2>2. ss \in [1 .. k -> S]
    BY <1>4, <2>1
  <2>3. ss \in Seq(S)
    BY <2>2, SeqDef
  <2>4. QED
    BY <2>3 DEF S
<1>6. Len(ss) = k
  BY <1>4, <1>5, LenProperties
<1>7. \A i, j \in 1 .. k : i # j => Items(ss[i]) \cap Items(ss[j]) = {}
  <2>1. SUFFICES ASSUME NEW i \in 1 .. k, NEW j \in 1 .. k, i # j,
                        NEW y \in Items(ss[i]) \cap Items(ss[j])
                 PROVE  FALSE
    OBVIOUS
  <2>2. PICK x \in Indices(s[i]) : y = a + x
    <3>1. Items(ss[i]) = {a + x : x \in Indices(s[i])}
      BY <1>3, <2>1
    <3>2. y \in {a + x : x \in Indices(s[i])}
      BY <2>1, <3>1
    <3>3. QED
      BY <3>2
  <2>3. PICK z \in Indices(s[j]) : y = a + z
    <3>1. Items(ss[j]) = {a + h : h \in Indices(s[j])}
      BY <1>3, <2>1
    <3>2. y \in {a + h : h \in Indices(s[j])}
      BY <2>1, <3>1
    <3>3. QED
      BY <3>2
  <2>4. x \in 1 .. w /\ z \in 1 .. w
    BY <2>1, <2>2, <2>3 DEF w
  <2>5. x = z
    BY <1>1, <2>2, <2>3, <2>4
  <2>6. QED
    BY <2>1, <2>2, <2>3, <2>5
<1>8. /\ FlattenSeq(ss) \in Seq(Nat) /\ Distinct(FlattenSeq(ss))
      /\ Items(FlattenSeq(ss)) = UNION {Items(ss[i]) : i \in 1 .. Len(ss)}
  <2>1. /\ \A i \in 1 .. Len(ss) : Distinct(ss[i])
        /\ \A i, j \in 1 .. Len(ss) : i # j => Items(ss[i]) \cap Items(ss[j]) = {}
    BY <1>3, <1>6, <1>7
  <2>2. QED
    BY <1>5, <2>1, FlatDistinct
<1>9. UNION {Items(ss[i]) : i \in 1 .. k} = a + 1 .. a + w
  <2>1. ASSUME NEW y \in a + 1 .. a + w PROVE \E i \in 1 .. k : y \in Items(ss[i])
    <3>1. y - a \in 1 .. w /\ y = a + (y - a)
      BY <1>1
    <3>2. PICK i \in 1 .. k : y - a \in Indices(s[i])
      BY <3>1 DEF w
    <3>3. QED
      BY <1>3, <3>1, <3>2, ZenonT(60)
  <2>2. ASSUME NEW i \in 1 .. k, NEW y \in Items(ss[i]) PROVE y \in a + 1 .. a + w
    <3>0. Items(ss[i]) = {a + x : x \in Indices(s[i])}
      BY <1>3
    <3>1. PICK x \in Indices(s[i]) : y = a + x
      BY <2>2, <3>0
    <3>2. x \in 1 .. w
      BY <3>1 DEF w
    <3>3. QED
      BY <1>1, <3>1, <3>2
  <2>3. QED
    BY <2>1, <2>2
<1>10. QED
  BY <1>1, <1>5, <1>6, <1>8, <1>9 DEF ss

\* What the samples of a part weigh is the sum of its set, and each of its items is one.
LEMMA PartWeighs ==
  ASSUME StepInv, DealInv, Cutting, NEW r \in Ranks, NextToPack(r) \in 1 .. StepCount,
         NEW k \in Nat, NEW s \in StateOf(k), NEW j \in 1 .. k,
         Whole(s, k, LengthsOf(r, StepPlaces(NextToPack(r))))
  PROVE  LET batch == Samples(r, Packed(r, s)[j])
             list == LengthsOf(r, StepPlaces(NextToPack(r))) IN
         /\ SumOver(total_lengths, batch) = s[j].sum
         /\ \A x \in Indices(s[j]) : \E n \in DOMAIN batch : total_lengths[batch[n]] = list[x]
<1> DEFINE w == num_local_gbs
           i == NextToPack(r)
           a == (i - 1) * w
           list == LengthsOf(r, StepPlaces(i))
           part == InOrder(Indices(s[j]))
           piece == Packed(r, s)[j]
           q == Samples(r, piece)
<1>1. /\ list \in Seq(Nat) /\ Len(list) = w /\ a \in Nat
      /\ \A n \in 1 .. w : a + n \in DOMAIN share[r] /\ list[n] = total_lengths[share[r][a + n]]
  <2> HIDE DEF i
  <2>1. QED
    BY LengthsAre DEF i
<1>2. Indices(s[j]) \subseteq 1 .. w /\ s[j].sum = Weight(list, Indices(s[j]))
  BY <1>1 DEF Whole
<1>3. i \in Nat \ {0}
  BY SharesAre DEF Cutting
<1>4. /\ part \in Seq(Nat) /\ Distinct(part) /\ Items(part) = Indices(s[j])
      /\ DOMAIN piece = 1 .. Len(part)
      /\ \A n \in 1 .. Len(part) : part[n] \in 1 .. w /\ piece[n] = a + part[n]
  <2>1. PartOf(r, s, j)
    BY <1>2, <1>3, PackedPart
  <2>2. QED
    BY <2>1 DEF PartOf
<1> HIDE DEF i, a, w, list, part, piece
<1>5. Len(part) \in Nat /\ q = [n \in 1 .. Len(part) |-> share[r][piece[n]]]
  BY <1>4, LenProperties DEF Samples
<1>6. \A n \in 1 .. Len(part) : q[n] \in Nat
  <2>1. \A m \in DOMAIN share[r] : share[r][m] \in Nat
    BY SharesAre DEF Cutting
  <2>2. QED
    BY <1>1, <1>4, <1>5, <2>1, SMTT(60)
<1>7. q \in Seq(Nat) /\ Len(q) = Len(part)
  <2>1. q \in [1 .. Len(part) -> Nat]
    BY <1>5, <1>6
  <2> HIDE DEF q
  <2>2. q \in Seq(Nat)
    BY <1>5, <2>1, SeqDef
  <2>3. QED
    BY <1>5, <2>1, <2>2, LenProperties
<1>8. \A n \in 1 .. Len(part) : total_lengths[q[n]] = list[part[n]]
  BY <1>1, <1>4, <1>5, SMTT(60)
<1> HIDE DEF q
<1>9. SumOver(total_lengths, q) = SumTo([n \in 1 .. Len(part) |-> total_lengths[q[n]]], Len(part))
  BY <1>7, SumOverIs
<1>10. SumOver(list, part) = SumTo([n \in 1 .. Len(part) |-> list[part[n]]], Len(part))
  BY <1>4, SumOverIs
<1>11. [n \in 1 .. Len(part) |-> total_lengths[q[n]]] = [n \in 1 .. Len(part) |-> list[part[n]]]
  BY <1>8
<1>12. SumOver(list, part) = Weight(list, Items(part))
  BY <1>1, <1>2, <1>4, SumOverDistinct
<1>13. SumOver(total_lengths, q) = s[j].sum
  BY <1>2, <1>4, <1>9, <1>10, <1>11, <1>12
<1>14. \A x \in Indices(s[j]) : \E n \in DOMAIN q : total_lengths[q[n]] = list[x]
  <2>1. DOMAIN part = 1 .. Len(part) /\ DOMAIN q = 1 .. Len(part)
    BY <1>4, <1>7, LenProperties
  <2>2. QED
    BY <1>4, <1>8, <2>1, SMTT(60) DEF Items
<1>15. QED
  BY <1>13, <1>14 DEF q, piece, list, i
-----------------------------------------------------------------------------
(* Every step keeps the second invariant *)

\* A partition that is returned makes the micro-batches of the next step.
LEMMA KeepCuts ==
  ASSUME StepInv, IInv, ItemsInv, DealInv, MicroBatchInv, phase = "packing", Return,
         NEW s \in states_pq
  PROVE  LET r == Min(Unpacked)
             i == NextToPack(r) IN
         /\ r \in Ranks /\ i \in 1 .. StepCount /\ options.dynamic
         /\ Cut(r, i, Packed(r, s)) /\ Fits(r, Packed(r, s))
<1> DEFINE r == Min(Unpacked)
           i == NextToPack(r)
           k == k_partitions
           list == LengthsOf(r, StepPlaces(i))
<1>1. Unpacked # {} /\ seqlen_list = list /\ k = num_microbatches[r][i]
  BY DEF MicroBatchInv, PackUse
<1>2. r \in Ranks /\ r \in Unpacked
  BY <1>1, NextIs
<1>3. i \in Steps /\ Steps = 1 .. StepCount /\ StepCount \in Nat \ {0} /\ Cutting
  BY <1>2, SharesAre DEF Unpacked, Cutting
<1>4. options.dynamic
  <2>1. SUFFICES ASSUME ~options.dynamic PROVE FALSE
    OBVIOUS
  <2>2. micro_batch_indices[r] = [j \in 1 .. StepCount |-> Sliced(j)]
    BY <1>2, <1>3, <2>1 DEF MicroBatchInv, CutInv, Planned
  <2> DEFINE f == [j \in 1 .. StepCount |-> Sliced(j)]
  <2>3. Listed(f) /\ Len(f) = StepCount
    <3>1. f = [j \in 1 .. StepCount |-> f[j]]
      OBVIOUS
    <3> HIDE DEF f
    <3>2. QED
      BY <1>3, <3>1, ListedFcn
  <2>4. i = StepCount + 1
    BY <2>2, <2>3 DEF NextToPack
  <2>5. QED
    BY <1>3, <2>4
<1>5. /\ list \in Seq(Nat) /\ k \in Nat \ {0} /\ s \in StateOf(k)
      /\ Whole(s, k, list) /\ Even(s, k, list)
      /\ \A x \in 1 .. Len(list) : \E j \in 1 .. k : x \in Indices(s[j])
      /\ \A h, j \in 1 .. k : h # j => Indices(s[h]) \cap Indices(s[j]) = {}
  BY <1>1, Returned
<1>6. Len(list) = num_local_gbs
  <2> HIDE DEF i
  <2>1. QED
    BY <1>2, <1>3, LengthsAre
<1> HIDE DEF r, i, k, list
<1>7. i \in Nat \ {0} /\ i \in 1 .. StepCount
  BY <1>3
<1>8. Cut(r, i, Packed(r, s))
  <2> DEFINE ss == Packed(r, s)
  <2>1. \A j \in 1 .. k : Indices(s[j]) \subseteq 1 .. num_local_gbs
    BY <1>5, <1>6 DEF Whole
  <2>2. \A x \in 1 .. num_local_gbs : \E j \in 1 .. k : x \in Indices(s[j])
    BY <1>5, <1>6
  <2>3. NextToPack(r) \in Nat \ {0} /\ k \in Nat
    BY <1>5, <1>7 DEF i
  <2>4. /\ ss \in Seq(Seq(Nat)) /\ Len(ss) = k /\ Distinct(FlattenSeq(ss))
        /\ Items(FlattenSeq(ss)) = Items(StepPlaces(i))
    BY <1>2, <1>5, <2>1, <2>2, <2>3, PackedIs DEF i
  <2>5. QED
    BY <1>1, <2>4 DEF Cut
<1>9. ASSUME options.vp_group = 0, NEW j \in 1 .. k
      PROVE  BoundedButForOne(Samples(r, Packed(r, s)[j]))
  <2> DEFINE P == [h \in 1 .. k |-> Indices(s[h])]
             batch == Samples(r, Packed(r, s)[j])
  <2>1. Len(FirstFit(list)) <= k
    <3>1. Needed(r, i) <= Count(r, i)
      BY <1>2, <1>3, <1>4, <1>7, <1>9, CountIs
    <3>2. num_microbatches = [q \in Ranks |-> [h \in Steps |-> Count(q, h)]]
      BY DEF MicroBatchInv, CountInv, Planned
    <3>3. k = Count(r, i)
      BY <1>1, <1>2, <1>3, <3>2
    <3>4. QED
      BY <3>1, <3>3 DEF Needed, list
  <2>2. /\ SumOver(total_lengths, batch) = s[j].sum
        /\ \A x \in Indices(s[j]) : \E n \in DOMAIN batch : total_lengths[batch[n]] = list[x]
    <3>1. Whole(s, k, LengthsOf(r, StepPlaces(NextToPack(r)))) /\ NextToPack(r) \in 1 .. StepCount
      BY <1>5, <1>7 DEF list, i
    <3>2. k \in Nat
      BY <1>5
    <3>3. QED
      BY <1>2, <1>3, <1>5, <3>1, <3>2, PartWeighs DEF list, i
  <2>3. \A h \in 1 .. k : P[h] = Indices(s[h]) /\ s[h].sum = Weight(list, P[h])
    BY <1>5 DEF Whole
  <2> HIDE DEF P, batch
  <2>4. Splits(P, k, list)
    <3>1. \A x \in 1 .. Len(list) : \E h \in 1 .. k : x \in P[h]
      BY <1>5, <2>3, SMTT(60)
    <3>2. \A g, h \in 1 .. k : g # h => P[g] \cap P[h] = {}
      BY <1>5, <2>3
    <3>3. QED
      BY <3>1, <3>2, Zenon DEF Splits
  <2>5. \A g, h \in 1 .. k :
          \/ Weight(list, P[g]) <= Weight(list, P[h])
          \/ \E x \in 1 .. Len(list) :
               x \in P[g] /\ Weight(list, P[g]) <= Weight(list, P[h]) + list[x]
    BY <1>5, <2>3 DEF Even, Near
  <2>6. SUFFICES ASSUME SumOver(total_lengths, batch) > max_tokens_per_gpu
                 PROVE  \E n \in DOMAIN batch :
                          SumOver(total_lengths, batch) - total_lengths[batch[n]]
                            <= max_tokens_per_gpu
    BY DEF BoundedButForOne, batch
  <2>7. Weight(list, P[j]) > max_tokens_per_gpu
    BY <2>2, <2>3, <2>6
  <2>8. PICK x \in 1 .. Len(list) :
          x \in P[j] /\ Weight(list, P[j]) - list[x] <= max_tokens_per_gpu
    BY <1>5, <2>1, <2>4, <2>5, <2>7, PartitionsFit
  <2>9. QED
    BY <2>2, <2>3, <2>8
<1>10. Fits(r, Packed(r, s))
  <2>1. Len(Packed(r, s)) = k
    BY <1>1, <1>8 DEF Cut
  <2>2. QED
    BY <1>9, <2>1 DEF Fits
<1>11. QED
  BY <1>2, <1>4, <1>7, <1>8, <1>10 DEF i, r

LEMMA KeepKeepsCuts == StepInv /\ IInv /\ ItemsInv /\ DealInv /\ MicroBatchInv /\ Keep => MicroBatchInv'
<1> SUFFICES ASSUME StepInv, IInv, ItemsInv, DealInv, MicroBatchInv, Keep PROVE MicroBatchInv'
  OBVIOUS
<1> DEFINE r == Min(Unpacked)
           mbi == micro_batch_indices
           L == Len(mbi[r])
<1>1. /\ phase = "packing" /\ phase' = "packing" /\ Return
      /\ UNCHANGED <<options, total_lengths, share, num_microbatches>>
  BY DEF Keep
<1>2. PICK s \in states_pq :
        mbi' = [mbi EXCEPT ![r] = Append(@, Packed(r, s))]
  BY DEF Keep
<1> DEFINE ss == Packed(r, s)
           new == Append(mbi[r], ss)
<1>3. /\ r \in Ranks /\ L + 1 \in 1 .. StepCount /\ options.dynamic
      /\ Cut(r, L + 1, ss) /\ Fits(r, ss)
  BY <1>1, KeepCuts DEF NextToPack
<1>4. DOMAIN mbi = Ranks /\ \A q \in Ranks : Listed(mbi[q])
  BY DEF StepInv, PlanInv
<1>5. /\ L \in Nat /\ Len(new) = L + 1 /\ new[L + 1] = ss
      /\ \A i \in 1 .. L : new[i] = mbi[r][i]
  BY <1>3, <1>4, ListedAppend, ListedIs
<1>6. \A q \in Ranks : mbi'[q] = IF q = r THEN new ELSE mbi[q]
  BY <1>2, <1>4
<1>7. \A q \in Ranks :
        /\ Len(mbi[q]) <= StepCount
        /\ \A i \in 1 .. Len(mbi[q]) : Cut(q, i, mbi[q][i]) /\ Fits(q, mbi[q][i])
  BY <1>1 DEF MicroBatchInv, CutInv, Planned
<1> HIDE DEF new, ss, r, L, mbi
<1>8. ASSUME NEW q \in Ranks
      PROVE  /\ Len(mbi'[q]) <= StepCount
             /\ \A i \in 1 .. Len(mbi'[q]) : Cut(q, i, mbi'[q][i]) /\ Fits(q, mbi'[q][i])
  <2>1. CASE q # r
    BY <1>6, <1>7, <2>1
  <2>2. CASE q = r
    <3>1. mbi'[q] = new /\ Len(new) = L + 1 /\ L \in Nat /\ L + 1 <= StepCount
      BY <1>3, <1>5, <1>6, <2>2
    <3>2. ASSUME NEW i \in 1 .. L + 1 PROVE Cut(q, i, new[i]) /\ Fits(q, new[i])
      <4>1. CASE i = L + 1
        BY <1>3, <1>5, <2>2, <4>1
      <4>2. CASE i \in 1 .. L
        BY <1>5, <1>7, <2>2, <4>2 DEF L
      <4>3. QED
        BY <3>1, <4>1, <4>2
    <3>3. QED
      BY <3>1, <3>2
  <2>3. QED
    BY <2>1, <2>2
<1>9. StepCount' = StepCount /\ Planned' /\ Steps' = Steps
  BY <1>1 DEF StepCount, Total, Planned, Steps
<1>10. CountInv'
  <2>1. \A q, i : Count(q, i)' = Count(q, i)
    BY <1>1 DEF Count, Clamped, Agreed, Needed, LengthsOf
  <2>2. num_microbatches = [q \in Ranks |-> [i \in Steps |-> Count(q, i)]]
    BY <1>1 DEF MicroBatchInv, CountInv, Planned
  <2>3. QED
    BY <1>1, <1>9, <2>1, <2>2 DEF CountInv
<1>11. ASSUME NEW q \in Ranks, NEW i \in 1 .. Len(mbi'[q])
       PROVE  (Cut(q, i, mbi[q][i]) /\ Fits(q, mbi[q][i]))'
  <2>1. Cut(q, i, mbi'[q][i]) /\ Fits(q, mbi'[q][i])
    BY <1>8
  <2>2. Cut(q, i, mbi[q][i])'
    BY <1>1, <2>1 DEF Cut
  <2>3. Fits(q, mbi[q][i])'
    BY <1>1, <2>1 DEF Fits, BoundedButForOne, Samples
  <2>4. QED
    BY <2>2, <2>3
<1>12. CutInv'
  BY <1>1, <1>3, <1>8, <1>9, <1>11 DEF CutInv, mbi
<1>13. PackUse'
  BY <1>1 DEF PackUse, Return
<1>14. QED
  BY <1>10, <1>12, <1>13 DEF MicroBatchInv

LEMMA ScheduleCuts == StepInv /\ DealInv /\ Schedule => MicroBatchInv'
<1> SUFFICES ASSUME StepInv, DealInv, Schedule PROVE MicroBatchInv'
  OBVIOUS
<1>1. /\ phase = "scheduling" /\ phase' = "packing"
      /\ UNCHANGED <<options, total_lengths, share, states_pq>>
      /\ num_microbatches' = [r \in Ranks |-> [i \in Steps |-> Count(r, i)]]
      /\ micro_batch_indices' =
           IF options.dynamic THEN Of(<<>>) ELSE Of([i \in Steps |-> Sliced(i)])
  BY DEF Schedule, balanceVars
<1>2. StepCount' = StepCount /\ Steps' = Steps /\ options' = options
  BY <1>1 DEF StepCount, Total, Steps
<1>3. StepCount \in Nat \ {0} /\ Steps = 1 .. StepCount
  BY <1>1, SharesAre DEF Cutting
<1>4. CountInv'
  <2>1. \A q, i : Count(q, i)' = Count(q, i)
    BY <1>1 DEF Count, Clamped, Agreed, Needed, LengthsOf
  <2>2. QED
    BY <1>1, <1>2, <2>1 DEF CountInv
<1>5. PackUse'
  <2>1. states_pq = {}
    BY <1>1 DEF StepInv, PlanInv, HeapInUse
  <2>2. QED
    BY <1>1, <2>1 DEF PackUse
<1>6. CASE options.dynamic
  <2>1. \A r \in Ranks : micro_batch_indices'[r] = <<>>
    BY <1>1, <1>6 DEF Of
  <2>2. \A r \in Ranks : Len(micro_batch_indices'[r]) = 0
    BY <2>1
  <2>3. \A r \in Ranks : Len(micro_batch_indices'[r]) <= StepCount
                         /\ 1 .. Len(micro_batch_indices'[r]) = {}
    BY <1>3, <2>2
  <2>4. CutInv'
    BY <1>1, <1>2, <1>6, <2>3 DEF CutInv
  <2>5. QED
    BY <1>4, <1>5, <2>4 DEF MicroBatchInv
<1>7. CASE ~options.dynamic
  <2> DEFINE f == [i \in 1 .. StepCount |-> Sliced(i)]
  <2>1. \A r \in Ranks : micro_batch_indices'[r] = f
    BY <1>1, <1>3, <1>7 DEF Of
  <2>2. Len(f) = StepCount
    <3>1. f = [i \in 1 .. StepCount |-> f[i]]
      OBVIOUS
    <3> HIDE DEF f
    <3>2. QED
      BY <1>3, <3>1, ListedFcn
  <2>3. ASSUME NEW i \in 1 .. StepCount
        PROVE  /\ f[i] = Sliced(i) /\ f[i] \in Seq(Seq(Nat))
               /\ Len(f[i]) = num_local_gbs \div micro_batch_size
               /\ FlattenSeq(f[i]) = StepPlaces(i) /\ Distinct(StepPlaces(i))
    <3>1. i \in Nat \ {0}
      BY <1>3
    <3>2. Distinct(StepPlaces(i))
      BY <3>1, StepPlacesAre
    <3>3. QED
      BY <3>1, <3>2, SlicedIs
  <2> HIDE DEF f
  <2>4. \A r \in Ranks : \A i \in 1 .. StepCount :
          num_microbatches'[r][i] = num_local_gbs \div micro_batch_size
    BY <1>1, <1>3, <1>7 DEF Count
  <2>5. ASSUME NEW r \in Ranks, NEW i \in 1 .. StepCount
        PROVE  Cut(r, i, micro_batch_indices[r][i])' /\ Fits(r, micro_batch_indices[r][i])'
    <3>1. Cut(r, i, micro_batch_indices[r][i])'
      BY <2>1, <2>3, <2>4 DEF Cut
    <3>2. Fits(r, micro_batch_indices[r][i])'
      BY <1>2, <1>7 DEF Fits
    <3>3. QED
      BY <3>1, <3>2
  <2>6. CutInv'
    <3>1. \A r \in Ranks : /\ Len(micro_batch_indices'[r]) = StepCount
                           /\ Len(micro_batch_indices'[r]) <= StepCount
                           /\ micro_batch_indices'[r] = [i \in Steps |-> Sliced(i)]
      BY <1>3, <2>1, <2>2 DEF f
    <3>2. QED
      BY <1>1, <1>2, <2>5, <3>1 DEF CutInv
  <2>7. QED
    BY <1>4, <1>5, <2>6 DEF MicroBatchInv
<1>8. QED
  BY <1>6, <1>7

\* Steps that leave the plan alone.
LEMMA CutsKept ==
  ASSUME MicroBatchInv, UNCHANGED <<options, data>>, Planned' => Planned,
         phase' = "computing" =>
           phase = "computing" \/ \A r \in Ranks : Len(micro_batch_indices[r]) = StepCount,
         phase' = "packing" /\ states_pq' # {} =>
           states_pq # {} /\ phase = "packing" /\ UNCHANGED <<seqlen_list, k_partitions>>
  PROVE  MicroBatchInv'
<1>1. UNCHANGED <<options, total_lengths, share, num_microbatches, micro_batch_indices>>
  BY DEF data
<1>2. StepCount' = StepCount /\ Steps' = Steps /\ Unpacked' = Unpacked
  BY <1>1 DEF StepCount, Total, Steps, Unpacked, NextToPack
<1>3. CountInv'
  <2>1. \A q, i : Count(q, i)' = Count(q, i)
    BY <1>1 DEF Count, Clamped, Agreed, Needed, LengthsOf
  <2>2. QED
    BY <1>1, <1>2, <2>1 DEF MicroBatchInv, CountInv
<1>4. CutInv'
  <2>1. \A r \in Ranks : \A i :
          /\ Cut(r, i, micro_batch_indices[r][i])' = Cut(r, i, micro_batch_indices[r][i])
          /\ Fits(r, micro_batch_indices[r][i])' = Fits(r, micro_batch_indices[r][i])
    BY <1>1 DEF Cut, Fits, BoundedButForOne, Samples
  <2>2. QED
    BY <1>1, <1>2, <2>1 DEF MicroBatchInv, CutInv
<1>5. PackUse'
  BY <1>1, <1>2 DEF MicroBatchInv, PackUse, NextToPack, LengthsOf
<1>6. QED
  BY <1>3, <1>4, <1>5 DEF MicroBatchInv

LEMMA PackCuts == StepInv /\ MicroBatchInv /\ Pack => MicroBatchInv'
<1> SUFFICES ASSUME StepInv, MicroBatchInv, Pack PROVE MicroBatchInv'
  OBVIOUS
<1> DEFINE r == Min(Unpacked)
           i == NextToPack(r)
<1>1. /\ phase = "packing" /\ phase' = "packing" /\ Unpacked # {}
      /\ UNCHANGED <<options, total_lengths, share, num_microbatches, micro_batch_indices>>
      /\ seqlen_list' = LengthsOf(r, StepPlaces(i)) /\ k_partitions' = num_microbatches[r][i]
  BY DEF Pack, data, Calls
<1>2. StepCount' = StepCount /\ Steps' = Steps /\ Unpacked' = Unpacked
  BY <1>1 DEF StepCount, Total, Steps, Unpacked, NextToPack
<1>3. CountInv'
  <2>1. \A q, j : Count(q, j)' = Count(q, j)
    BY <1>1 DEF Count, Clamped, Agreed, Needed, LengthsOf
  <2>2. QED
    BY <1>1, <1>2, <2>1 DEF MicroBatchInv, CountInv, Planned
<1>4. CutInv'
  <2>1. \A q \in Ranks : \A j :
          /\ Cut(q, j, micro_batch_indices[q][j])' = Cut(q, j, micro_batch_indices[q][j])
          /\ Fits(q, micro_batch_indices[q][j])' = Fits(q, micro_batch_indices[q][j])
    BY <1>1 DEF Cut, Fits, BoundedButForOne, Samples
  <2>2. QED
    BY <1>1, <1>2, <2>1 DEF MicroBatchInv, CutInv, Planned
<1>5. PackUse'
  BY <1>1, <1>2 DEF PackUse, NextToPack, LengthsOf
<1>6. QED
  BY <1>3, <1>4, <1>5 DEF MicroBatchInv

\* When no rank has a step left to pack, each has all of them.
LEMMA AllPacked ==
  ASSUME StepInv, DealInv, MicroBatchInv, phase = "packing", Unpacked = {}, NEW r \in Ranks
  PROVE  Len(micro_batch_indices[r]) = StepCount
<1>1. StepCount \in Nat /\ Steps = 1 .. StepCount
  BY SharesAre
<1>2. Len(micro_batch_indices[r]) <= StepCount
  BY DEF MicroBatchInv, CutInv, Planned
<1>3. Len(micro_batch_indices[r]) \in Nat
  BY ListedIs DEF StepInv, PlanInv
<1>4. NextToPack(r) \notin Steps
  BY DEF Unpacked
<1>5. QED
  BY <1>1, <1>2, <1>3, <1>4 DEF NextToPack

LEMMA CutsAreKept ==
  StepInv /\ IInv /\ ItemsInv /\ DealInv /\ MicroBatchInv /\ [Next]_vars => MicroBatchInv'
<1> SUFFICES ASSUME StepInv, IInv, ItemsInv, DealInv, MicroBatchInv, [Next]_vars
             PROVE  MicroBatchInv'
  OBVIOUS
<1>1. CASE Receive
  <2>1. phase' \in {"balancing", "scheduling"}
    BY <1>1 DEF Receive
  <2>2. QED
    BY <2>1 DEF MicroBatchInv, CountInv, CutInv, PackUse, Planned
<1>2. CASE Balance
  <2>1. /\ UNCHANGED <<options, data, phase, seqlen_list, k_partitions>>
        /\ states_pq # {}
    BY <1>2, MergeNeedsTwo DEF Balance, Merge, arguments
  <2>2. QED
    BY <2>1, CutsKept DEF Planned
<1>3. CASE Deal
  BY <1>3 DEF Deal, MicroBatchInv, CountInv, CutInv, PackUse, Planned
<1>4. CASE Schedule
  BY <1>4, ScheduleCuts
<1>5. CASE Pack
  BY <1>5, PackCuts
<1>6. CASE Keep
  BY <1>6, KeepKeepsCuts
<1>7. CASE Begin
  <2>1. UNCHANGED <<options, data>> /\ phase = "packing" /\ phase' = "computing"
    BY <1>7 DEF Begin
  <2>2. \A r \in Ranks : Len(micro_batch_indices[r]) = StepCount
    BY <1>7, <2>1, AllPacked DEF Begin
  <2>3. QED
    BY <2>1, <2>2, CutsKept DEF Planned
<1>8. ASSUME UNCHANGED <<options, data>>, phase = "computing", phase' \in {"computing", "waiting"}
      PROVE  MicroBatchInv'
  BY <1>8, CutsKept DEF Planned
<1>9. CASE Forward
  BY <1>8, <1>9 DEF Forward
<1>10. CASE Backward
  BY <1>8, <1>10 DEF Backward
<1>11. CASE Optimize
  BY <1>8, <1>11 DEF Optimize
<1>12. CASE \E r \in Ranks : EndForwardOnly(r)
  BY <1>8, <1>12 DEF EndForwardOnly
<1>13. CASE UNCHANGED vars
  <2>1. UNCHANGED <<options, data, phase, seqlen_list, k_partitions, states_pq>>
    BY <1>13 DEF vars, balanceVars, arguments
  <2>2. QED
    BY <2>1, CutsKept DEF Planned
<1>14. QED
  BY <1>1, <1>2, <1>3, <1>4, <1>5, <1>6, <1>7, <1>9, <1>10, <1>11, <1>12, <1>13 DEF Next, Work

LEMMA CutsHold == Spec => [](StepInv /\ IInv /\ ItemsInv /\ DealInv /\ MicroBatchInv)
<1>1. Init => MicroBatchInv
  BY DEF Init, MicroBatchInv, CountInv, CutInv, PackUse, Planned
<1>2. StepInv /\ IInv /\ ItemsInv /\ DealInv /\ MicroBatchInv /\ [Next]_vars => MicroBatchInv'
  BY CutsAreKept
<1>3. QED
  BY <1>1, <1>2, SharesHold, PTL DEF Spec
-----------------------------------------------------------------------------
\* What is in joined sequences is in one of them.
LEMMA InOneOf ==
  ASSUME NEW X, NEW ss \in Seq(Seq(X)), NEW m \in 1 .. Len(FlattenSeq(ss))
  PROVE  \E i \in 1 .. Len(ss) : \E j \in 1 .. Len(ss[i]) : FlattenSeq(ss)[m] = ss[i][j]
<1> DEFINE N == Len(ss)
           Origin(x, n) == \E i \in 1 .. n : \E j \in 1 .. Len(ss[i]) : x = ss[i][j]
           S == {n \in Nat : \A l \in 1 .. Len(Joint(ss, n)) : Origin(Joint(ss, n)[l], n)}
<1>0. N \in Nat
  BY LenProperties
<1>1. 0 \in S
  BY JointNext
<1>2. \A n \in 0 .. N - 1 : n \in S => n + 1 \in S
  <2>1. SUFFICES ASSUME NEW n \in 0 .. N - 1, n \in S PROVE n + 1 \in S
    OBVIOUS
  <2>2. n \in Nat /\ n + 1 \in Nat /\ n \in 0 .. N
    BY <1>0, <2>1
  <2>3. PICK a \in Seq(X), b \in Seq(X) :
          a = Joint(ss, n) /\ b = ss[n + 1] /\ Joint(ss, n + 1) = a \o b
    <3>1. Joint(ss, n) \in Seq(X) /\ ss[n + 1] \in Seq(X) /\ Joint(ss, n + 1) = Joint(ss, n) \o ss[n + 1]
      BY <2>1, <2>2, JointNext
    <3>2. QED
      BY <3>1
  <2>4. /\ Len(a) \in Nat /\ Len(b) \in Nat /\ Len(a \o b) = Len(a) + Len(b)
        /\ \A l \in 1 .. Len(a) + Len(b) : (a \o b)[l] = IF l <= Len(a) THEN a[l] ELSE b[l - Len(a)]
    OBVIOUS
  <2>5. \A l \in 1 .. Len(a) : Origin(a[l], n)
    BY <2>1, <2>3
  <2>6. ASSUME NEW l \in 1 .. Len(a) + Len(b) PROVE Origin((a \o b)[l], n + 1)
    <3>1. CASE l <= Len(a)
      <4>1. l \in 1 .. Len(a) /\ (a \o b)[l] = a[l]
        BY <2>4, <3>1
      <4>2. PICK i \in 1 .. n : \E j \in 1 .. Len(ss[i]) : a[l] = ss[i][j]
        BY <2>5, <4>1
      <4>3. i \in 1 .. n + 1
        BY <2>2
      <4>4. QED
        BY <4>1, <4>2, <4>3
    <3>2. CASE ~(l <= Len(a))
      <4>1. l - Len(a) \in 1 .. Len(b) /\ (a \o b)[l] = b[l - Len(a)]
        BY <2>4, <3>2
      <4>2. n + 1 \in 1 .. n + 1
        BY <2>2
      <4>3. QED
        BY <2>3, <4>1, <4>2
    <3>3. QED
      BY <3>1, <3>2
  <2>7. QED
    <3> HIDE DEF Origin
    <3>1. QED
      BY <2>2, <2>3, <2>4, <2>6
<1>3. \A n \in 0 .. N : n \in S
  <2> HIDE DEF S, N
  <2>1. QED
    BY <1>0, <1>1, <1>2, CountingTo
<1>4. N \in S
  <2> HIDE DEF S, N
  <2>1. N \in 0 .. N
    BY <1>0
  <2>2. QED
    BY <1>3, <2>1
<1>5. QED
  BY <1>4, JointNext, ZenonT(60)

LEMMA CutsAre ==
  ASSUME StepInv, DealInv, MicroBatchInv, phase = "computing", NEW r \in Ranks
  PROVE  /\ micro_batch_indices[r] \in Seq(Seq(Seq(Nat)))
         /\ Len(micro_batch_indices[r]) = StepCount
         /\ \A i \in 1 .. StepCount :
              Cut(r, i, micro_batch_indices[r][i]) /\ Fits(r, micro_batch_indices[r][i])
<1> DEFINE m == micro_batch_indices[r]
           S == Seq(Seq(Nat))
<1>1. Len(m) = StepCount /\ \A i \in 1 .. StepCount : Cut(r, i, m[i]) /\ Fits(r, m[i])
  BY DEF MicroBatchInv, CutInv, Planned
<1>2. StepCount \in Nat /\ m = [i \in 1 .. StepCount |-> m[i]]
  <2>1. Len(m) \in Nat /\ m = [i \in 1 .. Len(m) |-> m[i]]
    BY ListedIs DEF StepInv, PlanInv
  <2>2. QED
    BY <1>1, <2>1
<1>3. \A i \in 1 .. StepCount : m[i] \in S
  BY <1>1 DEF Cut
<1> HIDE DEF m, S
<1>4. m \in [1 .. StepCount -> S]
  BY <1>2, <1>3
<1>5. m \in Seq(S)
  BY <1>2, <1>4, SeqDef
<1>6. QED
  BY <1>1, <1>5 DEF m, S

\* Though get_data_iterator counts micro-batches with first fit and packs them with
\* karmarkar_karp, a micro-batch over max_tokens_per_gpu is within it without one
\* of its own samples, for any lengths and any number of ranks.
THEOREM MicroBatchesAreBounded == Spec => []MicroBatchBound
<1>1. StepInv /\ DealInv /\ MicroBatchInv => MicroBatchBound
  <2>1. SUFFICES ASSUME StepInv, DealInv, MicroBatchInv, phase = "computing", options.dynamic,
                        options.vp_group = 0, NEW r \in Ranks, NEW m \in DOMAIN Batches(r)
                 PROVE  BoundedButForOne(Samples(r, Batch(r, m)))
    BY DEF MicroBatchBound
  <2> DEFINE ss == micro_batch_indices[r]
             S == Seq(Nat)
  <2>2. ss \in Seq(Seq(S)) /\ Len(ss) = StepCount
    BY <2>1, CutsAre
  <2> HIDE DEF S
  <2>3. m \in 1 .. Len(FlattenSeq(ss)) /\ Batch(r, m) = FlattenSeq(ss)[m]
    <3>1. FlattenSeq(ss) \in Seq(S)
      BY <2>2, FlatType
    <3>2. QED
      BY <2>1, <3>1, LenProperties DEF Batches, Batch
  <2> HIDE DEF ss
  <2>4. PICK i \in 1 .. Len(ss) : \E j \in 1 .. Len(ss[i]) : FlattenSeq(ss)[m] = ss[i][j]
    BY <2>2, <2>3, InOneOf
  <2>5. PICK j \in 1 .. Len(ss[i]) : FlattenSeq(ss)[m] = ss[i][j]
    BY <2>4
  <2>6. Fits(r, ss[i])
    BY <2>1, <2>2, <2>4, CutsAre DEF ss
  <2>7. QED
    BY <2>1, <2>3, <2>5, <2>6 DEF Fits
<1>2. QED
  BY <1>1, CutsHold, PTL
-----------------------------------------------------------------------------
(* The order in which the places of a share are taken *)

\* f of the items of a sequence.
Taken(f, s) == [n \in 1 .. Len(s) |-> f[s[n]]]

LEMMA TakenConcat ==
  ASSUME NEW X, NEW s \in Seq(X), NEW t \in Seq(X), NEW f
  PROVE  Taken(f, s \o t) = Taken(f, s) \o Taken(f, t)
<1> DEFINE S == {f[x] : x \in X}
           m == Len(s)
           n == Len(t)
           u == Taken(f, s)
           v == Taken(f, t)
           w == Taken(f, s \o t)
<1>1. /\ m \in Nat /\ n \in Nat /\ Len(s \o t) = m + n
      /\ \A i \in 1 .. m : s[i] \in X
      /\ \A i \in 1 .. n : t[i] \in X
      /\ \A i \in 1 .. m + n : (s \o t)[i] = IF i <= m THEN s[i] ELSE t[i - m]
  OBVIOUS
<1>2. u \in [1 .. m -> S] /\ \A i \in 1 .. m : u[i] = f[s[i]]
  BY <1>1 DEF Taken
<1>3. v \in [1 .. n -> S] /\ \A i \in 1 .. n : v[i] = f[t[i]]
  BY <1>1 DEF Taken
<1>4. w = [i \in 1 .. m + n |-> w[i]] /\ \A i \in 1 .. m + n : w[i] = f[(s \o t)[i]]
  BY <1>1 DEF Taken
<1> HIDE DEF S, m, n, u, v, w
<1>5. u \in Seq(S) /\ v \in Seq(S)
  BY <1>1, <1>2, <1>3, SeqDef
<1>6. Len(u) = m /\ Len(v) = n
  BY <1>1, <1>2, <1>3, <1>5, LenProperties
<1>7. /\ u \o v \in Seq(S) /\ Len(u \o v) = m + n
      /\ \A i \in 1 .. m + n : (u \o v)[i] = IF i <= m THEN u[i] ELSE v[i - m]
  <2>1. PICK a \in Seq(S), b \in Seq(S) : a = u /\ b = v
    BY <1>5
  <2>2. /\ a \o b \in Seq(S) /\ Len(a \o b) = Len(a) + Len(b)
        /\ \A i \in 1 .. Len(a) + Len(b) :
             (a \o b)[i] = IF i <= Len(a) THEN a[i] ELSE b[i - Len(a)]
    OBVIOUS
  <2>3. QED
    BY <1>6, <2>1, <2>2
<1>8. \A i \in 1 .. m + n : w[i] = (u \o v)[i]
  <2>1. TAKE i \in 1 .. m + n
  <2>2. CASE i <= m
    <3>1. i \in 1 .. m
      BY <1>1, <2>1, <2>2
    <3>2. QED
      BY <1>1, <1>2, <1>4, <1>7, <2>1, <2>2, <3>1, SMTT(60)
  <2>3. CASE ~(i <= m)
    <3>1. i - m \in 1 .. n
      BY <1>1, <2>1, <2>3
    <3>2. QED
      BY <1>1, <1>3, <1>4, <1>7, <2>1, <2>3, <3>1
  <2>4. QED
    BY <2>2, <2>3
<1>9. w \in Seq(S) /\ Len(w) = m + n
  <2>1. m + n \in Nat /\ \A i \in 1 .. m + n : (u \o v)[i] \in S
    BY <1>1, <1>7, ElementOfSeq
  <2>2. w \in [1 .. m + n -> S]
    BY <1>4, <1>8, <2>1
  <2>3. w \in Seq(S)
    BY <2>1, <2>2, SeqDef
  <2>4. QED
    BY <2>1, <2>2, <2>3, LenProperties
<1>10. w = u \o v
  BY <1>7, <1>8, <1>9, SeqEqual
<1>11. QED
  BY <1>10 DEF u, v, w

LEMMA TakenNone == \A f : Taken(f, <<>>) = <<>>
BY DEF Taken

\* Flattening twice, from inside or from outside.
Flats(ss) == [i \in 1 .. Len(ss) |-> FlattenSeq(ss[i])]

LEMMA FlatsAre ==
  ASSUME NEW X, NEW ss \in Seq(Seq(Seq(X)))
  PROVE  Flats(ss) \in Seq(Seq(X)) /\ Len(Flats(ss)) = Len(ss)
<1> DEFINE S == Seq(X)
           g == Flats(ss)
           n == Len(ss)
<1>1. n \in Nat
  BY LenProperties
<1>2. \A i \in 1 .. n : ss[i] \in Seq(Seq(X))
  BY ElementOfSeq
<1>3. \A i \in 1 .. n : FlattenSeq(ss[i]) \in S
  BY <1>2, FlatType
<1>4. g \in [1 .. n -> S]
  BY <1>3 DEF Flats
<1> HIDE DEF S, g, n
<1>5. g \in Seq(S)
  BY <1>1, <1>4, SeqDef
<1>6. Len(g) = n
  BY <1>1, <1>4, <1>5, LenProperties
<1>7. QED
  BY <1>5, <1>6 DEF S, g, n

LEMMA FlatOfJoint ==
  ASSUME NEW X, NEW ss \in Seq(Seq(Seq(X)))
  PROVE  FlattenSeq(FlattenSeq(ss)) = FlattenSeq(Flats(ss))
<1> DEFINE N == Len(ss)
           tt == Flats(ss)
           S == {n \in Nat : FlattenSeq(Joint(ss, n)) = Joint(tt, n)}
<1>0. N \in Nat /\ tt \in Seq(Seq(X)) /\ Len(tt) = N
  BY LenProperties, FlatsAre
<1>1. \A n \in 1 .. N : tt[n] = FlattenSeq(ss[n])
  BY DEF Flats
<1> HIDE DEF tt, N
<1>2. 0 \in S
  <2>1. Joint(ss, 0) = <<>>
    BY JointNext
  <2>2. Joint(tt, 0) = <<>>
    BY <1>0, JointNext
  <2>3. QED
    BY <2>1, <2>2, FlatEmpty
<1>3. \A n \in 0 .. N - 1 : n \in S => n + 1 \in S
  <2>1. SUFFICES ASSUME NEW n \in 0 .. N - 1, n \in S PROVE n + 1 \in S
    OBVIOUS
  <2>2. n + 1 \in 1 .. N /\ n \in 0 .. N /\ n + 1 \in Nat
    BY <1>0, <2>1
  <2>3. PICK a \in Seq(Seq(X)), b \in Seq(Seq(X)) :
          a = Joint(ss, n) /\ b = ss[n + 1] /\ Joint(ss, n + 1) = a \o b
    <3>1. Joint(ss, n) \in Seq(Seq(X)) /\ ss[n + 1] \in Seq(Seq(X))
          /\ Joint(ss, n + 1) = Joint(ss, n) \o ss[n + 1]
      BY <2>1, <2>2, JointNext DEF N
    <3>2. QED
      BY <3>1
  <2>4. FlattenSeq(a \o b) = FlattenSeq(a) \o FlattenSeq(b)
    BY FlatConcat
  <2>5. Joint(tt, n + 1) = Joint(tt, n) \o tt[n + 1]
    BY <1>0, <2>1, JointNext
  <2>6. QED
    BY <1>1, <2>1, <2>2, <2>3, <2>4, <2>5
<1>4. \A n \in 0 .. N : n \in S
  <2> HIDE DEF S
  <2>1. QED
    BY <1>0, <1>2, <1>3, CountingTo
<1>5. N \in S
  <2> HIDE DEF S
  <2>1. N \in 0 .. N
    BY <1>0
  <2>2. QED
    BY <1>4, <2>1
<1>6. Joint(ss, N) = FlattenSeq(ss)
  BY JointNext DEF N
<1>7. Joint(tt, N) = FlattenSeq(tt)
  BY <1>0, JointNext
<1>8. QED
  BY <1>5, <1>6, <1>7 DEF tt

\* The items of one of the sequences are among those of the joined ones.
LEMMA FlatHas ==
  ASSUME NEW X, NEW ss \in Seq(Seq(X)), NEW j \in 1 .. Len(ss), NEW x \in Items(ss[j])
  PROVE  x \in Items(FlattenSeq(ss))
<1>1. ss[j] \in Seq(X)
  BY ElementOfSeq
<1>2. PICK n \in 1 .. Len(ss[j]) : x = ss[j][n]
  BY <1>1, LenProperties DEF Items
<1>3. j - 1 \in 0 .. Len(ss) - 1 /\ (j - 1) + 1 = j
  BY LenProperties
<1>4. PICK m \in 0 .. Len(ss) - 1 : m + 1 = j
  BY <1>3
<1>5. n \in 1 .. Len(ss[m + 1])
  BY <1>2, <1>4
<1>6. /\ Len(Joint(ss, m)) + n \in 1 .. Len(FlattenSeq(ss))
      /\ FlattenSeq(ss)[Len(Joint(ss, m)) + n] = ss[m + 1][n]
  BY <1>5, JointPlace
<1>7. DOMAIN FlattenSeq(ss) = 1 .. Len(FlattenSeq(ss))
  BY FlatType, LenProperties
<1>8. QED
  BY <1>2, <1>4, <1>6, <1>7 DEF Items
-----------------------------------------------------------------------------
(* The places of a step, once more *)

\* The step that a place of the share belongs to.
StepOf(p) == (p - 1) \div num_local_gbs + 1

LEMMA StepOfIs ==
  ASSUME NEW i \in Nat \ {0}, NEW p \in Items(StepPlaces(i))
  PROVE  p \in Nat \ {0} /\ StepOf(p) = i
<1> DEFINE w == num_local_gbs
           a == (i - 1) * w
<1>1. w \in Nat \ {0} /\ a \in Nat /\ p \in a + 1 .. a + w
  BY BatchSizes, StepPlacesAre
<1>2. PICK q \in Nat : q = i - 1
  OBVIOUS
<1>3. PICK b \in 0 .. w - 1 : p - 1 = a + b
  <2>1. p - 1 - a \in 0 .. w - 1 /\ p - 1 = a + (p - 1 - a)
    <3> HIDE DEF a, w
    <3>1. QED
      BY <1>1
  <2>2. QED
    BY <2>1
<1>4. a = w * q
  <2> HIDE DEF w
  <2>1. QED
    BY <1>1, <1>2
<1>5. (w * q + b) \div w = q
  <2> HIDE DEF w
  <2>1. QED
    BY <1>1, <1>2, <1>3, Remainder
<1>6. (p - 1) \div w = q
  BY <1>3, <1>4, <1>5
<1>7. p \in Nat \ {0}
  <2> HIDE DEF a, w
  <2>1. QED
    BY <1>1
<1>8. QED
  BY <1>2, <1>6, <1>7 DEF StepOf

LEMMA StepOfPlace ==
  ASSUME NEW T \in Nat, NEW p \in 1 .. T * num_local_gbs
  PROVE  \E i \in 1 .. T : p \in Items(StepPlaces(i))
<1> DEFINE w == num_local_gbs
<1>1. w \in Nat \ {0}
  BY BatchSizes
<1>2. PICK c \in 0 .. T - 1 : \E i \in 1 .. w : p = c * w + w + 1 - i
  <2> HIDE DEF w
  <2>1. p \in 1 .. T * w
    BY DEF w
  <2>2. QED
    BY <1>1, <2>1, EveryPlace
<1>3. PICK i \in 1 .. w : p = c * w + w + 1 - i
  BY <1>2
<1>4. c + 1 \in 1 .. T /\ c + 1 \in Nat \ {0} /\ (c + 1) - 1 = c /\ c \in Nat
  BY <1>2
<1>5. Items(StepPlaces(c + 1)) = c * w + 1 .. c * w + w
  <2>1. PICK d \in Nat \ {0} : d = c + 1 /\ d - 1 = c
    BY <1>4
  <2>2. Items(StepPlaces(d)) = (d - 1) * w + 1 .. (d - 1) * w + w
    BY StepPlacesAre
  <2>3. QED
    BY <2>1, <2>2
<1>6. p \in c * w + 1 .. c * w + w
  <2> HIDE DEF w
  <2>1. PICK a \in Nat : a = c * w
    BY <1>1, <1>4
  <2>2. QED
    BY <1>1, <1>3, <2>1
<1>7. QED
  BY <1>4, <1>5, <1>6
-----------------------------------------------------------------------------
(* The third invariant: how far each rank has come *)

\* The places of the share in the order of the micro-batches, and those of the
\* micro-batches that the pass has taken.
Origin(r) == FlattenSeq(Batches(r))
Done(r) == Joint(Batches(r), rank[r].offset)

\* What is trained on at a place.
Mark(r) ==
  [p \in Nat |-> [sample |-> share[r][p], log_prob |-> share[r][p], step |-> StepOf(p)]]

Going(r) ==
  /\ rank[r].step \in 1 .. StepCount
  /\ rank[r].forwards <= num_microbatches[r][rank[r].step]
  /\ rank[r].offset = Len(Joint(micro_batch_indices[r], rank[r].step - 1)) + rank[r].forwards
  /\ log_probs[r] = share[r]
  /\ results[r] = IF rank[r].pass = "log_probs" THEN Taken(share[r], Done(r)) ELSE <<>>
  /\ trained[r] = IF rank[r].pass = "train" THEN Taken(Mark(r), Done(r)) ELSE <<>>

Together ==
  \A q, r \in Ranks : rank[r].pass = "train" =>
    rank[r].step = IF rank[q].pass = "train" THEN rank[q].step ELSE 1

\* Outside the passes nothing is left over; in them each rank has the results and
\* has trained on the marks of the micro-batches that it has taken.
PassInv ==
  /\ results = [r \in Ranks |-> results[r]] /\ trained = [r \in Ranks |-> trained[r]]
  /\ phase # "computing" => results = Of(<<>>)
  /\ phase \notin {"computing", "waiting"} => trained = Of(<<>>)
  /\ phase = "computing" =>
       log_probs = [r \in Ranks |-> log_probs[r]] /\ Together /\ \A r \in Ranks : Going(r)

\* The places of the share are those of its steps.
LEMMA StepsCover ==
  ASSUME NEW T \in Nat, NEW tt \in Seq(Seq(Nat)), Len(tt) = T,
         \A i \in 1 .. T : Distinct(tt[i]),
         \A i \in 1 .. T : Items(tt[i]) = Items(StepPlaces(i))
  PROVE  LET s == FlattenSeq(tt) IN
         /\ s \in Seq(Nat) /\ Distinct(s) /\ Items(s) = 1 .. T * num_local_gbs
         /\ Len(s) = T * num_local_gbs
<1> DEFINE P == T * num_local_gbs
           s == FlattenSeq(tt)
<1>1. P \in Nat
  BY BatchSizes
<1>2. \A i, j \in 1 .. Len(tt) : i # j => Items(tt[i]) \cap Items(tt[j]) = {}
  <2>1. SUFFICES ASSUME NEW i \in 1 .. T, NEW j \in 1 .. T, i # j,
                        NEW p \in Items(tt[i]) \cap Items(tt[j])
                 PROVE  FALSE
    OBVIOUS
  <2>2. i \in Nat \ {0} /\ j \in Nat \ {0} /\ p \in Items(StepPlaces(i)) /\ p \in Items(StepPlaces(j))
    BY <2>1
  <2>3. StepOf(p) = i /\ StepOf(p) = j
    BY <2>2, StepOfIs
  <2>4. QED
    BY <2>1, <2>3
<1>3. /\ s \in Seq(Nat) /\ Distinct(s)
      /\ Items(s) = UNION {Items(tt[i]) : i \in 1 .. Len(tt)}
  BY <1>2, FlatDistinct
<1>4. UNION {Items(tt[i]) : i \in 1 .. T} = 1 .. P
  <2>1. ASSUME NEW p \in 1 .. P PROVE \E i \in 1 .. T : p \in Items(tt[i])
    BY StepOfPlace
  <2>2. ASSUME NEW i \in 1 .. T, NEW p \in Items(tt[i]) PROVE p \in 1 .. P
    BY StepPlacesIn
  <2>3. QED
    BY <2>1, <2>2
<1> HIDE DEF s, P
<1>5. Items(s) = 1 .. P
  BY <1>3, <1>4
<1>6. Len(s) = P
  BY <1>1, <1>3, <1>5, DistinctLength, UpTo
<1>7. QED
  BY <1>3, <1>5, <1>6 DEF s, P

LEMMA OriginIs ==
  ASSUME StepInv, DealInv, MicroBatchInv, phase = "computing", NEW r \in Ranks
  PROVE  LET P == StepCount * num_local_gbs IN
         /\ Batches(r) \in Seq(Seq(Nat)) /\ Origin(r) \in Seq(Nat)
         /\ Len(Origin(r)) = P /\ Distinct(Origin(r)) /\ Items(Origin(r)) = 1 .. P
         /\ ~options.dynamic => \A n \in 1 .. P : Origin(r)[n] = n
<1> DEFINE T == StepCount
           w == num_local_gbs
           P == T * w
           ss == micro_batch_indices[r]
           tt == Flats(ss)
<1>1. /\ ss \in Seq(Seq(Seq(Nat))) /\ Len(ss) = T
      /\ \A i \in 1 .. T : Cut(r, i, ss[i])
  BY CutsAre
<1>2. T \in Nat \ {0} /\ w \in Nat /\ Steps = 1 .. T
  BY BatchSizes, SharesAre
<1>3. tt \in Seq(Seq(Nat)) /\ Len(tt) = T /\ \A i \in 1 .. T : tt[i] = FlattenSeq(ss[i])
  BY <1>1, FlatsAre DEF Flats
<1>4. Origin(r) = FlattenSeq(tt) /\ Batches(r) \in Seq(Seq(Nat))
  <2> HIDE DEF ss
  <2>1. FlattenSeq(FlattenSeq(ss)) = FlattenSeq(tt)
    BY <1>1, FlatOfJoint
  <2>2. FlattenSeq(ss) \in Seq(Seq(Nat))
    BY <1>1, FlatType
  <2>3. QED
    BY <2>1, <2>2 DEF Origin, Batches, ss
<1>5. \A i \in 1 .. T : Distinct(tt[i]) /\ Items(tt[i]) = Items(StepPlaces(i))
  BY <1>1, <1>3 DEF Cut
<1> HIDE DEF tt, T
<1>6. /\ FlattenSeq(tt) \in Seq(Nat) /\ Distinct(FlattenSeq(tt))
      /\ Items(FlattenSeq(tt)) = 1 .. P /\ Len(FlattenSeq(tt)) = P
  <2>1. T \in Nat
    BY <1>2
  <2>2. \A i \in 1 .. T : Distinct(tt[i])
    BY <1>5
  <2>3. \A i \in 1 .. T : Items(tt[i]) = Items(StepPlaces(i))
    BY <1>5
  <2>4. QED
    BY <1>3, <2>1, <2>2, <2>3, StepsCover
<1>7. ASSUME ~options.dynamic, NEW n \in 1 .. P
      PROVE  FlattenSeq(tt)[n] = n
  <2>1. ss = [i \in Steps |-> Sliced(i)]
    BY <1>7 DEF MicroBatchInv, CutInv, Planned
  <2>2. \A i \in 1 .. T : tt[i] = Piece(0, w, i)
    <3>1. TAKE i \in 1 .. T
    <3>2. i \in Nat \ {0}
      BY <1>2
    <3>3. tt[i] = StepPlaces(i)
      BY <1>2, <1>3, <2>1, <3>2, SlicedIs
    <3>4. (i - 1) * w \in Nat /\ i * w \in Nat
      BY <1>2
    <3>5. 0 + (i - 1) * w + 1 = (i - 1) * w + 1 /\ 0 + i * w = i * w
      <4> HIDE DEF w
      <4>1. PICK u \in Nat, v \in Nat : u = (i - 1) * w /\ v = i * w
        BY <3>4
      <4>2. QED
        BY <4>1
    <3>6. QED
      BY <3>3, <3>5 DEF Piece, StepPlaces
  <2> HIDE DEF w
  <2>3. FlattenSeq(tt) = Places(0 + 1, 0 + T * w)
    <3>1. T \in Nat /\ 0 \in Nat /\ w \in Nat
      BY <1>2
    <3>2. QED
      BY <1>3, <2>2, <3>1, PiecesOfPlaces, SMTT(30)
  <2>4. PICK z \in Nat, p \in Nat : z = 0 /\ p = T * w
    BY <1>2
  <2>5. \A m \in 1 .. p : Places(z + 1, z + p)[m] = z + m
    BY PlacesAre
  <2>6. FlattenSeq(tt)[n] = 0 + n
    BY <1>7, <2>3, <2>4, <2>5
  <2>7. QED
    BY <1>2, <2>6
<1>8. QED
  BY <1>4, <1>6, <1>7 DEF T
-----------------------------------------------------------------------------
(* The next micro-batch of a rank, and the ends of its steps *)

\* What the plan of a rank says of one of its steps.
LEMMA PlanOf ==
  ASSUME StepInv, DealInv, MicroBatchInv, phase = "computing", NEW r \in Ranks,
         NEW i \in 1 .. StepCount
  PROVE  LET ss == micro_batch_indices[r] IN
         /\ ss \in Seq(Seq(Seq(Nat))) /\ Len(ss) = StepCount /\ StepCount \in Nat \ {0}
         /\ Len(num_microbatches[r]) = StepCount
         /\ ss[i] \in Seq(Seq(Nat)) /\ Len(ss[i]) = num_microbatches[r][i]
         /\ Items(FlattenSeq(ss[i])) = Items(StepPlaces(i))
         /\ Len(Joint(ss, i - 1)) \in Nat /\ Joint(ss, 0) = <<>>
         /\ Len(Joint(ss, i)) = Len(Joint(ss, i - 1)) + num_microbatches[r][i]
         /\ Joint(ss, StepCount) = Batches(r)
<1> DEFINE ss == micro_batch_indices[r]
           T == StepCount
           S == Seq(Nat)
<1>1. ss \in Seq(Seq(S)) /\ Len(ss) = T /\ Cut(r, i, ss[i])
  BY CutsAre
<1>2. T \in Nat \ {0} /\ Steps = 1 .. T
  BY SharesAre
<1>3. Len(num_microbatches[r]) = T
  <2> DEFINE f == [j \in 1 .. T |-> Count(r, j)]
  <2>1. num_microbatches[r] = f
    BY <1>2 DEF MicroBatchInv, CountInv, Planned
  <2>2. f = [j \in 1 .. T |-> f[j]]
    OBVIOUS
  <2> HIDE DEF f, T
  <2>3. Len([j \in 1 .. T |-> f[j]]) = T
    BY <1>2, ListedFcn
  <2>4. QED
    BY <2>1, <2>2, <2>3
<1>4. /\ ss[i] \in Seq(S) /\ Len(ss[i]) = num_microbatches[r][i]
      /\ Items(FlattenSeq(ss[i])) = Items(StepPlaces(i))
  BY <1>1 DEF Cut
<1> HIDE DEF ss, T, S
<1>5. PICK m \in 0 .. T - 1 : m + 1 = i /\ m = i - 1
  <2>1. i \in 1 .. T
    BY DEF T
  <2>2. i - 1 \in 0 .. T - 1 /\ (i - 1) + 1 = i
    BY <1>2, <2>1
  <2>3. QED
    BY <2>2
<1>6. /\ Joint(ss, 0) = <<>> /\ Joint(ss, T) = FlattenSeq(ss)
      /\ Joint(ss, m) \in Seq(S) /\ ss[m + 1] \in Seq(S)
      /\ Joint(ss, m + 1) = Joint(ss, m) \o ss[m + 1]
  <2>1. m \in 0 .. Len(ss) - 1 /\ m \in 0 .. Len(ss)
    BY <1>1, <1>2, <1>5
  <2>2. QED
    BY <1>1, <2>1, JointNext
<1>7. Len(Joint(ss, m)) \in Nat /\ Len(Joint(ss, m + 1)) = Len(Joint(ss, m)) + Len(ss[m + 1])
  <2>1. PICK a \in Seq(S), b \in Seq(S) : a = Joint(ss, m) /\ b = ss[m + 1]
    BY <1>6
  <2>2. Len(a) \in Nat /\ Len(a \o b) = Len(a) + Len(b)
    OBVIOUS
  <2>3. QED
    BY <1>6, <2>1, <2>2
<1>8. QED
  BY <1>1, <1>2, <1>3, <1>4, <1>5, <1>6, <1>7 DEF ss, T, S, Batches

LEMMA NextBatch ==
  ASSUME StepInv, DealInv, MicroBatchInv, phase = "computing", NEW r \in Ranks, Going(r),
         rank[r].forwards # num_microbatches[r][rank[r].step]
  PROVE  LET n == rank[r].offset IN
         /\ n \in Nat /\ Batch(r, n + 1) \in Seq(Nat) /\ Joint(Batches(r), n) \in Seq(Nat)
         /\ Joint(Batches(r), n + 1) = Joint(Batches(r), n) \o Batch(r, n + 1)
         /\ \A p \in Items(Batch(r, n + 1)) :
              /\ p \in Nat /\ p \in DOMAIN share[r] /\ StepOf(p) = rank[r].step
<1> DEFINE ss == micro_batch_indices[r]
           T == StepCount
           S == Seq(Nat)
           i == rank[r].step
           f == rank[r].forwards
           n == rank[r].offset
           c == num_microbatches[r][i]
           j == Len(Joint(ss, i - 1))
<1>1. i \in 1 .. T /\ f <= c /\ n = j + f
  BY DEF Going
<1>2. /\ ss \in Seq(Seq(S)) /\ Len(ss) = T /\ T \in Nat \ {0}
      /\ ss[i] \in Seq(S) /\ Len(ss[i]) = c
      /\ Items(FlattenSeq(ss[i])) = Items(StepPlaces(i)) /\ j \in Nat
  BY <1>1, PlanOf
<1>3. f \in Nat /\ n \in Nat
  BY StatesOf DEF StepInv, RankInv
<1>4. c \in Nat /\ f + 1 \in 1 .. c /\ f # c
  <2>1. c \in Nat /\ f # c
    BY <1>2, LenProperties
  <2>2. QED
    BY <1>1, <1>3, <2>1
<1> HIDE DEF ss, T, S, c, i, f, n
<1>5. PICK m \in 0 .. T - 1 : m + 1 = i /\ m = i - 1
  <2>1. i - 1 \in 0 .. T - 1 /\ (i - 1) + 1 = i
    BY <1>1, <1>2
  <2>2. QED
    BY <2>1
<1>6. /\ j + (f + 1) \in 1 .. Len(FlattenSeq(ss))
      /\ FlattenSeq(ss)[j + (f + 1)] = ss[i][f + 1]
  <2>1. m \in 0 .. Len(ss) - 1 /\ f + 1 \in 1 .. Len(ss[m + 1])
    BY <1>2, <1>4, <1>5
  <2>2. /\ Len(Joint(ss, m)) + (f + 1) \in 1 .. Len(FlattenSeq(ss))
        /\ FlattenSeq(ss)[Len(Joint(ss, m)) + (f + 1)] = ss[m + 1][f + 1]
    <3>1. PICK g \in 1 .. Len(ss[m + 1]) : g = f + 1
      BY <2>1
    <3>2. /\ Len(Joint(ss, m)) + g \in 1 .. Len(FlattenSeq(ss))
          /\ FlattenSeq(ss)[Len(Joint(ss, m)) + g] = ss[m + 1][g]
      BY <1>2, <2>1, <3>1, JointPlace, ZenonT(60)
    <3>3. QED
      BY <3>1, <3>2
  <2>3. QED
    BY <1>5, <2>2
<1>7. j + (f + 1) = n + 1
  BY <1>1, <1>2, <1>3
<1> HIDE DEF j
<1>8. Batch(r, n + 1) = ss[i][f + 1] /\ n + 1 \in 1 .. Len(Batches(r))
  BY <1>6, <1>7 DEF Batch, Batches, ss
<1>9. ss[i][f + 1] \in S
  BY <1>2, <1>4, ElementOfSeq
<1>10. Batches(r) \in Seq(S)
  BY OriginIs DEF S
<1>11. /\ Joint(Batches(r), n) \in S
       /\ Joint(Batches(r), n + 1) = Joint(Batches(r), n) \o Batch(r, n + 1)
  <2> DEFINE bb == Batches(r)
  <2>1. bb \in Seq(Seq(Nat))
    BY <1>10 DEF S
  <2>2. n \in 0 .. Len(bb) - 1 /\ n \in 0 .. Len(bb)
    <3>1. Len(bb) \in Nat
      BY <2>1, LenProperties
    <3>2. QED
      BY <1>3, <1>8, <3>1
  <2> HIDE DEF bb
  <2>3. Joint(bb, n) \in Seq(Nat) /\ Joint(bb, n + 1) = Joint(bb, n) \o bb[n + 1]
    BY <2>1, <2>2, JointNext
  <2>4. QED
    BY <2>3 DEF bb, Batch, S
<1>12. ASSUME NEW p \in Items(Batch(r, n + 1))
       PROVE  p \in Nat /\ p \in DOMAIN share[r] /\ StepOf(p) = i
  <2>1. p \in Items(FlattenSeq(ss[i]))
    <3>1. p \in Items(ss[i][f + 1]) /\ f + 1 \in 1 .. Len(ss[i]) /\ ss[i] \in Seq(Seq(Nat))
      BY <1>2, <1>4, <1>8 DEF S
    <3>2. QED
      BY <3>1, FlatHas
  <2>2. p \in Items(StepPlaces(i)) /\ i \in Nat \ {0}
    BY <1>1, <1>2, <2>1
  <2>3. p \in Nat /\ StepOf(p) = i
    BY <2>2, StepOfIs
  <2>4. p \in 1 .. T * num_local_gbs
    BY <1>1, <1>2, <2>2, StepPlacesIn
  <2>5. DOMAIN share[r] = 1 .. T * num_local_gbs
    BY SharesAre DEF T
  <2>6. QED
    BY <2>3, <2>4, <2>5
<1>13. QED
  BY <1>3, <1>8, <1>9, <1>11, <1>12 DEF n, i, S

\* The end of a step is the beginning of the next, and the end of the last that
\* of all micro-batches.
LEMMA StepEnds ==
  ASSUME StepInv, DealInv, MicroBatchInv, phase = "computing", NEW r \in Ranks, Going(r), StepDone(r)
  PROVE  /\ ~LastStep(r) => /\ rank[r].step + 1 \in 1 .. StepCount
                            /\ rank[r].offset = Len(Joint(micro_batch_indices[r], rank[r].step))
         /\ LastStep(r) => Done(r) = Origin(r)
         /\ LastStep(r) <=> rank[r].step = StepCount
<1> DEFINE ss == micro_batch_indices[r]
           T == StepCount
           i == rank[r].step
<1>1. i \in 1 .. T /\ rank[r].offset = Len(Joint(ss, i - 1)) + num_microbatches[r][i]
  BY DEF Going, StepDone
<1>2. /\ T \in Nat \ {0} /\ Len(num_microbatches[r]) = T
      /\ Len(Joint(ss, i)) = Len(Joint(ss, i - 1)) + num_microbatches[r][i]
      /\ Joint(ss, T) = Batches(r)
  BY <1>1, PlanOf
<1>3. LastStep(r) <=> i = T
  BY <1>2 DEF LastStep
<1>4. rank[r].offset = Len(Joint(ss, i))
  BY <1>1, <1>2
<1>5. LastStep(r) => Done(r) = Origin(r)
  <2>1. SUFFICES ASSUME LastStep(r) PROVE Done(r) = Origin(r)
    OBVIOUS
  <2>2. rank[r].offset = Len(Batches(r))
    BY <1>2, <1>3, <1>4, <2>1
  <2>3. Batches(r) \in Seq(Seq(Nat))
    BY OriginIs
  <2>4. QED
    BY <2>2, <2>3, JointNext DEF Done, Origin
<1>6. ~LastStep(r) => i + 1 \in 1 .. T
  BY <1>1, <1>2, <1>3
<1>7. QED
  BY <1>3, <1>4, <1>5, <1>6

\* The results of all micro-batches, back in the order of the share.
LEMMA ReorderedIs ==
  ASSUME StepInv, DealInv, MicroBatchInv, phase = "computing", NEW r \in Ranks
  PROVE  Reordered(r, Taken(share[r], Origin(r))) = share[r]
<1> DEFINE P == StepCount * num_local_gbs
           o == Origin(r)
           v == Taken(share[r], o)
           sh == share[r]
<1>1. /\ o \in Seq(Nat) /\ Len(o) = P /\ Distinct(o) /\ Items(o) = 1 .. P
      /\ ~options.dynamic => \A n \in 1 .. P : o[n] = n
  BY OriginIs
<1>2. sh \in Seq(Nat) /\ DOMAIN sh = 1 .. P
  BY SharesAre
<1>3. P \in Nat /\ DOMAIN o = 1 .. P
  BY <1>1, LenProperties
<1> HIDE DEF P, o, sh
<1>4. DOMAIN v = 1 .. P /\ v = [n \in 1 .. P |-> sh[o[n]]]
  BY <1>1 DEF Taken, sh
<1>5. sh = [n \in 1 .. P |-> sh[n]]
  BY <1>2
<1>6. CASE options.dynamic
  <2>1. Reordered(r, v) = [i \in 1 .. P |-> v[CHOOSE n \in 1 .. P : o[n] = i]]
    BY <1>4, <1>6 DEF Reordered, Origin, o
  <2>2. ASSUME NEW i \in 1 .. P PROVE v[CHOOSE n \in 1 .. P : o[n] = i] = sh[i]
    <3>1. \E n \in 1 .. P : o[n] = i
      BY <1>1, <1>3 DEF Items
    <3>2. PICK m : m = CHOOSE n \in 1 .. P : o[n] = i
      OBVIOUS
    <3>3. m \in 1 .. P /\ o[m] = i
      BY <3>1, <3>2
    <3>4. QED
      BY <1>4, <3>2, <3>3
  <2>3. QED
    BY <1>5, <2>1, <2>2 DEF o, sh
<1>7. CASE ~options.dynamic
  <2>1. Reordered(r, v) = v
    BY <1>7 DEF Reordered
  <2>2. v = sh
    BY <1>1, <1>4, <1>5, <1>7
  <2>3. QED
    BY <2>1, <2>2 DEF o, sh
<1>8. QED
  BY <1>6, <1>7
-----------------------------------------------------------------------------
(* The steps of the passes keep the third invariant *)

LEMMA JointNone == \A ss : Joint(ss, 0) = <<>>
<1>1. SUFFICES ASSUME NEW ss PROVE Joint(ss, 0) = <<>>
  OBVIOUS
<1>2. [i \in 1 .. 0 |-> ss[i]] = <<>>
  OBVIOUS
<1>3. QED
  BY <1>2, FlatEmpty DEF Joint

LEMMA PlanKept ==
  ASSUME UNCHANGED data
  PROVE  /\ StepCount' = StepCount
         /\ \A r : Batches(r)' = Batches(r) /\ Mark(r)' = Mark(r) /\ Origin(r)' = Origin(r)
         /\ UNCHANGED <<total_lengths, share, num_microbatches, micro_batch_indices>>
BY DEF data, StepCount, Total, Batches, Mark, Origin

\* A rank that has not moved.
LEMMA SameGoing ==
  ASSUME UNCHANGED data, NEW r \in Ranks, Going(r),
         rank'[r].pass = rank[r].pass, rank'[r].step = rank[r].step,
         rank'[r].forwards = rank[r].forwards, rank'[r].offset = rank[r].offset,
         log_probs'[r] = log_probs[r], results'[r] = results[r], trained'[r] = trained[r]
  PROVE  Going(r)'
<1>1. Done(r)' = Done(r)
  BY PlanKept DEF Done
<1>2. QED
  BY <1>1, PlanKept DEF Going

\* A rank that begins a pass.
LEMMA EnteredGoing ==
  ASSUME UNCHANGED data, NEW r \in Ranks, NEW pass \in {"ref", "log_probs", "train"},
         StepCount \in Nat \ {0}, num_microbatches[r][1] \in Nat,
         rank'[r] = Entering(pass),
         log_probs'[r] = share[r], results'[r] = <<>>, trained'[r] = <<>>
  PROVE  Going(r)' /\ rank'[r].step = 1
<1>1. /\ rank'[r].step = 1 /\ rank'[r].forwards = 0 /\ rank'[r].offset = 0
      /\ rank'[r].pass = pass
  BY DEF Entering, Resting
<1>2. Done(r)' = <<>>
  BY <1>1, JointNone, PlanKept DEF Done
<1>3. Len(Joint(micro_batch_indices[r], 0)) = 0
  BY JointNone
<1>4. 1 \in 1 .. StepCount /\ 1 - 1 = 0
  OBVIOUS
<1>5. QED
  BY <1>1, <1>2, <1>3, <1>4, PlanKept, TakenNone DEF Going

LEMMA BeginPasses == StepInv /\ DealInv /\ MicroBatchInv /\ PassInv /\ Begin => PassInv'
<1> SUFFICES ASSUME StepInv, DealInv, MicroBatchInv, PassInv, Begin PROVE PassInv'
  OBVIOUS
<1>1. /\ phase = "packing" /\ phase' = "computing" /\ Unpacked = {}
      /\ UNCHANGED <<options, data, results, trained>>
      /\ rank' = Of(Entering(FirstPass)) /\ log_probs' = share
  BY DEF Begin
<1>2. FirstPass \in {"ref", "log_probs", "train"}
  BY DEF FirstPass
<1>3. StepCount \in Nat \ {0}
  BY <1>1, SharesAre
<1>4. ASSUME NEW r \in Ranks PROVE num_microbatches[r][1] \in Nat
  <2>1. Len(micro_batch_indices[r]) = StepCount
    BY <1>1, AllPacked
  <2>2. 1 \in 1 .. Len(micro_batch_indices[r])
    BY <1>3, <2>1
  <2>3. Cut(r, 1, micro_batch_indices[r][1])
    BY <1>1, <2>2 DEF MicroBatchInv, CutInv, Planned
  <2>4. QED
    BY <2>3, LenProperties DEF Cut
<1>5. results = Of(<<>>) /\ trained = Of(<<>>) /\ share = [r \in Ranks |-> share[r]]
  BY <1>1 DEF PassInv, DealInv, ShareInv, Dealt
<1>6. ASSUME NEW r \in Ranks PROVE Going(r)' /\ rank'[r].step = 1
  <2>1. UNCHANGED data /\ rank'[r] = Entering(FirstPass) /\ log_probs'[r] = share[r]
        /\ results'[r] = <<>> /\ trained'[r] = <<>>
    BY <1>1, <1>5 DEF Of
  <2>2. QED
    BY <1>2, <1>3, <1>4, <2>1, EnteredGoing
<1>7. Together'
  BY <1>6 DEF Together
<1>8. QED
  BY <1>1, <1>5, <1>6, <1>7 DEF PassInv

LEMMA ForwardOfRank ==
  ASSUME StepInv, DealInv, MicroBatchInv, phase = "computing", UNCHANGED <<data, log_probs>>,
         NEW r \in Ranks, Going(r), CanForward(r),
         rank'[r] = [rank[r] EXCEPT !.forwards = @ + 1, !.offset = @ + 1, !.stage = StageRestored(@)],
         results'[r] = IF rank[r].pass = "log_probs"
                       THEN results[r] \o Samples(r, Batch(r, rank[r].offset + 1)) ELSE results[r],
         trained'[r] = IF rank[r].pass = "train"
                       THEN trained[r] \o Learned(r, Batch(r, rank[r].offset + 1)) ELSE trained[r]
  PROVE  Going(r)' /\ rank'[r].step = rank[r].step /\ rank'[r].pass = rank[r].pass
<1> DEFINE b == Batch(r, rank[r].offset + 1)
           d == Done(r)
           i == rank[r].step
<1>1. rank[r] \in States /\ rank[r].forwards \in Nat /\ rank[r].offset \in Nat
  BY StatesOf DEF StepInv, RankInv
<1>2. /\ rank'[r].step = i /\ rank'[r].pass = rank[r].pass
      /\ rank'[r].forwards = rank[r].forwards + 1 /\ rank'[r].offset = rank[r].offset + 1
  BY <1>1 DEF States
<1>3. rank[r].forwards < num_microbatches[r][i]
  BY DEF CanForward
<1>4. /\ b \in Seq(Nat) /\ d \in Seq(Nat) /\ Joint(Batches(r), rank[r].offset + 1) = d \o b
      /\ \A p \in Items(b) : p \in Nat /\ p \in DOMAIN share[r] /\ StepOf(p) = i
  <2>1. rank[r].forwards # num_microbatches[r][i]
    BY <1>1, <1>3
  <2>2. QED
    BY <2>1, NextBatch DEF Done
<1>5. Done(r)' = d \o b
  BY <1>2, <1>4, PlanKept DEF Done
<1>6. Samples(r, b) = Taken(share[r], b)
  BY <1>4, LenProperties DEF Samples, Taken
<1>7. Learned(r, b) = Taken(Mark(r), b)
  <2>1. log_probs[r] = share[r]
    BY DEF Going
  <2>2. DOMAIN b = 1 .. Len(b)
    BY <1>4, LenProperties
  <2>3. \A n \in 1 .. Len(b) : b[n] \in Nat /\ StepOf(b[n]) = i
    BY <1>4, <2>2 DEF Items
  <2>4. \A n \in 1 .. Len(b) :
          Mark(r)[b[n]] = [sample |-> share[r][b[n]], log_prob |-> share[r][b[n]], step |-> i]
    BY <2>3 DEF Mark
  <2> HIDE DEF b, i
  <2>5. QED
    BY <2>1, <2>2, <2>4 DEF Learned, Taken, i
<1>8. \A f : Taken(f, d \o b) = Taken(f, d) \o Taken(f, b)
  <2> HIDE DEF b, d
  <2>1. QED
    BY <1>4, TakenConcat
<1> HIDE DEF b, d
<1>9. results'[r] = IF rank'[r].pass = "log_probs" THEN Taken(share[r], d \o b) ELSE <<>>
  <2>1. CASE rank[r].pass = "log_probs"
    <3>1. results[r] = Taken(share[r], d)
      BY <2>1 DEF Going, d
    <3>2. results'[r] = results[r] \o Samples(r, b)
      BY <2>1 DEF b
    <3>3. QED
      BY <1>2, <1>6, <1>8, <2>1, <3>1, <3>2, ZenonT(60)
  <2>2. CASE rank[r].pass # "log_probs"
    BY <1>2, <2>2 DEF Going
  <2>3. QED
    BY <2>1, <2>2
<1>10. trained'[r] = IF rank'[r].pass = "train" THEN Taken(Mark(r), d \o b) ELSE <<>>
  <2>1. CASE rank[r].pass = "train"
    <3>1. trained[r] = Taken(Mark(r), d)
      BY <2>1 DEF Going, d
    <3>2. trained'[r] = trained[r] \o Learned(r, b)
      BY <2>1 DEF b
    <3>3. Taken(Mark(r), d \o b) = Taken(Mark(r), d) \o Taken(Mark(r), b)
      BY <1>8, Zenon
    <3>4. rank'[r].pass = "train"
      BY <1>2, <2>1
    <3>5. trained'[r] = Taken(Mark(r), d \o b)
      BY <1>7, <3>1, <3>2, <3>3, Zenon
    <3>6. QED
      BY <3>4, <3>5
  <2>2. CASE rank[r].pass # "train"
    BY <1>2, <2>2 DEF Going
  <2>3. QED
    BY <2>1, <2>2
<1>11. rank'[r].forwards <= num_microbatches[r][i]
  <2>1. i \in 1 .. StepCount
    BY DEF Going
  <2>2. num_microbatches[r][i] \in Nat
    <3>1. PICK ss \in Seq(Seq(Nat)) : Len(ss) = num_microbatches[r][i]
      BY <2>1, PlanOf, ZenonT(60)
    <3>2. QED
      BY <3>1, LenProperties
  <2>3. QED
    BY <1>1, <1>2, <1>3, <2>2
<1>12. rank'[r].offset = Len(Joint(micro_batch_indices[r], i - 1)) + rank'[r].forwards
  <2>1. i \in 1 .. StepCount
        /\ rank[r].offset = Len(Joint(micro_batch_indices[r], i - 1)) + rank[r].forwards
    BY DEF Going
  <2>2. Len(Joint(micro_batch_indices[r], i - 1)) \in Nat
    BY <2>1, PlanOf
  <2>3. QED
    BY <1>1, <1>2, <2>1, <2>2
<1>13. log_probs'[r] = share[r] /\ i \in 1 .. StepCount
  BY DEF Going
<1>14. Going(r)'
  BY <1>2, <1>5, <1>9, <1>10, <1>11, <1>12, <1>13, PlanKept DEF Going
<1>15. QED
  BY <1>2, <1>14

LEMMA ForwardPasses == StepInv /\ DealInv /\ MicroBatchInv /\ PassInv /\ Forward => PassInv'
<1> SUFFICES ASSUME StepInv, DealInv, MicroBatchInv, PassInv, Forward PROVE PassInv'
  OBVIOUS
<1>1. /\ phase = "computing" /\ phase' = "computing" /\ \A r \in Ranks : CanForward(r)
      /\ UNCHANGED <<data, log_probs>>
  BY DEF Forward
<1> DEFINE b(r) == Batch(r, rank[r].offset + 1)
<1>2. /\ rank' = [r \in Ranks |-> [rank[r] EXCEPT !.forwards = @ + 1, !.offset = @ + 1,
                                                  !.stage = StageRestored(@)]]
      /\ results' = [r \in Ranks |->
           IF rank[r].pass = "log_probs" THEN results[r] \o Samples(r, b(r)) ELSE results[r]]
      /\ trained' = [r \in Ranks |->
           IF rank[r].pass = "train" THEN trained[r] \o Learned(r, b(r)) ELSE trained[r]]
  BY DEF Forward
<1>3. ASSUME NEW r \in Ranks
      PROVE  Going(r)' /\ rank'[r].step = rank[r].step /\ rank'[r].pass = rank[r].pass
  <2>1. Going(r)
    BY <1>1 DEF PassInv
  <2>2. /\ rank'[r] = [rank[r] EXCEPT !.forwards = @ + 1, !.offset = @ + 1, !.stage = StageRestored(@)]
        /\ results'[r] = IF rank[r].pass = "log_probs"
                         THEN results[r] \o Samples(r, b(r)) ELSE results[r]
        /\ trained'[r] = IF rank[r].pass = "train"
                         THEN trained[r] \o Learned(r, b(r)) ELSE trained[r]
    BY <1>2
  <2>3. QED
    BY <1>1, <2>1, <2>2, ForwardOfRank
<1>4. Together'
  BY <1>1, <1>3 DEF PassInv, Together
<1>5. QED
  BY <1>1, <1>2, <1>3, <1>4 DEF PassInv

LEMMA BackwardPasses == StepInv /\ PassInv /\ Backward => PassInv'
<1> SUFFICES ASSUME StepInv, PassInv, Backward PROVE PassInv'
  OBVIOUS
<1>1. /\ phase = "computing" /\ phase' = "computing"
      /\ UNCHANGED <<data, log_probs, results, trained>>
      /\ rank' = [r \in Ranks |-> [rank[r] EXCEPT !.backwards = @ + 1]]
  BY DEF Backward
<1>2. ASSUME NEW r \in Ranks
      PROVE  /\ rank'[r].pass = rank[r].pass /\ rank'[r].step = rank[r].step
             /\ rank'[r].forwards = rank[r].forwards /\ rank'[r].offset = rank[r].offset
  <2>1. rank[r] \in States /\ rank'[r] = [rank[r] EXCEPT !.backwards = @ + 1]
    BY <1>1 DEF StepInv, RankInv
  <2>2. QED
    BY <2>1 DEF States
<1>3. ASSUME NEW r \in Ranks PROVE Going(r)'
  <2>1. Going(r) /\ UNCHANGED data /\ log_probs'[r] = log_probs[r]
        /\ results'[r] = results[r] /\ trained'[r] = trained[r]
    BY <1>1 DEF PassInv
  <2>2. QED
    BY <1>2, <2>1, SameGoing
<1>4. Together'
  BY <1>1, <1>2 DEF PassInv, Together
<1>5. QED
  BY <1>1, <1>3, <1>4 DEF PassInv

\* A rank that goes on to its next step.
LEMMA NextGoing ==
  ASSUME StepInv, DealInv, MicroBatchInv, phase = "computing", UNCHANGED data,
         NEW r \in Ranks, Going(r), StepDone(r), ~LastStep(r), rank'[r] = NextStep(r),
         log_probs'[r] = log_probs[r], results'[r] = results[r], trained'[r] = trained[r]
  PROVE  Going(r)' /\ rank'[r].step = rank[r].step + 1 /\ rank'[r].pass = rank[r].pass
<1> DEFINE i == rank[r].step
<1>1. rank[r] \in States /\ i \in Nat
  BY StatesOf DEF StepInv, RankInv
<1>2. /\ rank'[r].step = i + 1 /\ rank'[r].pass = rank[r].pass
      /\ rank'[r].forwards = 0 /\ rank'[r].offset = rank[r].offset
  BY <1>1 DEF NextStep, States
<1>3. i + 1 \in 1 .. StepCount /\ rank[r].offset = Len(Joint(micro_batch_indices[r], i))
  BY StepEnds
<1> HIDE DEF i
<1>4. num_microbatches[r][i + 1] \in Nat /\ Len(Joint(micro_batch_indices[r], i)) \in Nat
  <2>1. PICK j \in 1 .. StepCount : j = i + 1 /\ j - 1 = i
    BY <1>1, <1>3
  <2>2. PICK ss \in Seq(Seq(Nat)) : Len(ss) = num_microbatches[r][j]
    BY PlanOf
  <2>3. Len(Joint(micro_batch_indices[r], j - 1)) \in Nat
    BY PlanOf
  <2>4. QED
    BY <2>1, <2>2, <2>3, LenProperties
<1>5. (i + 1) - 1 = i
  BY <1>1
<1>6. Done(r)' = Done(r)
  BY <1>2, PlanKept DEF Done
<1>7. rank'[r].forwards <= num_microbatches[r][i + 1]
      /\ rank'[r].offset = Len(Joint(micro_batch_indices[r], i)) + rank'[r].forwards
  BY <1>2, <1>3, <1>4
<1>8. Going(r)'
  BY <1>2, <1>3, <1>5, <1>6, <1>7, PlanKept DEF Going
<1>9. QED
  BY <1>2, <1>8 DEF i

LEMMA EndForwardOnlyPasses ==
  ASSUME StepInv, DealInv, MicroBatchInv, PassInv, NEW r \in Ranks, EndForwardOnly(r)
  PROVE  PassInv'
<1>1. /\ phase = "computing" /\ phase' = "computing" /\ UNCHANGED <<options, data, trained>>
      /\ rank[r].pass \in {"ref", "log_probs"} /\ StepDone(r)
  BY DEF EndForwardOnly
<1>2. /\ log_probs = [q \in Ranks |-> log_probs[q]] /\ results = [q \in Ranks |-> results[q]]
      /\ trained = [q \in Ranks |-> trained[q]] /\ Together /\ \A q \in Ranks : Going(q)
  BY <1>1 DEF PassInv
<1>3. rank = [q \in Ranks |-> rank[q]] /\ trained[r] = <<>>
  BY <1>1, <1>2 DEF StepInv, RankInv, Going
<1>4. ASSUME NEW q \in Ranks, q # r, rank'[q] = rank[q], log_probs'[q] = log_probs[q],
             results'[q] = results[q]
      PROVE  Going(q)'
  BY <1>1, <1>2, <1>4, SameGoing
<1>5. CASE ~LastStep(r)
  <2>1. rank' = [rank EXCEPT ![r] = NextStep(r)] /\ UNCHANGED <<results, log_probs>>
    BY <1>5 DEF EndForwardOnly
  <2>2. rank'[r] = NextStep(r) /\ \A q \in Ranks : q # r => rank'[q] = rank[q]
    BY <1>3, <2>1
  <2>3. Going(r)' /\ rank'[r].pass = rank[r].pass
    BY <1>1, <1>2, <1>5, <2>1, <2>2, NextGoing
  <2>4. \A q \in Ranks : Going(q)'
    BY <1>4, <2>1, <2>2, <2>3
  <2>5. Together'
    BY <1>1, <1>2, <2>2, <2>3 DEF Together
  <2>6. QED
    BY <1>1, <1>2, <2>1, <2>4, <2>5 DEF PassInv
<1>6. CASE LastStep(r)
  <2> DEFINE p == After(rank[r].pass)
  <2>1. rank' = [rank EXCEPT ![r] = Entering(p)] /\ p \in {"log_probs", "train"}
    BY <1>1, <1>6 DEF EndForwardOnly, After
  <2>2. rank'[r] = Entering(p) /\ \A q \in Ranks : q # r => rank'[q] = rank[q]
    BY <1>3, <2>1
  <2>3. /\ log_probs' = [q \in Ranks |-> log_probs'[q]] /\ results' = [q \in Ranks |-> results'[q]]
        /\ \A q \in Ranks : q # r => log_probs'[q] = log_probs[q] /\ results'[q] = results[q]
        /\ log_probs'[r] = share[r] /\ results'[r] = <<>>
    <3>1. CASE rank[r].pass = "ref"
      <4>1. UNCHANGED <<results, log_probs>>
        BY <1>6, <3>1 DEF EndForwardOnly
      <4>2. log_probs[r] = share[r] /\ results[r] = <<>>
        BY <1>2, <3>1 DEF Going
      <4>3. QED
        BY <1>2, <4>1, <4>2
    <3>2. CASE rank[r].pass = "log_probs"
      <4>1. /\ log_probs' = [log_probs EXCEPT ![r] = Reordered(r, results[r])]
            /\ results' = [results EXCEPT ![r] = <<>>]
        BY <1>6, <3>2 DEF EndForwardOnly
      <4>2. results[r] = Taken(share[r], Done(r))
        BY <1>2, <3>2 DEF Going
      <4>3. Done(r) = Origin(r)
        BY <1>1, <1>2, <1>6, StepEnds
      <4>4. Reordered(r, results[r]) = share[r]
        BY <1>1, <4>2, <4>3, ReorderedIs
      <4>5. QED
        BY <1>2, <4>1, <4>4
    <3>3. QED
      BY <1>1, <3>1, <3>2
  <2> HIDE DEF p
  <2>4. Going(r)' /\ rank'[r].step = 1
    <3>1. StepCount \in Nat \ {0} /\ num_microbatches[r][1] \in Nat
      <4>1. StepCount \in Nat \ {0} /\ 1 \in 1 .. StepCount
        BY <1>1, SharesAre
      <4>2. PICK ss \in Seq(Seq(Nat)) : Len(ss) = num_microbatches[r][1]
        BY <1>1, <4>1, PlanOf
      <4>3. QED
        BY <4>1, <4>2, LenProperties
    <3>2. trained'[r] = <<>>
      BY <1>1, <1>3
    <3>3. QED
      BY <1>1, <2>1, <2>2, <2>3, <3>1, <3>2, EnteredGoing
  <2>5. \A q \in Ranks : Going(q)'
    BY <1>4, <2>2, <2>3, <2>4
  <2>6. Together'
    <3>1. ASSUME NEW q \in Ranks, rank[q].pass = "train" PROVE rank[q].step = 1
      BY <1>1, <1>2, <3>1 DEF Together
    <3>2. QED
      BY <1>2, <2>2, <2>4, <3>1 DEF Together
  <2>7. QED
    BY <1>1, <1>2, <2>3, <2>5, <2>6 DEF PassInv
<1>7. QED
  BY <1>5, <1>6

\* After the last step every rank has been through all of its micro-batches.
Finished == \A r \in Ranks : trained[r] = Taken(Mark(r), Origin(r))

LEMMA OptimizePasses ==
  ASSUME StepInv, DealInv, MicroBatchInv, PassInv, Optimize
  PROVE  PassInv' /\ (phase' = "waiting" => Finished)
<1>1. /\ phase = "computing" /\ UNCHANGED <<options, data, results, log_probs, trained>>
      /\ \A r \in Ranks : rank[r].pass = "train" /\ StepDone(r)
  BY DEF Optimize
<1>2. /\ log_probs = [r \in Ranks |-> log_probs[r]] /\ results = [r \in Ranks |-> results[r]]
      /\ trained = [r \in Ranks |-> trained[r]] /\ Together /\ \A r \in Ranks : Going(r)
  BY <1>1 DEF PassInv
<1>3. CASE \A r \in Ranks : ~LastStep(r)
  <2>1. rank' = [r \in Ranks |-> NextStep(r)] /\ phase' = "computing"
    BY <1>1, <1>3 DEF Optimize
  <2>2. ASSUME NEW r \in Ranks
        PROVE  Going(r)' /\ rank'[r].step = rank[r].step + 1 /\ rank'[r].pass = rank[r].pass
    <3>1. rank'[r] = NextStep(r)
      BY <2>1
    <3>2. QED
      BY <1>1, <1>2, <1>3, <3>1, NextGoing
  <2>3. Together'
    BY <1>1, <1>2, <2>2 DEF Together
  <2>4. QED
    BY <1>1, <1>2, <2>1, <2>2, <2>3 DEF PassInv
<1>4. CASE ~ \A r \in Ranks : ~LastStep(r)
  <2>1. phase' = "waiting"
    BY <1>4 DEF Optimize
  <2>2. PICK q \in Ranks : LastStep(q)
    BY <1>4
  <2>3. ASSUME NEW r \in Ranks PROVE LastStep(r)
    <3>1. rank[q].step = StepCount
      BY <1>1, <1>2, <2>2, StepEnds
    <3>2. rank[r].step = rank[q].step
      BY <1>1, <1>2 DEF Together
    <3>3. QED
      BY <1>1, <1>2, <3>1, <3>2, StepEnds
  <2>4. Finished
    <3>1. SUFFICES ASSUME NEW r \in Ranks PROVE trained[r] = Taken(Mark(r), Origin(r))
      BY DEF Finished
    <3>2. Done(r) = Origin(r)
      BY <1>1, <1>2, <2>3, StepEnds
    <3>3. QED
      BY <1>1, <1>2, <3>2 DEF Going
  <2>5. results = Of(<<>>)
    <3>1. \A r \in Ranks : results[r] = <<>>
      BY <1>1, <1>2 DEF Going
    <3>2. QED
      BY <1>2, <3>1 DEF Of
  <2>6. Of(<<>>)' = Of(<<>>)
    BY DEF Of
  <2>7. QED
    BY <1>1, <1>2, <2>1, <2>4, <2>5, <2>6 DEF PassInv
<1>5. QED
  BY <1>3, <1>4

LEMMA PassesAreKept ==
  StepInv /\ DealInv /\ MicroBatchInv /\ PassInv /\ [Next]_vars => PassInv'
<1> SUFFICES ASSUME StepInv, DealInv, MicroBatchInv, PassInv, [Next]_vars PROVE PassInv'
  OBVIOUS
<1>1. Of(<<>>)' = Of(<<>>) /\ Of(<<>>) = [r \in Ranks |-> Of(<<>>)[r]]
  BY DEF Of
<1>2. CASE Receive
  <2>1. /\ phase = "waiting" /\ phase' \in {"balancing", "scheduling"}
        /\ results' = results /\ trained' = Of(<<>>)
    BY <1>2 DEF Receive
  <2>2. QED
    BY <1>1, <2>1 DEF PassInv
<1>3. ASSUME UNCHANGED <<results, trained>>, phase \notin {"waiting", "computing"},
             phase' \notin {"waiting", "computing"}
      PROVE  PassInv'
  BY <1>1, <1>3 DEF PassInv
<1>4. CASE Balance /\ phase # "computing"
  <2>1. UNCHANGED <<results, trained, phase>>
    BY <1>4 DEF Balance, work
  <2>2. phase # "waiting"
    BY <1>4, MergeNeedsTwo DEF Balance, StepInv, PlanInv, HeapInUse
  <2>3. QED
    BY <1>3, <1>4, <2>1, <2>2
<1>5. CASE Deal
  BY <1>3, <1>5 DEF Deal, work
<1>6. CASE Schedule
  BY <1>3, <1>6 DEF Schedule, work
<1>7. CASE Pack
  BY <1>3, <1>7 DEF Pack, work
<1>8. CASE Keep
  BY <1>3, <1>8 DEF Keep, work
<1>9. CASE Begin
  BY <1>9, BeginPasses
<1>10. CASE Forward
  BY <1>10, ForwardPasses
<1>11. CASE Backward
  BY <1>11, BackwardPasses
<1>12. CASE Optimize
  BY <1>12, OptimizePasses
<1>13. CASE \E r \in Ranks : EndForwardOnly(r)
  BY <1>13, EndForwardOnlyPasses
<1>14. CASE Balance /\ phase = "computing"
  BY <1>14, MergeNeedsTwo DEF Balance, StepInv, PlanInv, HeapInUse
<1>15. CASE UNCHANGED vars
  <2>1. UNCHANGED <<phase, data, rank, results, log_probs, trained>>
    BY <1>15 DEF vars, work
  <2>2. phase = "computing" => Together' /\ \A r \in Ranks : Going(r)'
    <3>1. SUFFICES ASSUME phase = "computing" PROVE Together' /\ \A r \in Ranks : Going(r)'
      OBVIOUS
    <3>2. Together /\ \A r \in Ranks : Going(r)
      BY <3>1 DEF PassInv
    <3>3. ASSUME NEW r \in Ranks PROVE Going(r)'
      BY <2>1, <3>2, SameGoing
    <3>4. QED
      BY <2>1, <3>2, <3>3 DEF Together
  <2>3. QED
    BY <1>1, <2>1, <2>2 DEF PassInv
<1>16. QED
  BY <1>2, <1>4, <1>5, <1>6, <1>7, <1>8, <1>9, <1>10, <1>11, <1>12, <1>13, <1>14, <1>15 DEF Next, Work
-----------------------------------------------------------------------------
(* Every sample once *)

LEMMA SameSize ==
  ASSUME NEW S, IsFiniteSet(S), NEW U, NEW f \in [S -> U],
         \A x, y \in S : f[x] = f[y] => x = y, \A u \in U : \E x \in S : f[x] = u
  PROVE  Cardinality(U) = Cardinality(S)
<1>1. f \in Surjection(S, U) /\ f \in Injection(S, U)
  BY DEF Surjection, Injection, IsInjective
<1>2. QED
  BY <1>1, FS_Surjection

AllOnce ==
  /\ \A x \in DOMAIN total_lengths :
       Cardinality({at \in Ranks \X DOMAIN total_lengths : TrainsAt(at[1], at[2], x)}) = 1
  /\ \A i \in Steps :
       Cardinality({t \in UNION {Trained(r) : r \in Ranks} : t.step = i}) = global_batch_size
  /\ options.balance => \A q, r \in Ranks : q # r =>
       \A t \in Trained(q) : \A u \in Trained(r) : GroupOf(t.sample) # GroupOf(u.sample)

\* What a rank has trained on after its last step.
LEMMA FinishedRank ==
  ASSUME StepInv, DealInv, MicroBatchInv, phase = "computing", Finished, NEW r \in Ranks
  PROVE  LET P == StepCount * num_local_gbs
             o == Origin(r) IN
         /\ P \in Nat /\ P <= Total /\ DOMAIN trained[r] = 1 .. P
         /\ DOMAIN o = 1 .. P /\ Distinct(o) /\ Items(o) = 1 .. P
         /\ \A n \in 1 .. P :
              /\ o[n] \in 1 .. P
              /\ trained[r][n] = Mark(r)[o[n]]
         /\ \A p \in 1 .. P :
              /\ Mark(r)[p].sample = share[r][p] /\ Mark(r)[p].log_prob = share[r][p]
              /\ Mark(r)[p].step = StepOf(p)
              /\ Mark(r)[p] = [sample |-> share[r][p], log_prob |-> share[r][p], step |-> StepOf(p)]
              /\ Mark(r)[p] \in Trained(r)
              /\ share[r][p] \in Items(share[r])
         /\ \A t \in Trained(r) : \E p \in 1 .. P : t = Mark(r)[p]
         /\ Items(share[r]) = {share[r][p] : p \in 1 .. P}
<1> DEFINE P == StepCount * num_local_gbs
           o == Origin(r)
<1>1. /\ o \in Seq(Nat) /\ Len(o) = P /\ Distinct(o) /\ Items(o) = 1 .. P
  BY OriginIs
<1>2. /\ Len(share[r]) = P /\ DOMAIN share[r] = 1 .. P /\ Total \in Nat
  BY SharesAre
<1>3. P \in Nat /\ DOMAIN o = 1 .. P
  BY <1>1, LenProperties
<1>4. P <= Total
  <2>1. dp_size * P = Total /\ dp_size \in Nat \ {0}
    BY <1>2, Sizes DEF DealInv, ShareInv, Dealt
  <2> HIDE DEF P
  <2>2. 1 * P <= dp_size * P
    BY <1>3, <2>1
  <2>3. QED
    BY <1>2, <1>3, <2>1, <2>2
<1> HIDE DEF P, o
<1>5. trained[r] = [n \in 1 .. P |-> Mark(r)[o[n]]]
  BY <1>1 DEF Finished, Taken, o
<1>6. \A n \in 1 .. P : o[n] \in 1 .. P
  BY <1>1, <1>3 DEF Items
<1>7. \A p \in 1 .. P : \E n \in 1 .. P : o[n] = p
  BY <1>1, <1>3 DEF Items
<1>8. \A p \in 1 .. P :
        Mark(r)[p] = [sample |-> share[r][p], log_prob |-> share[r][p], step |-> StepOf(p)]
  BY <1>3 DEF Mark
<1>9. \A p \in 1 .. P : Mark(r)[p] \in Trained(r)
  BY <1>5, <1>7 DEF Trained
<1>10. \A t \in Trained(r) : \E p \in 1 .. P : t = Mark(r)[p]
  BY <1>5, <1>6 DEF Trained
<1>11. Items(share[r]) = {share[r][p] : p \in 1 .. P}
  BY <1>2 DEF Items
<1>12. \A p \in 1 .. P :
         /\ Mark(r)[p].sample = share[r][p] /\ Mark(r)[p].log_prob = share[r][p]
         /\ Mark(r)[p].step = StepOf(p)
         /\ share[r][p] \in Items(share[r])
  <2>1. TAKE p \in 1 .. P
  <2>2. share[r][p] \in Items(share[r])
    BY <1>11
  <2>3. Mark(r)[p] = [sample |-> share[r][p], log_prob |-> share[r][p], step |-> StepOf(p)]
    BY <1>8
  <2>4. /\ Mark(r)[p].sample = share[r][p] /\ Mark(r)[p].log_prob = share[r][p]
        /\ Mark(r)[p].step = StepOf(p)
    BY <2>3
  <2>5. QED
    BY <2>2, <2>4
<1>13. DOMAIN trained[r] = 1 .. P /\ \A n \in 1 .. P : trained[r][n] = Mark(r)[o[n]]
  BY <1>5
<1>14. QED
  BY <1>1, <1>3, <1>4, <1>6, <1>8, <1>9, <1>10, <1>11, <1>12, <1>13 DEF P, o

\* A sample is in one share, at one place, and that in one micro-batch.
LEMMA SampleOnce ==
  ASSUME StepInv, DealInv, MicroBatchInv, phase = "computing", Finished,
         NEW x \in DOMAIN total_lengths
  PROVE  Cardinality({at \in Ranks \X DOMAIN total_lengths : TrainsAt(at[1], at[2], x)}) = 1
<1> DEFINE P == StepCount * num_local_gbs
           S == {at \in Ranks \X DOMAIN total_lengths : TrainsAt(at[1], at[2], x)}
<1>1. DOMAIN total_lengths = 1 .. Total /\ Total \in Nat
  BY LenProperties DEF StepInv, PlanInv, Total
<1>2. Dealt(share, Total)
  BY DEF DealInv, ShareInv
<1>3. PICK r \in Ranks : x \in Items(share[r])
  BY <1>1, <1>2 DEF Dealt
<1>4. \A q \in Ranks : x \in Items(share[q]) => q = r
  BY <1>2, <1>3 DEF Dealt
<1> HIDE DEF P
<1>5. ASSUME NEW q \in Ranks
      PROVE  /\ P \in Nat /\ P <= Total /\ DOMAIN trained[q] = 1 .. P
             /\ DOMAIN Origin(q) = 1 .. P /\ Distinct(Origin(q)) /\ Items(Origin(q)) = 1 .. P
             /\ \A n \in 1 .. P : /\ Origin(q)[n] \in 1 .. P
                                  /\ trained[q][n] = Mark(q)[Origin(q)[n]]
             /\ \A p \in 1 .. P : /\ Mark(q)[p].sample = share[q][p]
                                  /\ Mark(q)[p].log_prob = share[q][p]
                                  /\ share[q][p] \in Items(share[q])
             /\ Items(share[q]) = {share[q][p] : p \in 1 .. P}
  BY FinishedRank DEF P
<1>6. ASSUME NEW q \in Ranks, NEW n \in 1 .. P
      PROVE  TrainsAt(q, n, x) <=> share[q][Origin(q)[n]] = x
  <2>1. trained[q][n].sample = share[q][Origin(q)[n]] /\ trained[q][n].log_prob = share[q][Origin(q)[n]]
    BY <1>5, <1>6
  <2>2. n \in DOMAIN trained[q]
    BY <1>5, <1>6
  <2>3. QED
    BY <2>1, <2>2 DEF TrainsAt
<1>7. PICK p \in 1 .. P : share[r][p] = x
  <2>1. Items(share[r]) = {share[r][p] : p \in 1 .. P}
    BY <1>5
  <2>2. QED
    BY <1>3, <2>1
<1>8. PICK n \in 1 .. P : Origin(r)[n] = p
  <2>1. p \in Items(Origin(r)) /\ DOMAIN Origin(r) = 1 .. P
    BY <1>5, <1>7
  <2>2. QED
    BY <2>1 DEF Items
<1>9. <<r, n>> \in S
  <2>1. n \in 1 .. Total
    BY <1>1, <1>5, <1>8
  <2>2. TrainsAt(r, n, x)
    BY <1>6, <1>7, <1>8
  <2>3. QED
    BY <1>1, <2>1, <2>2
<1>10. ASSUME NEW at \in S PROVE at = <<r, n>>
  <2>1. PICK q \in Ranks, m \in 1 .. Total : at = <<q, m>> /\ TrainsAt(q, m, x)
    BY <1>1, <1>10
  <2>2. m \in 1 .. P
    BY <1>5, <2>1 DEF TrainsAt
  <2>3. share[q][Origin(q)[m]] = x /\ Origin(q)[m] \in 1 .. P
    BY <1>5, <1>6, <2>1, <2>2
  <2>4. q = r
    <3>1. x \in Items(share[q])
      BY <1>5, <2>3
    <3>2. QED
      BY <1>4, <3>1
  <2>5. Origin(r)[m] = p
    <3>1. Distinct(share[r]) /\ DOMAIN share[r] = 1 .. P
      BY SharesAre DEF P
    <3>2. QED
      BY <1>7, <2>3, <2>4, <3>1 DEF Distinct
  <2>6. m = n
    <3>1. Distinct(Origin(r)) /\ DOMAIN Origin(r) = 1 .. P
      BY <1>5
    <3>2. QED
      BY <1>8, <2>2, <2>5, <3>1 DEF Distinct
  <2>7. QED
    BY <2>1, <2>4, <2>6
<1> HIDE DEF S
<1>11. S = {<<r, n>>}
  BY <1>9, <1>10
<1>12. Cardinality(S) = 1
  BY <1>11, FS_Singleton
<1>13. QED
  BY <1>12 DEF S

\* A step trains the places of the step in every share.
LEMMA StepSize ==
  ASSUME StepInv, DealInv, MicroBatchInv, phase = "computing", Finished, NEW i \in Steps
  PROVE  Cardinality({t \in UNION {Trained(r) : r \in Ranks} : t.step = i}) = global_batch_size
<1> DEFINE P == StepCount * num_local_gbs
           w == num_local_gbs
           I == Items(StepPlaces(i))
           S == Ranks \X I
           U == {t \in UNION {Trained(r) : r \in Ranks} : t.step = i}
           f == [rp \in S |-> Mark(rp[1])[rp[2]]]
<1>1. StepCount \in Nat \ {0} /\ Steps = 1 .. StepCount
  BY SharesAre
<1>2. i \in Nat \ {0} /\ i \in 1 .. StepCount
  BY <1>1
<1>3. IsFiniteSet(I) /\ Cardinality(I) = w
  <2>1. StepPlaces(i) \in Seq(Nat) /\ Len(StepPlaces(i)) = w /\ Distinct(StepPlaces(i))
    BY <1>2, StepPlacesAre
  <2>2. QED
    BY <2>1, DistinctLength
<1>4. IsFiniteSet(Ranks) /\ Cardinality(Ranks) = dp_size
  BY Sizes, UpTo
<1>5. IsFiniteSet(S) /\ Cardinality(S) = global_batch_size
  <2>1. IsFiniteSet(S) /\ Cardinality(S) = Cardinality(Ranks) * Cardinality(I)
    <3> HIDE DEF I
    <3>1. QED
      BY <1>3, <1>4, FS_Product
  <2>2. global_batch_size = dp_size * w
    BY BatchSizes
  <2>3. QED
    BY <1>3, <1>4, <2>1, <2>2
<1> HIDE DEF P
<1>6. ASSUME NEW r \in Ranks
      PROVE  /\ \A p \in 1 .. P : /\ Mark(r)[p].sample = share[r][p]
                                  /\ Mark(r)[p].step = StepOf(p)
                                  /\ Mark(r)[p] \in Trained(r)
                                  /\ share[r][p] \in Items(share[r])
             /\ \A t \in Trained(r) : \E p \in 1 .. P : t = Mark(r)[p]
             /\ Distinct(share[r]) /\ DOMAIN share[r] = 1 .. P
  BY FinishedRank, SharesAre DEF P
<1>7. \A p \in I : p \in 1 .. P /\ StepOf(p) = i
  <2>1. TAKE p \in I
  <2>2. StepOf(p) = i
    BY <1>2, StepOfIs
  <2>3. p \in 1 .. P
    BY <1>1, <1>2, StepPlacesIn DEF P
  <2>4. QED
    BY <2>2, <2>3
<1>8. \A p \in 1 .. P : StepOf(p) = i => p \in I
  <2>1. SUFFICES ASSUME NEW p \in 1 .. P, StepOf(p) = i PROVE p \in I
    OBVIOUS
  <2>2. PICK j \in 1 .. StepCount : p \in Items(StepPlaces(j))
    BY <1>1, StepOfPlace DEF P
  <2>3. StepOf(p) = j
    BY <1>1, <2>2, StepOfIs
  <2>4. QED
    BY <2>1, <2>2, <2>3
<1> HIDE DEF I
<1>9. \A r \in Ranks : \A p \in I : f[<<r, p>>] = Mark(r)[p]
  OBVIOUS
<1>10. f \in [S -> U]
  <2>1. ASSUME NEW r \in Ranks, NEW p \in I PROVE Mark(r)[p] \in U
    BY <1>6, <1>7
  <2> HIDE DEF U
  <2>2. QED
    BY <2>1
<1>11. ASSUME NEW x \in S, NEW y \in S, f[x] = f[y] PROVE x = y
  <2>1. PICK q \in Ranks, p \in I : x = <<q, p>>
    OBVIOUS
  <2>2. PICK r \in Ranks, m \in I : y = <<r, m>>
    OBVIOUS
  <2> HIDE DEF f
  <2>3. Mark(q)[p] = Mark(r)[m] /\ p \in 1 .. P /\ m \in 1 .. P
    BY <1>7, <1>9, <1>11, <2>1, <2>2
  <2>4. share[q][p] = share[r][m]
    BY <1>6, <2>3
  <2>5. q = r
    <3>1. share[q][p] \in Items(share[q]) /\ share[r][m] \in Items(share[r])
      BY <1>6, <2>3
    <3>2. \A g, h \in Ranks : g # h => Items(share[g]) \cap Items(share[h]) = {}
      BY DEF DealInv, ShareInv, Dealt
    <3>3. QED
      BY <2>4, <3>1, <3>2
  <2>6. p = m
    BY <1>6, <2>3, <2>4, <2>5, ZenonT(60) DEF Distinct
  <2>7. QED
    BY <2>1, <2>2, <2>5, <2>6
<1>12. ASSUME NEW t \in U PROVE \E x \in S : f[x] = t
  <2>1. PICK r \in Ranks : t \in Trained(r)
    OBVIOUS
  <2>2. t.step = i
    OBVIOUS
  <2> HIDE DEF f, U
  <2>3. PICK p \in 1 .. P : t = Mark(r)[p]
    BY <1>6, <2>1
  <2>4. p \in I
    BY <1>6, <1>8, <2>2, <2>3
  <2>5. <<r, p>> \in S /\ f[<<r, p>>] = t
    BY <1>9, <2>3, <2>4
  <2>6. QED
    BY <2>5
<1> HIDE DEF f, S, U
<1>13. Cardinality(U) = Cardinality(S)
  BY <1>5, <1>10, <1>11, <1>12, SameSize
<1>14. QED
  BY <1>5, <1>13 DEF U

LEMMA TrainedIsShared ==
  ASSUME StepInv, DealInv, MicroBatchInv, phase = "computing", Finished,
         NEW r \in Ranks, NEW t \in Trained(r)
  PROVE  t.sample \in Items(share[r])
<1> DEFINE P == StepCount * num_local_gbs
<1>1. /\ \A p \in 1 .. P : Mark(r)[p].sample = share[r][p] /\ share[r][p] \in Items(share[r])
      /\ \A u \in Trained(r) : \E p \in 1 .. P : u = Mark(r)[p]
  BY FinishedRank
<1> HIDE DEF P
<1>2. PICK p \in 1 .. P : t = Mark(r)[p]
  BY <1>1
<1>3. QED
  BY <1>1, <1>2

LEMMA AllTrained ==
  ASSUME StepInv, DealInv, MicroBatchInv, phase = "computing", Finished
  PROVE  AllOnce
<1>1. ASSUME options.balance, NEW q \in Ranks, NEW r \in Ranks, q # r,
             NEW t \in Trained(q), NEW u \in Trained(r)
      PROVE  GroupOf(t.sample) # GroupOf(u.sample)
  <2>1. GroupsApart(share)
    BY <1>1 DEF DealInv, ShareInv
  <2>2. t.sample \in Items(share[q]) /\ u.sample \in Items(share[r])
    BY <1>1, TrainedIsShared
  <2>4. QED
    BY <1>1, <2>1, <2>2 DEF GroupsApart
<1>2. QED
  BY <1>1, SampleOnce, StepSize DEF AllOnce

\* In a train call every sample is trained on once, by one rank, with its own
\* log-probs, in steps of global_batch_size samples, and with balance_data the
\* samples of a group by one rank.
THEOREM EverySampleIsTrainedOnce == Spec => []EverySampleOnce
<1>1. Init => EverySampleOnce
  <2>1. SUFFICES ASSUME Init PROVE AllOnce
    BY DEF EverySampleOnce, AllOnce
  <2>2. total_lengths = <<>> /\ \A r \in Ranks : trained[r] = <<>>
    <3>1. total_lengths = <<>> /\ trained = Of(<<>>)
      BY <2>1 DEF Init
    <3>2. QED
      BY <3>1 DEF Of
  <2>3. DOMAIN total_lengths = {} /\ \A r \in Ranks : Trained(r) = {}
    BY <2>2 DEF Trained
  <2>4. Steps = {}
    <3>1. 0 \div global_batch_size = 0
      BY StepAssumption
    <3>2. QED
      BY <2>2, <3>1 DEF Steps
  <2>5. QED
    BY <2>3, <2>4 DEF AllOnce
<1>2. StepInv /\ DealInv /\ MicroBatchInv /\ PassInv /\ EverySampleOnce /\ [Next]_vars => EverySampleOnce'
  <2>1. SUFFICES ASSUME StepInv, DealInv, MicroBatchInv, PassInv, EverySampleOnce, [Next]_vars,
                        phase' = "waiting"
                 PROVE  AllOnce'
    BY DEF EverySampleOnce, AllOnce
  <2>2. ASSUME AllOnce, UNCHANGED <<options, data, trained>> PROVE AllOnce'
    <3>1. \A r : Trained(r)' = Trained(r) /\ \A n, x : TrainsAt(r, n, x)' = TrainsAt(r, n, x)
      BY <2>2 DEF Trained, TrainsAt
    <3>2. DOMAIN total_lengths' = DOMAIN total_lengths /\ Steps' = Steps /\ options' = options
      BY <2>2 DEF data, Steps
    <3>3. QED
      BY <2>2, <3>1, <3>2 DEF AllOnce
  <2>3. CASE Optimize
    <3>1. phase = "computing" /\ UNCHANGED <<options, data, trained>>
      BY <2>3 DEF Optimize
    <3>2. AllOnce
      BY <2>1, <2>3, <3>1, OptimizePasses, AllTrained
    <3>3. QED
      BY <2>2, <3>1, <3>2
  <2>4. CASE UNCHANGED vars
    <3>1. UNCHANGED <<phase, options, data, trained>>
      BY <2>4 DEF vars, work
    <3>2. AllOnce
      BY <2>1, <3>1 DEF EverySampleOnce, AllOnce
    <3>3. QED
      BY <2>2, <3>1, <3>2
  <2>5. ~Receive /\ ~Deal /\ ~Schedule /\ ~Pack /\ ~Keep /\ ~Begin /\ ~Forward /\ ~Backward
        /\ \A r \in Ranks : ~EndForwardOnly(r)
    BY <2>1 DEF Receive, Deal, Schedule, Pack, Keep, Begin, Forward, Backward, EndForwardOnly
  <2>6. ~Balance
    BY <2>1, MergeNeedsTwo DEF Balance, StepInv, PlanInv, HeapInUse
  <2>7. QED
    BY <2>1, <2>3, <2>4, <2>5, <2>6 DEF Next, Work
<1>3. Init => PassInv
  BY DEF Init, PassInv, Of
<1>4. StepInv /\ DealInv /\ MicroBatchInv /\ PassInv /\ [Next]_vars => PassInv'
  BY PassesAreKept
<1>5. QED
  BY <1>1, <1>2, <1>3, <1>4, CutsHold, PTL DEF Spec
=============================================================================
