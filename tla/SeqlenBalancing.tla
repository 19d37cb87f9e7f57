-------------------------- MODULE SeqlenBalancing --------------------------
(***************************************************************************)
(* karmarkar_karp of seqlen_balancing.py: sequences are dealt to           *)
(* k_partitions so that their token counts come out even.  A state of the  *)
(* heap is a tuple of k sets; the two most uneven states are merged, the   *)
(* lightest set of one with the heaviest of the other, until one is left.  *)
(* It splits a rollout over the data-parallel ranks (equal_size) and a     *)
(* rank's share of a step into micro-batches.                              *)
(***************************************************************************)
EXTENDS Integers, Sequences, FiniteSets, Functions

VARIABLES
  seqlen_list, k_partitions, equal_size,   \* the arguments of the call
  states_pq      \* the heap; its states hold different items, so a set will do.
                 \* Empty between calls.

arguments == <<seqlen_list, k_partitions, equal_size>>
balanceVars == <<arguments, states_pq>>
-----------------------------------------------------------------------------
\* Set: the sum and the items, here the places of the sequences in the list.
Single(list, x) == [sum |-> list[x], items |-> <<x>>]
NoItems == [sum |-> 0, items |-> <<>>]

\* Set.__lt__, read from the right.  No item is in two sets, so where the lists
\* of items are compared their first items decide.
Greater(s, t) ==
  \/ s.sum > t.sum
  \/ s.sum = t.sum /\ Len(s.items) > Len(t.items)
  \/ /\ s.sum = t.sum /\ Len(s.items) = Len(t.items) /\ s.items # <<>>
     /\ Head(s.items) > Head(t.items)

\* sorted(sets, reverse=True).
Descending(sets) == \A i, j \in DOMAIN sets : i < j => ~Greater(sets[j], sets[i])
Sortings(sets) ==
  {s \in {[i \in DOMAIN sets |-> sets[p[i]]] : p \in Bijection(DOMAIN sets, DOMAIN sets)} :
     Descending(s)}

\* State.merge before it sorts.
Joined_inOrder(a, b) ==
  [i \in DOMAIN a |-> [sum   |-> a[i].sum + b[i].sum, items |-> a[i].items \o b[i].items]]
Joined(a, b) ==
  [i \in DOMAIN a |-> LET j == Len(a) + 1 - i IN
                      [sum |-> a[i].sum + b[j].sum, items |-> a[i].items \o b[j].items]]

Spread(s) == s[1].sum - s[Len(s)].sum
Before(s, t) == Spread(s) > Spread(t) \/ (Spread(s) = Spread(t) /\ Greater(s[1], t[1]))
Foremost(s, pq) == \A t \in pq \ {s} : ~Before(t, s)

\* The heap before the loop.  With equal_size, one state per k_partitions
\* neighbours in the order of lengths; else one state per sequence.
Ascending(list) ==
  {p \in Bijection(DOMAIN list, DOMAIN list) :
     \A i, j \in DOMAIN list : i < j =>
       list[p[i]] < list[p[j]] \/ (list[p[i]] = list[p[j]] /\ p[i] < p[j])}
Chunks(list, k, order) ==
  {[i \in 1 .. k |-> Single(list, order[c * k + k + 1 - i])] : c \in 0 .. (Len(list) \div k) - 1}
Apart(list, k) ==
  {[i \in 1 .. k |-> IF i = 1 THEN Single(list, x) ELSE NoItems] : x \in DOMAIN list}
Starts(list, k, equal) ==
  IF equal THEN {Chunks(list, k, order) : order \in Ascending(list)} ELSE {Apart(list, k)}

\* One turn of the loop: two pops, a merge and a push.
Popped(pq) ==
  {ab \in pq \X pq : ab[1] # ab[2] /\ Foremost(ab[1], pq) /\ Foremost(ab[2], pq \ {ab[1]})}
MergesOf(pq) ==
  UNION {{(pq \ {ab[1], ab[2]}) \cup {c} : c \in Sortings(Joined(ab[1], ab[2]))} : ab \in Popped(pq)}

\* The assertions on the arguments.
Acceptable(list, k, equal) ==
  /\ list \in Seq(Nat) /\ k \in Nat \ {0} /\ equal \in BOOLEAN
  /\ Len(list) >= k
  /\ equal => Len(list) % k = 0

BalanceInit ==
  seqlen_list = <<>> /\ k_partitions = 0 /\ equal_size = FALSE /\ states_pq = {}
Call ==
  /\ states_pq = {}
  /\ Acceptable(seqlen_list', k_partitions', equal_size')
  /\ states_pq' \in Starts(seqlen_list', k_partitions', equal_size')
Merge == states_pq' \in MergesOf(states_pq) /\ UNCHANGED arguments
Return == Cardinality(states_pq) = 1 /\ states_pq' = {} /\ UNCHANGED arguments

BalanceNext == Call \/ Merge \/ Return
BalanceSpec == BalanceInit /\ [][BalanceNext]_balanceVars
-----------------------------------------------------------------------------
(* Properties *)

Indices(set) == {set.items[n] : n \in DOMAIN set.items}

\* A partition that is heavier than another is so by no more than one of its own
\* sequences, in the result and in every state on the way to it.
Balanced ==
  \A s \in states_pq : \A i, j \in DOMAIN s :
    s[i].sum > s[j].sum => \E x \in Indices(s[i]) : s[i].sum - seqlen_list[x] <= s[j].sum

\* The assertions on the result (karmarkar_karp, _check_and_sort_partitions): no
\* partition is empty, each sequence is in one of them, and with equal_size all
\* have the same number.
PartitionsAreValid ==
  \A s \in states_pq : states_pq = {s} =>
    /\ \A i \in DOMAIN s : s[i].items # <<>>
    /\ \A x \in DOMAIN seqlen_list : \E i \in DOMAIN s : x \in Indices(s[i])
    /\ \A i, j \in DOMAIN s : i # j => Indices(s[i]) \cap Indices(s[j]) = {}
    /\ equal_size => \A i, j \in DOMAIN s : Len(s[i].items) = Len(s[j].items)
=============================================================================
