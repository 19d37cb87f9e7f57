------------------------- MODULE DataSource_proofs -------------------------
(***************************************************************************)
(* Proofs about DataSource: its groups are one stream of prompts, epoch    *)
(* after epoch and through every restart, and none of those alive shares a *)
(* number, for every dataset, every shuffle and every draw.                *)
(***************************************************************************)
EXTENDS DataSource, SequenceTheorems, TLAPS

Prompt == 1 .. Size
Group == [place : Nat, prompt : Prompt, first : Nat]

\* The four numbers of a cursor go together.
Cursor ==
  {c \in [epoch : 0 .. MaxEpochs, offset : 0 .. Size, group : Nat, sample : Nat] :
     /\ c.group = (Size * c.epoch) + c.offset
     /\ c.sample = c.group * NSamples}

CursorInv ==
  /\ cursor \in Cursor /\ samples = Order[cursor.epoch] /\ shuffled = cursor.epoch
  /\ file = NoFile \/ \E c \in Cursor : file = {c}

\* A group carries its place in the stream, which the cursor has passed, and
\* its samples are numbered accordingly.
Numbered(s, g) ==
  \A i \in 1 .. Len(s) : s[i].place < g /\ s[i].first = s[i].place * NSamples

Places(s) == {s[i].place : i \in 1 .. Len(s)}
Apart(s) == \A i, j \in 1 .. Len(s) : s[i].place = s[j].place => i = j

LiveInv ==
  /\ out \in Seq(Group) /\ buffer \in Seq(Group)
  /\ Numbered(out, cursor.group) /\ Numbered(buffer, cursor.group)
  /\ Apart(out) /\ Apart(buffer) /\ Places(out) \cap Places(buffer) = {}

SourceInv == CursorInv /\ LiveInv
-----------------------------------------------------------------------------
(* Multiples *)

LEMMA Division ==
  ASSUME NEW n \in Nat, NEW k \in Nat \ {0}
  PROVE  n = k * (n \div k) + (n % k) /\ n % k \in 0 .. k - 1 /\ n \div k \in Nat
<1>1. n = k * (n \div k) + (n % k)
  OBVIOUS
<1>2. n % k \in 0 .. k - 1
  OBVIOUS
<1>3. n \div k \in Nat
  OBVIOUS
<1>4. QED
  BY <1>1, <1>2, <1>3

LEMMA DivisionUnique ==
  ASSUME NEW k \in Nat \ {0}, NEW p \in Int, NEW q \in Int,
         NEW r \in 0 .. k - 1, NEW s \in 0 .. k - 1, k * p + r = k * q + s
  PROVE  p = q /\ r = s
<1>1. \A d \in Int : d > 0 => k * d >= k
  OBVIOUS
<1>2. k * (p - q) = s - r /\ p - q \in Int /\ k * (q - p) = r - s /\ q - p \in Int
  OBVIOUS
<1>3. p = q
  BY <1>1, <1>2
<1>4. QED
  BY <1>3

\* Where a place of the stream is in the dataset.
LEMMA PlaceOf ==
  ASSUME NEW e \in Nat, NEW r \in 0 .. Size - 1
  PROVE  /\ (Size * e) + r \in Nat
         /\ ((Size * e) + r) \div Size = e /\ ((Size * e) + r) % Size = r
<1> DEFINE n == (Size * e) + r
           q == n \div Size
           m == n % Size
<1>1. Size \in Nat \ {0} /\ Size * e \in Nat
  BY DataAssumption
<1>2. n \in Nat
  BY <1>1
<1>3. n = (Size * q) + m /\ m \in 0 .. Size - 1 /\ q \in Nat
  BY <1>1, <1>2, Division
<1>4. (Size * q) + m = (Size * e) + r
  BY <1>3
<1> HIDE DEF n, q, m
<1>5. q = e /\ m = r
  BY <1>1, <1>3, <1>4, e \in Int, q \in Int, DivisionUnique
<1>6. QED
  BY <1>2, <1>5 DEF n, q, m

\* The samples of two different groups do not overlap.
LEMMA Blocks ==
  ASSUME NEW p \in Nat, NEW q \in Nat, p < q
  PROVE  (p * NSamples) + NSamples <= q * NSamples
<1>1. NSamples \in Nat \ {0} /\ q - p - 1 \in Nat
  BY DataAssumption
<1>2. (q - p - 1) * NSamples \in Nat
  BY <1>1
<1>3. q * NSamples = (p * NSamples) + NSamples + ((q - p - 1) * NSamples)
  BY <1>1
<1>4. p * NSamples \in Nat /\ q * NSamples \in Nat
  BY <1>1
<1>5. QED
  BY <1>1, <1>2, <1>3, <1>4
-----------------------------------------------------------------------------
(* Sequences of groups that are all apart *)

LEMMA JoinedGroups ==
  ASSUME NEW s \in Seq(Group), NEW t \in Seq(Group)
  PROVE  /\ s \o t \in Seq(Group)
         /\ Places(s \o t) \subseteq Places(s) \cup Places(t)
         /\ Apart(s) /\ Apart(t) /\ Places(s) \cap Places(t) = {} => Apart(s \o t)
         /\ \A g : Numbered(s, g) /\ Numbered(t, g) => Numbered(s \o t, g)
<1> DEFINE u == s \o t
<1>1. /\ u \in Seq(Group) /\ Len(u) = Len(s) + Len(t)
      /\ \A i \in 1 .. Len(u) : u[i] = IF i <= Len(s) THEN s[i] ELSE t[i - Len(s)]
  BY ConcatProperties
<1> HIDE DEF u
<1>2. Len(s) \in Nat /\ Len(t) \in Nat
  OBVIOUS
<1>3. \A i \in 1 .. Len(u) : \/ (i \in 1 .. Len(s) /\ u[i] = s[i])
                            \/ (i - Len(s) \in 1 .. Len(t) /\ u[i] = t[i - Len(s)])
  <2> TAKE i \in 1 .. Len(u)
  <2>1. CASE i <= Len(s)
    BY <1>1, <1>2, <2>1
  <2>2. CASE ~(i <= Len(s))
    <3>1. i - Len(s) \in 1 .. Len(t)
      BY <1>1, <1>2, <2>2
    <3>2. QED
      BY <1>1, <2>2, <3>1
  <2>3. QED
    BY <2>1, <2>2
<1>4. Places(u) \subseteq Places(s) \cup Places(t)
  BY <1>3 DEF Places
<1>5. ASSUME Apart(s), Apart(t), Places(s) \cap Places(t) = {}
      PROVE  Apart(u)
  <2> SUFFICES ASSUME NEW i \in 1 .. Len(u), NEW j \in 1 .. Len(u), u[i].place = u[j].place
               PROVE  i = j
    BY DEF Apart
  <2>1. \A k \in 1 .. Len(s) : \A l \in 1 .. Len(t) : s[k].place # t[l].place
    BY <1>5 DEF Places
  <2>2. CASE i \in 1 .. Len(s) /\ u[i] = s[i]
    <3>1. j \in 1 .. Len(s) /\ u[j] = s[j]
      BY <1>3, <2>1, <2>2
    <3>2. QED
      BY <1>5, <2>2, <3>1 DEF Apart
  <2>3. CASE i - Len(s) \in 1 .. Len(t) /\ u[i] = t[i - Len(s)]
    <3>1. j - Len(s) \in 1 .. Len(t) /\ u[j] = t[j - Len(s)]
      BY <1>3, <2>1, <2>3
    <3>2. i - Len(s) = j - Len(s)
      BY <1>5, <2>3, <3>1 DEF Apart
    <3>3. QED
      BY <3>2, <1>2
  <2>4. QED
    BY <1>3, <2>2, <2>3
<1>6. \A g : Numbered(s, g) /\ Numbered(t, g) => Numbered(u, g)
  BY <1>3 DEF Numbered
<1>7. QED
  BY <1>1, <1>4, <1>5, <1>6 DEF u

\* Some of the groups of s, each at most once.
LEMMA SomeGroups ==
  ASSUME NEW s \in Seq(Group), NEW t \in Seq(Group), NEW at,
         \A i \in 1 .. Len(t) : at[i] \in 1 .. Len(s) /\ t[i] = s[at[i]],
         \A i, j \in 1 .. Len(t) : at[i] = at[j] => i = j
  PROVE  /\ Places(t) \subseteq Places(s)
         /\ Apart(s) => Apart(t)
         /\ \A g : Numbered(s, g) => Numbered(t, g)
<1>1. Places(t) \subseteq Places(s)
  BY DEF Places
<1>2. Apart(s) => Apart(t)
  BY SMTT(30) DEF Apart
<1>3. \A g : Numbered(s, g) => Numbered(t, g)
  BY DEF Numbered
<1>4. QED
  BY <1>1, <1>2, <1>3

LEMMA PartOfGroups ==
  ASSUME NEW s \in Seq(Group), NEW m \in Nat \ {0}, NEW n \in Nat, n <= Len(s)
  PROVE  /\ SubSeq(s, m, n) \in Seq(Group)
         /\ Places(SubSeq(s, m, n)) \subseteq {s[i].place : i \in m .. n}
         /\ Apart(s) => Apart(SubSeq(s, m, n))
         /\ \A g : Numbered(s, g) => Numbered(SubSeq(s, m, n), g)
<1> DEFINE t == SubSeq(s, m, n)
           at == [i \in 1 .. Len(t) |-> m + i - 1]
<1>1. /\ t \in Seq(Group) /\ Len(t) \in Nat /\ Len(t) = IF m <= n THEN n - m + 1 ELSE 0
      /\ \A i \in 1 .. n - m + 1 : t[i] = s[m + i - 1]
  <2>1. \A i \in m .. n : s[i] \in Group
    OBVIOUS
  <2>2. QED
    BY <2>1, SubSeqProperties
<1> HIDE DEF t
<1>2. \A i \in 1 .. Len(t) : i \in Int /\ m + i - 1 \in m .. n /\ m + i - 1 \in 1 .. Len(s) /\ t[i] = s[m + i - 1]
  BY <1>1
<1>3. \A i \in 1 .. Len(t) : at[i] = m + i - 1
  OBVIOUS
<1> HIDE DEF at
<1>4. \A i, j \in 1 .. Len(t) : at[i] = at[j] => i = j
  <2>1. \A i, j \in Int : m + i - 1 = m + j - 1 => i = j
    OBVIOUS
  <2>2. QED
    BY <1>2, <1>3, <2>1
<1>5. \A i \in 1 .. Len(t) : at[i] \in 1 .. Len(s) /\ t[i] = s[at[i]]
  BY <1>2, <1>3
<1>6. (Apart(s) => Apart(t)) /\ (\A g : Numbered(s, g) => Numbered(t, g))
  BY <1>1, <1>4, <1>5, SomeGroups
<1>7. Places(t) \subseteq {s[i].place : i \in m .. n}
  BY <1>2 DEF Places
<1>8. QED
  BY <1>1, <1>6, <1>7 DEF t

\* The two parts of a queue share no place.
LEMMA Halves ==
  ASSUME NEW s \in Seq(Group), NEW k \in 0 .. Len(s), Apart(s)
  PROVE  /\ Places(SubSeq(s, 1, k)) \subseteq Places(s)
         /\ Places(SubSeq(s, k + 1, Len(s))) \subseteq Places(s)
         /\ Places(SubSeq(s, 1, k)) \cap Places(SubSeq(s, k + 1, Len(s))) = {}
<1>1. k \in Nat /\ k <= Len(s) /\ Len(s) \in Nat /\ k + 1 \in Nat \ {0} /\ 1 \in Nat \ {0}
  OBVIOUS
<1>2. /\ Places(SubSeq(s, 1, k)) \subseteq {s[i].place : i \in 1 .. k}
      /\ Places(SubSeq(s, k + 1, Len(s))) \subseteq {s[i].place : i \in k + 1 .. Len(s)}
  BY <1>1, PartOfGroups
<1>3. /\ \A i \in 1 .. k : i \in 1 .. Len(s)
      /\ \A i \in k + 1 .. Len(s) : i \in 1 .. Len(s)
      /\ \A i \in 1 .. k : \A j \in k + 1 .. Len(s) : i # j
  BY <1>1
<1>4. {s[i].place : i \in 1 .. k} \subseteq Places(s) /\ {s[i].place : i \in k + 1 .. Len(s)} \subseteq Places(s)
  BY <1>3 DEF Places
<1>5. \A i \in 1 .. k : \A j \in k + 1 .. Len(s) : s[i].place # s[j].place
  BY <1>3 DEF Apart
<1>6. {s[i].place : i \in 1 .. k} \cap {s[i].place : i \in k + 1 .. Len(s)} = {}
  BY <1>5
<1>7. QED
  BY <1>2, <1>4, <1>6
-----------------------------------------------------------------------------
(* What a draw takes from the dataset *)

LEMMA Permutation ==
  ASSUME NEW e \in 0 .. MaxEpochs
  PROVE  Order[e] \in Seq(Prompt) /\ Len(Order[e]) = Size /\ \A i \in 1 .. Size : Order[e][i] \in Prompt
<1>1. Order[e] \in [1 .. Size -> Prompt] /\ Size \in Nat
  BY DataAssumption DEF Prompt
<1>2. QED
  BY <1>1

\* A draw of n goes on in the stream: the i-th prompt is the one at its place.
LEMMA DrawnPrompts ==
  ASSUME CursorInv, NEW n \in 1 .. Size, Wraps(n) => cursor.epoch < MaxEpochs
  PROVE  /\ Prompts(n) \in Seq(Prompt) /\ Len(Prompts(n)) = n
         /\ \A i \in 1 .. n : Prompts(n)[i] = Stream!Prompt(cursor.group + i - 1)
         /\ Offset(n) \in 0 .. Size
         /\ cursor.group + n =
              (Size * (IF Wraps(n) THEN cursor.epoch + 1 ELSE cursor.epoch)) + Offset(n)
<1> DEFINE e == cursor.epoch
           o == cursor.offset
           g == cursor.group
<1>0. /\ e \in 0 .. MaxEpochs /\ o \in 0 .. Size /\ g \in Nat /\ g = (Size * e) + o
      /\ samples = Order[e] /\ shuffled = e /\ Size \in Nat \ {0} /\ MaxEpochs \in Nat
      /\ e \in Nat /\ o \in Nat /\ Size * e \in Nat /\ Size * (e + 1) = (Size * e) + Size
  <2>1. /\ e \in 0 .. MaxEpochs /\ o \in 0 .. Size /\ g \in Nat /\ g = (Size * e) + o
        /\ samples = Order[e] /\ shuffled = e
    BY DEF CursorInv, Cursor
  <2>2. Size \in Nat \ {0} /\ MaxEpochs \in Nat
    BY DataAssumption
  <2>3. e \in Nat /\ o \in Nat
    BY <2>1, <2>2
  <2> HIDE DEF e, o, g
  <2>4. Size * e \in Nat /\ Size * (e + 1) = (Size * e) + Size
    BY <2>2, <2>3
  <2>5. QED
    BY <2>1, <2>2, <2>3, <2>4
<1>1. Order[e] \in Seq(Prompt) /\ Len(Order[e]) = Size /\ \A i \in 1 .. Size : Order[e][i] \in Prompt
  BY <1>0, Permutation
<1>2. \A j \in 0 .. Size - 1 : Stream!Prompt((Size * e) + j) = Order[e][j + 1]
  BY <1>0, PlaceOf DEF Stream!Prompt
<1>3. CASE ~Wraps(n)
  <2>1. o + n <= Size
    BY <1>0, <1>3 DEF Wraps
  <2>2. Prompts(n) = SubSeq(Order[e], o + 1, o + n) /\ Offset(n) = o + n
    BY <1>0, <1>3 DEF Prompts, Offset
  <2>3. \A i \in o + 1 .. o + n : Order[e][i] \in Prompt
    BY <1>0, <1>1, <2>1
  <2>4. /\ SubSeq(Order[e], o + 1, o + n) \in Seq(Prompt) /\ Len(SubSeq(Order[e], o + 1, o + n)) = n
        /\ \A i \in 1 .. n : SubSeq(Order[e], o + 1, o + n)[i] = Order[e][o + i]
    <3> DEFINE a == o + 1
               b == o + n
    <3>1. a \in Int /\ b \in Int /\ a <= b /\ b - a + 1 = n
      BY <1>0
    <3>2. \A i \in 1 .. n : a + i - 1 = o + i
      BY <1>0
    <3>3. \A i \in a .. b : Order[e][i] \in Prompt
      BY <2>3
    <3> HIDE DEF a, b
    <3>4. /\ SubSeq(Order[e], a, b) \in Seq(Prompt) /\ Len(SubSeq(Order[e], a, b)) = n
          /\ \A i \in 1 .. n : SubSeq(Order[e], a, b)[i] = Order[e][a + i - 1]
      BY <3>1, <3>3, SubSeqProperties
    <3>5. /\ SubSeq(Order[e], a, b) \in Seq(Prompt) /\ Len(SubSeq(Order[e], a, b)) = n
          /\ \A i \in 1 .. n : SubSeq(Order[e], a, b)[i] = Order[e][o + i]
      BY <3>2, <3>4
    <3>6. QED
      BY <3>5 DEF a, b
  <2>5. \A i \in 1 .. n : Order[e][o + i] = Stream!Prompt(g + i - 1)
    <3> TAKE i \in 1 .. n
    <3>1. o + i - 1 \in 0 .. Size - 1 /\ (o + i - 1) + 1 = o + i
          /\ (Size * e) + (o + i - 1) = g + i - 1
      BY <1>0, <2>1
    <3>2. QED
      BY <1>2, <3>1
  <2>6. o + n \in 0 .. Size /\ g + n = (Size * e) + (o + n)
    BY <1>0, <2>1
  <2>7. QED
    BY <1>3, <2>2, <2>4, <2>5, <2>6
<1>4. CASE Wraps(n)
  <2> DEFINE tail == SubSeq(Order[e], o + 1, Size)
             more == n - (Size - o)
             head == SubSeq(Order[e + 1], 1, more)
  <2>1. o + n > Size /\ e + 1 \in 0 .. MaxEpochs /\ shuffled # e + 1
    BY <1>0, <1>4 DEF Wraps
  <2>2. more \in 1 .. Size /\ Size - o \in Nat
    BY <1>0, <2>1
  <2>3. tail \in Seq(Prompt) /\ Len(tail) = Size - o /\ \A i \in 1 .. Size - o : tail[i] = Order[e][o + i]
    <3>1. \A i \in o + 1 .. Size : Order[e][i] \in Prompt
      BY <1>0, <1>1
    <3>2. /\ o + 1 \in Int /\ Size \in Int
          /\ (IF o + 1 <= Size THEN Size - (o + 1) + 1 ELSE 0) = Size - o
          /\ Size - (o + 1) + 1 = Size - o
      BY <1>0
    <3>3. \A i \in 1 .. Size - o : (o + 1) + i - 1 = o + i
      BY <1>0
    <3>4. QED
      BY <3>1, <3>2, <3>3, SubSeqProperties
  <2>4. Order[e + 1] \in Seq(Prompt) /\ Len(Order[e + 1]) = Size /\ \A i \in 1 .. Size : Order[e + 1][i] \in Prompt
    BY <2>1, Permutation
  <2>5. head \in Seq(Prompt) /\ Len(head) = more /\ \A i \in 1 .. more : head[i] = Order[e + 1][i]
    <3>1. \A i \in 1 .. more : Order[e + 1][i] \in Prompt
      BY <1>0, <2>2, <2>4
    <3>2. 1 \in Int /\ more \in Int /\ 1 <= more /\ more - 1 + 1 = more
      BY <2>2
    <3>3. \A i \in 1 .. more : 1 + i - 1 = i
      OBVIOUS
    <3> HIDE DEF more
    <3>4. QED
      BY <3>1, <3>2, <3>3, SubSeqProperties
  <2>6. Prompts(n) = tail \o head /\ Offset(n) = more
    <3>1. (IF more < Size THEN more ELSE Size) = more
      BY <1>0, <2>2
    <3>2. Shuffled(e + 1) = Order[e + 1]
      BY <2>1 DEF Shuffled
    <3>3. SubSeq(samples, cursor.offset + 1, Size) = tail
      BY <1>0
    <3>4. Offset(n) = more
      BY <1>4, <2>3, <3>3 DEF Offset
    <3>5. Prompts(n) = tail \o SubSeq(Shuffled(e + 1), 1, IF more < Size THEN more ELSE Size)
      BY <1>4, <2>3, <3>3 DEF Prompts
    <3>6. QED
      BY <3>1, <3>2, <3>4, <3>5
  <2> HIDE DEF tail, head
  <2>7. /\ tail \o head \in Seq(Prompt) /\ Len(tail \o head) = n
        /\ \A i \in 1 .. n : (tail \o head)[i] = IF i <= Size - o THEN tail[i] ELSE head[i - (Size - o)]
    <3>1. Len(tail) + Len(head) = n
      BY <1>0, <2>3, <2>5
    <3>2. tail \in Seq(Prompt) /\ head \in Seq(Prompt) /\ Len(tail) = Size - o
      BY <2>3, <2>5
    <3>3. /\ tail \o head \in Seq(Prompt) /\ Len(tail \o head) = Len(tail) + Len(head)
          /\ \A i \in 1 .. Len(tail) + Len(head) :
               (tail \o head)[i] = IF i <= Len(tail) THEN tail[i] ELSE head[i - Len(tail)]
      BY <3>2, ConcatProperties, Zenon
    <3>4. QED
      BY <3>1, <3>2, <3>3, Zenon
  <2>8. \A j \in 0 .. Size - 1 : Stream!Prompt((Size * (e + 1)) + j) = Order[e + 1][j + 1]
    BY <1>0, e + 1 \in Nat, PlaceOf DEF Stream!Prompt
  <2>9. ASSUME NEW i \in 1 .. n
        PROVE  (tail \o head)[i] = Stream!Prompt(g + i - 1)
    <3>1. CASE i <= Size - o
      <4>1. o + i - 1 \in 0 .. Size - 1 /\ (o + i - 1) + 1 = o + i
            /\ (Size * e) + (o + i - 1) = g + i - 1 /\ i \in 1 .. Size - o
        BY <1>0, <3>1
      <4>2. (tail \o head)[i] = Order[e][o + i]
        BY <2>3, <2>7, <3>1, <4>1
      <4>3. QED
        BY <1>2, <4>1, <4>2
    <3>2. CASE ~(i <= Size - o)
      <4> DEFINE k == i - (Size - o)
      <4>1. k \in 1 .. more /\ k - 1 \in 0 .. Size - 1 /\ (k - 1) + 1 = k
            /\ (Size * (e + 1)) + (k - 1) = g + i - 1
        <5>1. k \in 1 .. more /\ k \in Int /\ i \in Int
          BY <1>0, <2>2, <3>2
        <5>2. k - 1 \in 0 .. Size - 1 /\ (k - 1) + 1 = k
          BY <1>0, <2>2, <5>1
        <5>3. (Size * (e + 1)) + (k - 1) = g + i - 1
          <6>1. \A x \in Nat : (x + Size) + (k - 1) = (x + o) + i - 1
            BY <1>0, <5>1
          <6>2. QED
            BY <1>0, <6>1
        <5>4. QED
          BY <5>1, <5>2, <5>3
      <4>2. (tail \o head)[i] = Order[e + 1][k]
        BY <2>5, <2>7, <3>2, <4>1
      <4>3. QED
        BY <2>8, <4>1, <4>2
    <3>3. QED
      BY <3>1, <3>2
  <2>10. more \in 0 .. Size /\ g + n = (Size * (e + 1)) + more
    BY <1>0, <2>2
  <2>11. QED
    BY <1>4, <2>6, <2>7, <2>9, <2>10
<1>5. QED
  BY <1>3, <1>4

\* The groups of a draw: the places from the cursor on.
LEMMA DrawnGroups ==
  ASSUME CursorInv, NEW n \in 1 .. Size, Wraps(n) => cursor.epoch < MaxEpochs
  PROVE  /\ Groups(Prompts(n)) \in Seq(Group) /\ Len(Groups(Prompts(n))) = n
         /\ \A i \in 1 .. n : /\ Groups(Prompts(n))[i].place = cursor.group + i - 1
                              /\ Groups(Prompts(n))[i].prompt = Stream!Prompt(cursor.group + i - 1)
         /\ Numbered(Groups(Prompts(n)), cursor.group + n)
<1> DEFINE gs == Groups(Prompts(n))
           g == cursor.group
           c == cursor.sample
<1>1. /\ Prompts(n) \in Seq(Prompt) /\ Len(Prompts(n)) = n
      /\ \A i \in 1 .. n : Prompts(n)[i] = Stream!Prompt(cursor.group + i - 1)
  BY DrawnPrompts
<1>2. g \in Nat /\ c = g * NSamples /\ NSamples \in Nat \ {0}
  BY DataAssumption DEF CursorInv, Cursor
<1>3. gs = [i \in 1 .. n |-> [place |-> g + i - 1, prompt |-> Prompts(n)[i],
                              first |-> c + ((i - 1) * NSamples)]]
  BY <1>1 DEF Groups
<1> HIDE DEF gs, g, c
<1>4. ASSUME NEW i \in 1 .. n
      PROVE  /\ g + i - 1 \in Nat /\ g + i - 1 < g + n
             /\ c + ((i - 1) * NSamples) = (g + i - 1) * NSamples
             /\ c + ((i - 1) * NSamples) \in Nat
  <2>1. i \in Nat /\ i - 1 \in Nat /\ g + i - 1 \in Nat /\ g + i - 1 < g + n
    BY <1>2
  <2>2. c + ((i - 1) * NSamples) = (g + i - 1) * NSamples
    BY <1>2, <2>1
  <2>3. (g + i - 1) * NSamples \in Nat
    BY <1>2, <2>1
  <2>4. QED
    BY <2>1, <2>2, <2>3
<1>5. \A i \in 1 .. n : /\ gs[i].place = g + i - 1 /\ gs[i].prompt = Prompts(n)[i]
                        /\ gs[i].first = c + ((i - 1) * NSamples)
  BY <1>3
<1>6. gs \in Seq(Group) /\ Len(gs) = n
  <2>1. \A i \in 1 .. n : Prompts(n)[i] \in Prompt
    BY <1>1
  <2>2. \A i \in 1 .. n : [place |-> g + i - 1, prompt |-> Prompts(n)[i],
                           first |-> c + ((i - 1) * NSamples)] \in Group
    BY <1>4, <2>1 DEF Group
  <2>3. gs \in [1 .. n -> Group] /\ n \in Nat
    BY <1>3, <2>2
  <2>4. QED
    BY <2>3
<1>7. Numbered(gs, g + n)
  BY <1>4, <1>5, <1>6 DEF Numbered
<1>8. QED
  BY <1>1, <1>5, <1>6, <1>7 DEF gs, g

LEMMA DrawMoves ==
  ASSUME CursorInv, NEW n \in 1 .. Size, Draw(n), file' = file
  PROVE  CursorInv' /\ cursor'.group = cursor.group + n
<1> DEFINE e == IF Wraps(n) THEN cursor.epoch + 1 ELSE cursor.epoch
<1>1. Wraps(n) => cursor.epoch < MaxEpochs
  BY DEF Draw
<1>2. /\ cursor.epoch \in 0 .. MaxEpochs /\ cursor.group \in Nat
      /\ cursor.sample = cursor.group * NSamples /\ samples = Order[cursor.epoch]
      /\ shuffled = cursor.epoch /\ MaxEpochs \in Nat /\ NSamples \in Nat
  BY DataAssumption DEF CursorInv, Cursor
<1>3. /\ Len(Prompts(n)) = n /\ Offset(n) \in 0 .. Size
      /\ cursor.group + n = (Size * e) + Offset(n)
  BY <1>1, DrawnPrompts
<1>4. /\ cursor' = [epoch |-> e, offset |-> Offset(n), group |-> cursor.group + n,
                    sample |-> cursor.sample + (n * NSamples)]
      /\ samples' = (IF Wraps(n) THEN Shuffled(e) ELSE samples) /\ shuffled' = e
  BY <1>2, <1>3 DEF Draw
<1>5. e \in 0 .. MaxEpochs /\ (Wraps(n) => e # cursor.epoch) /\ (~Wraps(n) => e = cursor.epoch)
  BY <1>1, <1>2
<1> HIDE DEF e
<1>6. samples' = Order[e]
  BY <1>2, <1>4, <1>5 DEF Shuffled
<1>7. n \in Nat /\ cursor.group + n \in Nat /\ cursor.sample + (n * NSamples) \in Nat
      /\ cursor.sample + (n * NSamples) = (cursor.group + n) * NSamples
  <2>1. n \in Nat
    OBVIOUS
  <2>2. cursor.group * NSamples \in Nat /\ n * NSamples \in Nat
        /\ (cursor.group + n) * NSamples = (cursor.group * NSamples) + (n * NSamples)
    BY <1>2, <2>1
  <2>3. QED
    BY <1>2, <2>1, <2>2
<1>8. cursor' \in Cursor
  BY <1>3, <1>4, <1>5, <1>7 DEF Cursor
<1>9. CursorInv'
  BY <1>4, <1>6, <1>8 DEF CursorInv
<1>10. QED
  BY <1>4, <1>9
-----------------------------------------------------------------------------
(* Every step keeps the invariant. *)

LEMMA Nothing ==
  /\ <<>> \in Seq(Group) /\ Apart(<<>>) /\ Places(<<>>) = {} /\ \A g : Numbered(<<>>, g)
  /\ Len(<<>>) = 0 /\ DOMAIN <<>> = {}
<1>1. <<>> \in Seq(Group) /\ Len(<<>>) = 0 /\ DOMAIN <<>> = {}
  OBVIOUS
<1>2. 1 .. 0 = {}
  OBVIOUS
<1>3. QED
  BY <1>1, <1>2 DEF Apart, Places, Numbered

LEMMA Placed ==
  ASSUME NEW s \in Seq(Group)
  PROVE  \A i \in 1 .. Len(s) : s[i] \in Group /\ s[i].place \in Nat
<1>1. \A i \in 1 .. Len(s) : s[i] \in Group
  OBVIOUS
<1>2. \A r \in Group : r.place \in Nat
  BY DEF Group
<1>3. QED
  BY <1>1, <1>2

LEMMA Later ==
  ASSUME NEW s \in Seq(Group), NEW g \in Nat, NEW h \in Nat, g <= h, Numbered(s, g)
  PROVE  Numbered(s, h)
<1>1. \A i \in 1 .. Len(s) : s[i].place \in Nat
  BY Placed
<1>2. QED
  BY <1>1 DEF Numbered

LEMMA SourceInit == Init => SourceInv
<1> SUFFICES ASSUME Init
             PROVE  SourceInv
  OBVIOUS
<1>1. 0 * NSamples = 0 /\ Size * 0 = 0 /\ 0 \in 0 .. MaxEpochs /\ 0 \in 0 .. Size
  BY DataAssumption
<1>2. Start \in Cursor /\ Start.epoch = 0
  BY <1>1 DEF Start, Cursor
<1>3. CursorInv
  BY <1>2 DEF Init, CursorInv
<1>4. LiveInv
  BY Nothing DEF Init, LiveInv
<1>5. QED
  BY <1>3, <1>4 DEF SourceInv

LEMMA GetSamplesKeeps ==
  ASSUME SourceInv, NEW n \in 1 .. MaxAsked, GetSamples(n)
  PROVE  /\ SourceInv' /\ cursor'.group >= cursor.group
         /\ file' = file
         /\ \/ last' = Untouched /\ cursor' = cursor
            \/ \E m \in 1 .. Size : /\ Wraps(m) => cursor.epoch < MaxEpochs
                                    /\ last' = Groups(Prompts(m)) /\ cursor'.group = cursor.group + m
<1> DEFINE k == IF n < Len(buffer) THEN n ELSE Len(buffer)
           g == cursor.group
           reused == SubSeq(buffer, 1, k)
           left == SubSeq(buffer, k + 1, Len(buffer))
<1>0. /\ out \in Seq(Group) /\ buffer \in Seq(Group) /\ g \in Nat /\ CursorInv
      /\ Numbered(out, g) /\ Numbered(buffer, g)
      /\ Apart(out) /\ Apart(buffer) /\ Places(out) \cap Places(buffer) = {}
  BY DEF SourceInv, LiveInv, CursorInv, Cursor
<1>1. /\ k \in 0 .. Len(buffer) /\ k <= n /\ n \in Nat /\ n <= Size /\ Len(buffer) \in Nat
      /\ k \in Nat /\ k + 1 \in Nat \ {0} /\ (n # k => n - k \in 1 .. Size)
  <2>1. n \in Nat /\ n <= Size /\ Size \in Nat
    BY DataAssumption
  <2>2. Len(buffer) \in Nat
    BY <1>0
  <2>3. k \in 0 .. Len(buffer) /\ k <= n /\ k \in Nat
    BY <2>1, <2>2
  <2> HIDE DEF k
  <2>4. k + 1 \in Nat \ {0} /\ (n # k => n - k \in 1 .. Size)
    BY <2>1, <2>3
  <2>5. QED
    BY <2>1, <2>2, <2>3, <2>4
<1>2. /\ buffer' = left /\ file' = file /\ out' = (out \o reused) \o last'
      /\ IF n = k THEN last' = Untouched /\ UNCHANGED <<cursor, samples, shuffled>>
                  ELSE Draw(n - k) /\ last' = Groups(Prompts(n - k))
  BY DEF GetSamples, Left, Reused
<1> HIDE DEF k, g
<1>3. /\ reused \in Seq(Group) /\ Apart(reused) /\ Numbered(reused, g)
      /\ left \in Seq(Group) /\ Apart(left) /\ Numbered(left, g)
  <2>1. 1 \in Nat \ {0} /\ k <= Len(buffer)
    BY <1>1
  <2>2. reused \in Seq(Group) /\ Apart(reused) /\ Numbered(reused, g)
    BY <1>0, <1>1, <2>1, PartOfGroups
  <2>3. left \in Seq(Group) /\ Apart(left) /\ Numbered(left, g)
    BY <1>0, <1>1, <2>1, PartOfGroups
  <2>4. QED
    BY <2>2, <2>3
<1>4. /\ Places(reused) \subseteq Places(buffer) /\ Places(left) \subseteq Places(buffer)
      /\ Places(reused) \cap Places(left) = {}
  BY <1>0, <1>1, Halves
<1> HIDE DEF reused, left
<1> DEFINE old == out \o reused
<1>5. /\ old \in Seq(Group) /\ Apart(old) /\ Numbered(old, g)
      /\ Places(old) \subseteq Places(out) \cup Places(reused)
  <2>1. Places(out) \cap Places(reused) = {}
    BY <1>0, <1>4
  <2>2. QED
    BY <1>0, <1>3, <2>1, JoinedGroups
<1>6. Places(old) \cap Places(left) = {}
  BY <1>0, <1>4, <1>5
<1> HIDE DEF old
<1>7. CASE n = k
  <2>1. last' = Untouched /\ UNCHANGED <<cursor, samples, shuffled>>
    BY <1>2, <1>7
  <2>2. out' = old
    BY <1>2, <1>5, <2>1 DEF old, Untouched
  <2>3. CursorInv'
    BY <1>0, <1>2, <2>1 DEF CursorInv
  <2>4. LiveInv'
    BY <1>2, <1>3, <1>5, <1>6, <2>1, <2>2 DEF LiveInv, g
  <2>5. QED
    BY <1>0, <1>2, <2>1, <2>3, <2>4 DEF SourceInv, g
<1>8. CASE n # k
  <2> DEFINE m == n - k
             new == Groups(Prompts(m))
  <2>1. m \in 1 .. Size /\ Draw(m) /\ last' = new /\ (Wraps(m) => cursor.epoch < MaxEpochs)
    BY <1>1, <1>2, <1>8 DEF Draw
  <2> HIDE DEF m
  <2>2. /\ new \in Seq(Group) /\ Len(new) = m /\ Numbered(new, g + m)
        /\ \A i \in 1 .. m : new[i].place = g + i - 1
    BY <1>0, <2>1, DrawnGroups DEF g
  <2>3. CursorInv' /\ cursor'.group = g + m
    BY <1>0, <1>2, <2>1, DrawMoves DEF g
  <2> HIDE DEF new
  <2>4. Apart(new)
    <3>1. \A i, j \in 1 .. m : g + i - 1 = g + j - 1 => i = j
      BY <1>0, <2>1
    <3>2. QED
      BY <2>2, <3>1 DEF Apart
  <2>5. \A i \in 1 .. m : g + i - 1 >= g
    BY <1>0, <2>1
  \* What is there already was drawn before the cursor, what is new from it on.
  <2>6. \A s \in Seq(Group) : Numbered(s, g) => Places(s) \cap Places(new) = {}
    <3> TAKE s \in Seq(Group)
    <3> HAVE Numbered(s, g)
    <3>1. \A i \in 1 .. Len(s) : s[i].place \in Nat /\ s[i].place < g
      BY Placed DEF Numbered
    <3>2. \A p \in Nat : \A j \in 1 .. m : p < g => p # g + j - 1
      BY <1>0, <2>1, <2>5
    <3>a. \A i \in 1 .. Len(s) : \A j \in 1 .. m : s[i].place # new[j].place
      BY <2>2, <3>1, <3>2
    <3>3. QED
      BY <2>2, <3>a DEF Places
  <2>7. g \in Nat /\ g + m \in Nat /\ g <= g + m
    BY <1>0, <2>1
  <2>8. Numbered(old, g + m) /\ Numbered(left, g + m)
    BY <1>3, <1>5, <2>7, Later
  <2>9. /\ out' \in Seq(Group) /\ Apart(out') /\ Numbered(out', g + m)
        /\ Places(out') \subseteq Places(old) \cup Places(new)
    <3>1. out' = old \o new
      BY <1>2, <2>1 DEF old
    <3>2. Places(old) \cap Places(new) = {}
      BY <1>5, <2>6
    <3>3. QED
      BY <1>5, <2>2, <2>4, <2>8, <3>1, <3>2, JoinedGroups
  <2>10. Places(out') \cap Places(buffer') = {}
    <3>1. Places(left) \cap Places(new) = {}
      BY <1>3, <2>6
    <3>2. QED
      BY <1>2, <1>6, <2>9, <3>1
  <2>11. LiveInv'
    BY <1>2, <1>3, <2>3, <2>8, <2>9, <2>10 DEF LiveInv
  <2>12. QED
    BY <1>2, <2>1, <2>3, <2>7, <2>11 DEF SourceInv, g, new
<1>9. QED
  BY <1>7, <1>8

LEMMA AddSamplesKeeps ==
  ASSUME SourceInv, AddSamples
  PROVE  SourceInv'
<1>1. PICK n \in 0 .. Len(out) : \E pick \in Injection(1 .. n, 1 .. Len(out)) :
        buffer' = buffer \o Unused(pick)
  BY DEF AddSamples
<1>2. PICK pick \in Injection(1 .. n, 1 .. Len(out)) : buffer' = buffer \o Unused(pick)
  BY <1>1
<1>3. out' = <<>> /\ UNCHANGED <<cursor, samples, shuffled, file>>
  BY DEF AddSamples
<1>4. /\ out \in Seq(Group) /\ buffer \in Seq(Group)
      /\ Numbered(out, cursor.group) /\ Numbered(buffer, cursor.group)
      /\ Apart(out) /\ Apart(buffer) /\ Places(out) \cap Places(buffer) = {}
  BY DEF SourceInv, LiveInv
<1> DEFINE t == Unused(pick)
<1>5. /\ pick \in [1 .. n -> 1 .. Len(out)] /\ n \in Nat
      /\ \A i, j \in 1 .. n : pick[i] = pick[j] => i = j
  BY <1>4 DEF Injection, IsInjective
<1>6. t = [i \in 1 .. n |-> out[pick[i]]]
  BY <1>5 DEF Unused
<1> HIDE DEF t
<1>7. t \in Seq(Group) /\ Len(t) = n /\ \A i \in 1 .. n : t[i] = out[pick[i]]
  <2>1. \A i \in 1 .. n : out[pick[i]] \in Group
    BY <1>4, <1>5
  <2>2. t \in [1 .. n -> Group]
    BY <1>6, <2>1
  <2>3. QED
    BY <1>5, <1>6, <2>2
<1>8. Places(t) \subseteq Places(out) /\ Apart(t) /\ Numbered(t, cursor.group)
  <2>1. /\ \A i \in 1 .. Len(t) : pick[i] \in 1 .. Len(out) /\ t[i] = out[pick[i]]
        /\ \A i, j \in 1 .. Len(t) : pick[i] = pick[j] => i = j
    BY <1>5, <1>7
  <2>2. out \in Seq(Group) /\ t \in Seq(Group)
    BY <1>4, <1>7
  <2>3. /\ Places(t) \subseteq Places(out) /\ (Apart(out) => Apart(t))
        /\ \A g : Numbered(out, g) => Numbered(t, g)
    BY <2>1, <2>2, SomeGroups
  <2>4. QED
    BY <1>4, <2>3
<1>9. Places(buffer) \cap Places(t) = {}
  BY <1>4, <1>8
<1>10. buffer' \in Seq(Group) /\ Apart(buffer') /\ Numbered(buffer', cursor.group)
  BY <1>2, <1>4, <1>7, <1>8, <1>9, JoinedGroups DEF t
<1>11. LiveInv'
  BY <1>3, <1>10, Nothing DEF LiveInv
<1>12. CursorInv'
  BY <1>3 DEF SourceInv, CursorInv
<1>13. QED
  BY <1>11, <1>12 DEF SourceInv

LEMMA SaveKeeps ==
  ASSUME SourceInv, Save
  PROVE  SourceInv'
<1>1. file' = {cursor} /\ UNCHANGED <<cursor, samples, shuffled, buffer, out>>
  BY DEF Save
<1>2. CursorInv'
  BY <1>1 DEF SourceInv, CursorInv
<1>3. LiveInv'
  BY <1>1 DEF SourceInv, LiveInv
<1>4. QED
  BY <1>2, <1>3 DEF SourceInv

\* The one state a checkpoint holds.
LEMMA OnlyState == \A c : (CHOOSE state \in {c} : TRUE) = c
OBVIOUS

LEMMA RestartKeeps ==
  ASSUME SourceInv, Restart
  PROVE  SourceInv'
<1>1. Start \in Cursor
  <2>1. 0 * NSamples = 0 /\ Size * 0 = 0 /\ 0 \in 0 .. MaxEpochs /\ 0 \in 0 .. Size
    BY DataAssumption
  <2>2. QED
    BY <2>1 DEF Start, Cursor
<1>2. /\ cursor' = (IF file = NoFile THEN Start ELSE CHOOSE state \in file : TRUE)
      /\ samples' = Order[cursor'.epoch] /\ shuffled' = cursor'.epoch
      /\ buffer' = <<>> /\ out' = <<>> /\ file' = file
  BY DEF Restart, Restored, Untouched
<1>3. cursor' \in Cursor
  BY <1>1, <1>2, OnlyState DEF SourceInv, CursorInv
<1>4. CursorInv'
  BY <1>2, <1>3 DEF SourceInv, CursorInv
<1>5. LiveInv'
  BY <1>2, Nothing DEF LiveInv
<1>6. QED
  BY <1>4, <1>5 DEF SourceInv

LEMMA SourceStutter ==
  ASSUME SourceInv, UNCHANGED vars
  PROVE  SourceInv'
BY DEF SourceInv, CursorInv, LiveInv, vars

\* The numbers of the cursor agree, and every group that is still somewhere lies
\* behind it at a place of its own.
THEOREM SourceIsKept == Spec => []SourceInv
<1>1. Init => SourceInv
  BY SourceInit
<1>2. SourceInv /\ [Next]_vars => SourceInv'
  BY GetSamplesKeeps, AddSamplesKeeps, SaveKeeps, RestartKeeps, SourceStutter DEF Next
<1>3. QED
  BY <1>1, <1>2, PTL DEF Spec

\* No two groups of a job share a number, nor do any two of their samples,
\* however they are recycled, in whatever order.
THEOREM UniqueNumbers == Spec => []NumbersAreUnique
<1>1. SourceInv => NumbersAreUnique
  <2> SUFFICES ASSUME SourceInv, NEW i \in 1 .. Len(Live), NEW j \in 1 .. Len(Live), i # j
               PROVE  /\ Live[i].place # Live[j].place
                      /\ \/ Live[i].first + NSamples <= Live[j].first
                         \/ Live[j].first + NSamples <= Live[i].first
    BY DEF NumbersAreUnique
  <2>1. Live \in Seq(Group) /\ Apart(Live) /\ Numbered(Live, cursor.group)
    BY JoinedGroups DEF SourceInv, LiveInv, Live
  <2>2. /\ Live[i].place \in Nat /\ Live[j].place \in Nat
        /\ Live[i].first = Live[i].place * NSamples /\ Live[j].first = Live[j].place * NSamples
    BY <2>1, Placed DEF Numbered
  <2>3. Live[i].place # Live[j].place
    BY <2>1 DEF Apart
  <2>4. Live[i].place < Live[j].place \/ Live[j].place < Live[i].place
    BY <2>2, <2>3
  <2>5. QED
    BY <2>2, <2>3, <2>4, Blocks
<1>2. QED
  BY <1>1, SourceIsKept, PTL
-----------------------------------------------------------------------------
(* The stream *)


Kept == IF file = NoFile THEN 0 ELSE (CHOOSE state \in file : TRUE).group

LEMMA EmptyHand ==
  /\ \A f : f = <<>> => [i \in DOMAIN f |-> [place |-> f[i].place, prompt |-> f[i].prompt]] = <<>>
  /\ Stream!Stretch(0) = <<>>
<1>1. DOMAIN <<>> = {} /\ 1 .. 0 = {}
  OBVIOUS
<1>2. \A f : f = [i \in {} |-> f[i]] => f = <<>>
  OBVIOUS
<1>3. ASSUME NEW f, f = <<>>
      PROVE  [i \in DOMAIN f |-> [place |-> f[i].place, prompt |-> f[i].prompt]] = <<>>
  BY <1>1, <1>2, <1>3
<1>4. Stream!Stretch(0) = [i \in {} |-> [place |-> cursor.group + i - 1,
                                         prompt |-> Stream!Prompt(cursor.group + i - 1)]]
  BY <1>1 DEF Stream!Stretch
<1>5. Stream!Stretch(0) = <<>>
  BY <1>2, <1>4
<1>6. QED
  BY <1>3, <1>5

\* The groups of a draw are the next ones of the stream, and what is drawn from
\* the buffer only is none.
LEMMA Handing ==
  ASSUME SourceInv, NEW n \in 1 .. MaxAsked, GetSamples(n)
  PROVE  /\ cursor'.group >= cursor.group
         /\ Handed' = Stream!Stretch(cursor'.group - cursor.group)
<1>1. cursor.group \in Nat /\ CursorInv
  BY DEF SourceInv, CursorInv, Cursor
<1>2. CASE last' = Untouched /\ cursor' = cursor
  <2>1. Handed' = <<>>
    BY <1>2, EmptyHand DEF Handed, Untouched
  <2>2. cursor'.group - cursor.group = 0
    BY <1>1, <1>2
  <2>3. QED
    BY <1>1, <1>2, <2>1, <2>2, EmptyHand
<1>3. ASSUME NEW m \in 1 .. Size, Wraps(m) => cursor.epoch < MaxEpochs,
             last' = Groups(Prompts(m)), cursor'.group = cursor.group + m
      PROVE  Handed' = Stream!Stretch(m) /\ cursor'.group - cursor.group = m
  <2> DEFINE gs == Groups(Prompts(m))
  <2>1. /\ gs \in Seq(Group) /\ Len(gs) = m
        /\ \A i \in 1 .. m : /\ gs[i].place = cursor.group + i - 1
                             /\ gs[i].prompt = Stream!Prompt(cursor.group + i - 1)
    BY <1>1, <1>3, DrawnGroups
  <2> HIDE DEF gs
  <2>2. DOMAIN gs = 1 .. m
    BY <2>1
  <2>3. Handed' = [i \in DOMAIN last' |-> [place |-> last'[i].place, prompt |-> last'[i].prompt]]
    BY DEF Handed
  <2>4. Handed' = [i \in 1 .. m |-> [place |-> gs[i].place, prompt |-> gs[i].prompt]]
    BY <1>3, <2>2, <2>3 DEF gs
  <2>5. Handed' = [i \in 1 .. m |-> [place |-> cursor.group + i - 1,
                                     prompt |-> Stream!Prompt(cursor.group + i - 1)]]
    BY <2>1, <2>4
  <2>6. cursor'.group - cursor.group = m
    BY <1>1, <1>3
  <2>7. QED
    BY <2>5, <2>6 DEF Stream!Stretch
<1>4. QED
  BY <1>2, <1>3, GetSamplesKeeps

LEMMA KeptIs ==
  /\ file = NoFile => Kept = 0
  /\ \A c : file = {c} => Kept = c.group
BY OnlyState DEF Kept, NoFile

LEMMA StreamInit == Init => Stream!Init
<1> SUFFICES ASSUME Init
             PROVE  Stream!Init
  OBVIOUS
<1>1. cursor.group = 0 /\ file = NoFile /\ last = <<>>
  BY DEF Init, Start, Untouched
<1>2. Handed = <<>>
  BY <1>1, EmptyHand DEF Handed
<1>3. Kept = 0
  BY <1>1, KeptIs
<1>4. QED
  BY <1>1, <1>2, <1>3 DEF Stream!Init, Kept

LEMMA StreamStep ==
  ASSUME SourceInv, [Next]_vars
  PROVE  Stream!Next \/ UNCHANGED <<cursor.group, Kept, Handed>>
<1>1. CASE \E n \in 1 .. MaxAsked : GetSamples(n)
  <2>1. PICK n \in 1 .. MaxAsked : GetSamples(n)
    BY <1>1
  <2>2. cursor'.group >= cursor.group /\ Handed' = Stream!Stretch(cursor'.group - cursor.group)
    BY <2>1, Handing
  <2>3. Kept' = Kept
    BY <2>1 DEF GetSamples, Kept
  <2>4. Stream!Hand
    BY <2>2, <2>3 DEF Stream!Hand, Kept
  <2>5. QED
    BY <2>4 DEF Stream!Next
<1>2. CASE AddSamples
  <2>1. UNCHANGED <<cursor, last, file>>
    BY <1>2 DEF AddSamples
  <2>2. QED
    BY <2>1 DEF Kept, Handed
<1>3. CASE Save
  <2>1. file' = {cursor} /\ UNCHANGED <<cursor, last>>
    BY <1>3 DEF Save
  <2>2. Kept' = cursor.group
    BY <2>1, OnlyState DEF Kept, NoFile
  <2>3. Handed' = Handed
    BY <2>1 DEF Handed
  <2>4. Stream!Keep
    BY <2>1, <2>2, <2>3 DEF Stream!Keep, Kept
  <2>5. QED
    BY <2>4 DEF Stream!Next
<1>4. CASE Restart
  <2>1. /\ cursor' = (IF file = NoFile THEN Start ELSE CHOOSE state \in file : TRUE)
        /\ last' = <<>> /\ file' = file
    BY <1>4 DEF Restart, Restored, Untouched
  <2>2. cursor'.group = Kept
    BY <2>1 DEF Kept, Start
  <2>3. Kept' = Kept
    BY <2>1 DEF Kept
  <2>4. Handed' = <<>>
    BY <2>1, EmptyHand DEF Handed
  <2>5. Stream!Resume
    BY <2>2, <2>3, <2>4 DEF Stream!Resume, Kept
  <2>6. QED
    BY <2>5 DEF Stream!Next
<1>5. CASE UNCHANGED vars
  BY <1>5 DEF vars, Kept, Handed
<1>6. QED
  BY <1>1, <1>2, <1>3, <1>4, <1>5 DEF Next

\* The data source is the promised stream: every draw gives the next prompts in
\* the order of their epoch, and a restart goes on where the checkpoint was.
THEOREM IsPromptStream == Spec => StreamSpec
<1>1. Init => Stream!Init
  BY StreamInit
<1>2. SourceInv /\ [Next]_vars => [Stream!Next]_<<cursor.group, Kept, Handed>>
  BY StreamStep
<1>3. QED
  BY <1>1, <1>2, SourceIsKept, PTL DEF Spec, StreamSpec, Stream!Spec, Kept
=============================================================================
