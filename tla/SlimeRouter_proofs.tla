------------------------- MODULE SlimeRouter_proofs -------------------------
(***************************************************************************)
(* Proofs about SlimeRouter and its radix tree: what a count of the router *)
(* counts, that a request goes to the server with the fewest, that no post *)
(* has two requests, and that what the trie gives for a text spells it, for *)
(* any posts, servers, failures, vocabulary and tokens generated.          *)
(*                                                                         *)
(* FlattenSeq and the tokenizer's fold are defined by recursive functions; *)
(* what is needed of them is shown here by counting up to a length.        *)
(***************************************************************************)
EXTENDS SlimeRouter, SequenceTheorems, FiniteSetTheorems, NaturalsInduction,
        WellFoundedInduction, TLAPS

(* Counting *)

LEMMA LeastOf ==
  ASSUME NEW S \in SUBSET Nat, S # {}
  PROVE  \E n \in S : \A m \in S : n <= m
<1>1. PICK n \in S : \A m \in S : ~(<<m, n>> \in OpToRel(<, Nat))
  BY NatLessThanWellFounded, WFMin
<1>2. \A m \in S : ~(m < n)
  BY <1>1 DEF OpToRel
<1>3. QED
  BY <1>2

LEMMA Counting ==
  ASSUME NEW S \in SUBSET Nat, 0 \in S, \A n \in S : n + 1 \in S
  PROVE  \A n \in Nat : n \in S
<1> SUFFICES ASSUME Nat \ S # {} PROVE FALSE
  OBVIOUS
<1>1. PICK n \in Nat \ S : \A m \in Nat \ S : n <= m
  BY LeastOf
<1>2. n - 1 \in Nat /\ n - 1 \notin Nat \ S
  BY <1>1
<1>3. QED
  BY <1>2

\* Counting up to a bound.
LEMMA CountingTo ==
  ASSUME NEW N \in Nat, NEW S, 0 \in S,
         \A n \in 0 .. N - 1 : n \in S => n + 1 \in S
  PROVE  \A n \in 0 .. N : n \in S
<1> DEFINE T == {n \in Nat : n <= N => n \in S}
<1>1. T \in SUBSET Nat /\ 0 \in T
  OBVIOUS
<1>2. \A n \in T : n + 1 \in T
  OBVIOUS
<1>3. \A n \in Nat : n \in T
  BY <1>1, <1>2, Counting
<1>4. QED
  BY <1>3
-----------------------------------------------------------------------------
(* Sequences, and FlattenSeq *)

\* A function on 1 .. n is a sequence.
LEMMA FunctionSeq ==
  ASSUME NEW S, NEW n \in Nat, NEW f \in [1 .. n -> S]
  PROVE  f \in Seq(S)
BY SeqDef

FlatTo(ss, n, g) == g = [i \in 1 .. n |-> IF i = 1 THEN ss[i] ELSE g[i-1] \o ss[i]]

LEMMA FlatExists ==
  ASSUME NEW ss
  PROVE  \A n \in Nat : \E g : FlatTo(ss, n, g)
<1> DEFINE S == {n \in Nat : \E g : FlatTo(ss, n, g)}
<1>1. 0 \in S
  <2>1. FlatTo(ss, 0, [i \in 1 .. 0 |-> i])
    BY DEF FlatTo
  <2>2. QED
    BY <2>1
<1>2. ASSUME NEW n \in S PROVE n + 1 \in S
  <2>1. PICK g : FlatTo(ss, n, g)
    OBVIOUS
  <2> DEFINE h == [i \in 1 .. n + 1 |-> IF i <= n THEN g[i] ELSE IF i = 1 THEN ss[i] ELSE g[n] \o ss[i]]
  <2>2. \A i \in 1 .. n + 1 : h[i] = IF i = 1 THEN ss[i] ELSE h[i-1] \o ss[i]
    <3>0. \A i \in 1 .. n : h[i] = g[i]
      OBVIOUS
    <3>a. \A i \in 1 .. n : g[i] = IF i = 1 THEN ss[i] ELSE g[i-1] \o ss[i]
      <4> HIDE DEF h
      <4>2. QED
        BY <2>1, Zenon DEF FlatTo
    <3>1. \A i \in 1 .. n : h[i] = g[i] /\ g[i] = IF i = 1 THEN ss[i] ELSE g[i-1] \o ss[i]
      BY <3>0, <3>a
    <3>2. h[n + 1] = IF n + 1 = 1 THEN ss[n + 1] ELSE g[n] \o ss[n + 1]
      OBVIOUS
    <3>3. \A i \in 2 .. n + 1 : i - 1 \in 1 .. n /\ h[i - 1] = g[i - 1]
      OBVIOUS
    <3>4. \A i \in 1 .. n + 1 : i \in 1 .. n \/ i = n + 1
      OBVIOUS
    <3>5. \A i \in 1 .. n + 1 : i = 1 \/ i \in 2 .. n + 1
      OBVIOUS
    <3> HIDE DEF h
    <3>6. ASSUME n = 0 PROVE h[n + 1] = ss[n + 1]
      BY <3>2, <3>6
    <3>7. ASSUME n # 0 PROVE n + 1 \in 2 .. n + 1 /\ (n + 1) - 1 = n
      BY <3>7
    <3>8. h[n + 1] = IF n + 1 = 1 THEN ss[n + 1] ELSE h[(n + 1) - 1] \o ss[n + 1]
      BY <3>2, <3>3, <3>6, <3>7
    <3>9. QED
      BY <3>1, <3>3, <3>4, <3>5, <3>8
  <2>3. h = [i \in 1 .. n + 1 |-> h[i]]
    OBVIOUS
  <2>4. FlatTo(ss, n + 1, h)
    BY <2>2 DEF FlatTo
  <2>5. QED
    BY <2>4
<1>3. QED
  <2> HIDE DEF S
  <2>1. S \in SUBSET Nat BY DEF S
  <2>2. \A n \in Nat : n \in S
    BY <1>1, <1>2, <2>1, Counting
  <2>3. QED BY <2>2 DEF S

LEMMA FlatIs ==
  ASSUME NEW ss, Len(ss) \in Nat \ {0}
  PROVE  \E g : FlatTo(ss, Len(ss), g) /\ FlattenSeq(ss) = g[Len(ss)]
<1> DEFINE f == CHOOSE g : g = [i \in 1 .. Len(ss) |-> IF i = 1 THEN ss[i] ELSE g[i-1] \o ss[i]]
<1>1. FlatTo(ss, Len(ss), f)
  BY FlatExists DEF FlatTo
<1>2. FlattenSeq(ss) = f[Len(ss)]
  BY DEF FlattenSeq
<1>3. QED
  BY <1>1, <1>2

LEMMA FlatEmpty == FlattenSeq(<<>>) = <<>>
BY DEF FlattenSeq

LEMMA FlatAppend ==
  ASSUME NEW X, NEW ss \in Seq(Seq(X)), NEW x \in Seq(X)
  PROVE  FlattenSeq(Append(ss, x)) = FlattenSeq(ss) \o x
<1>0. PICK longer : longer = Append(ss, x)
  OBVIOUS
<1>1. /\ Len(ss) \in Nat /\ Len(longer) = Len(ss) + 1
      /\ longer[Len(longer)] = x /\ \A i \in 1 .. Len(ss) : longer[i] = ss[i]
  BY <1>0, AppendProperties, LenProperties
<1>2. PICK h : FlatTo(longer, Len(longer), h) /\ FlattenSeq(longer) = h[Len(longer)]
  BY <1>1, FlatIs
<1>3. \A i \in 1 .. Len(longer) : h[i] = IF i = 1 THEN longer[i] ELSE h[i-1] \o longer[i]
  BY <1>2, Zenon DEF FlatTo
<1>4. CASE ss = <<>>
  <2>1. h[1] = x /\ Len(longer) = 1
    BY <1>1, <1>3, <1>4
  <2>2. FlattenSeq(ss) \o x = x
    BY <1>4, FlatEmpty, ConcatEmptySeq
  <2>3. QED
    BY <1>2, <2>1, <2>2, <1>0
<1>5. CASE ss # <<>>
  <2>1. Len(ss) \in Nat \ {0}
    BY <1>5, EmptySeq
  <2>2. PICK g : FlatTo(ss, Len(ss), g) /\ FlattenSeq(ss) = g[Len(ss)]
    BY <2>1, FlatIs
  <2>a. \A i \in 1 .. Len(ss) : g[i] = IF i = 1 THEN ss[i] ELSE g[i-1] \o ss[i]
    BY <2>2, Zenon DEF FlatTo
  <2>3. \A i \in 1 .. Len(ss) : g[i] = h[i]
    <3> DEFINE S == {i \in Nat : i \in 1 .. Len(ss) => g[i] = h[i]}
    <3>1. 0 \in S
      OBVIOUS
    <3>2. \A i \in S : i + 1 \in S
      <4>1. SUFFICES ASSUME NEW i \in S, i + 1 \in 1 .. Len(ss)
                     PROVE  g[i + 1] = h[i + 1]
        <5>1. \A i \in S : i + 1 \in Nat
          OBVIOUS
        <5>2. QED
          BY <5>1
      <4>a. i \in Nat
        BY <4>1
      <4>2. /\ i + 1 \in 1 .. Len(longer) /\ longer[i + 1] = ss[i + 1]
            /\ (i + 1) - 1 = i
        BY <1>1, <4>1, <4>a
      <4>3. CASE i = 0
        BY <1>3, <2>a, <4>1, <4>2, <4>3
      <4>4. CASE i # 0
        <5>1. g[i] = h[i] /\ i + 1 # 1
          BY <1>1, <4>1, <4>a, <4>4
        <5>2. g[i + 1] = g[i] \o ss[i + 1]
          BY <2>a, <4>1, <4>2, <5>1
        <5>3. h[i + 1] = h[i] \o longer[i + 1]
          BY <1>3, <4>2, <5>1
        <5>4. QED
          BY <4>2, <5>1, <5>2, <5>3
      <4>5. QED
        BY <4>3, <4>4
    <3>3. \A i \in Nat : i \in S
      <4> HIDE DEF S
      <4>1. S \in SUBSET Nat
        BY DEF S
      <4>2. QED
        BY <3>1, <3>2, <4>1, Counting
    <3>4. QED
      BY <1>1, <3>3
  <2>4. h[Len(longer)] = h[Len(ss)] \o x
    <3>1. Len(longer) \in 1 .. Len(longer) /\ Len(longer) # 1 /\ Len(longer) - 1 = Len(ss)
      BY <1>1, <2>1
    <3>2. QED
      BY <1>1, <1>3, <3>1
  <2>5. g[Len(ss)] = h[Len(ss)]
    BY <2>1, <2>3
  <2>6. QED
    BY <1>2, <2>2, <2>4, <2>5, <1>0
<1>6. QED
  BY <1>4, <1>5

LEMMA FlatType ==
  ASSUME NEW X, NEW ss \in Seq(Seq(X))
  PROVE  FlattenSeq(ss) \in Seq(X)
<1> DEFINE S == {n \in Nat : \A s \in Seq(Seq(X)) : Len(s) = n => FlattenSeq(s) \in Seq(X)}
<1>1. 0 \in S
  <2>1. \A s \in Seq(Seq(X)) : Len(s) = 0 => s = <<>>
    BY EmptySeq
  <2>2. QED
    BY <2>1, FlatEmpty, EmptySeq
<1>2. \A n \in S : n + 1 \in S
  <2>0. SUFFICES ASSUME NEW n \in S, NEW s \in Seq(Seq(X)), Len(s) = n + 1
                 PROVE  FlattenSeq(s) \in Seq(X)
    <3>1. \A n \in S : n + 1 \in Nat
      OBVIOUS
    <3>2. QED
      BY <3>1
  <2>1. n \in Nat /\ s # <<>>
    <3>1. n \in Nat /\ Len(s) # 0
      BY <2>0
    <3>2. QED
      BY <3>1, EmptySeq
  <2>2. PICK t \in Seq(Seq(X)), x \in Seq(X) : s = Append(t, x)
    BY <2>1, SequenceEmptyOrAppend
  <2>3. Len(t) = n
    <3>1. Len(s) = Len(t) + 1 /\ Len(t) \in Nat
      BY <2>2, AppendProperties, LenProperties
    <3>2. QED
      BY <2>0, <2>1, <3>1
  <2>4. FlattenSeq(t) \in Seq(X)
    BY <2>3
  <2>5. QED
    BY <2>2, <2>4, FlatAppend, ConcatProperties
<1>3. \A n \in Nat : n \in S
  BY <1>1, <1>2, Counting
<1>4. QED
  BY <1>3, LenProperties

LEMMA FlatConcat ==
  ASSUME NEW X, NEW ss \in Seq(Seq(X)), NEW tt \in Seq(Seq(X))
  PROVE  FlattenSeq(ss \o tt) = FlattenSeq(ss) \o FlattenSeq(tt)
<1> DEFINE S == {n \in Nat : \A t \in Seq(Seq(X)) : Len(t) = n =>
                               FlattenSeq(ss \o t) = FlattenSeq(ss) \o FlattenSeq(t)}
<1>0. FlattenSeq(ss) \in Seq(X)
  BY FlatType
<1>1. 0 \in S
  <2>1. \A s \in Seq(Seq(X)) : Len(s) = 0 => s = <<>>
    BY EmptySeq
  <2>2. ss \o <<>> = ss /\ FlattenSeq(ss) \o <<>> = FlattenSeq(ss)
    BY <1>0, ConcatEmptySeq
  <2>3. QED
    BY <2>1, <2>2, FlatEmpty
<1>2. \A n \in S : n + 1 \in S
  <2>0. SUFFICES ASSUME NEW n \in S, NEW s \in Seq(Seq(X)), Len(s) = n + 1
                 PROVE  FlattenSeq(ss \o s) = FlattenSeq(ss) \o FlattenSeq(s)
    <3>1. \A n \in S : n + 1 \in Nat
      OBVIOUS
    <3>2. QED
      BY <3>1
  <2>1. n \in Nat /\ s # <<>>
    <3>1. n \in Nat /\ Len(s) # 0
      BY <2>0
    <3>2. QED
      BY <3>1, EmptySeq
  <2>2. PICK t \in Seq(Seq(X)), x \in Seq(X) : s = Append(t, x)
    BY <2>1, SequenceEmptyOrAppend
  <2>3. Len(t) = n
    <3>1. Len(s) = Len(t) + 1 /\ Len(t) \in Nat
      BY <2>2, AppendProperties, LenProperties
    <3>2. QED
      BY <2>0, <2>1, <3>1
  <2>4. FlattenSeq(ss \o t) = FlattenSeq(ss) \o FlattenSeq(t) /\ FlattenSeq(t) \in Seq(X)
    BY <2>3, FlatType
  <2>5. ss \o s = Append(ss \o t, x) /\ ss \o t \in Seq(Seq(X))
    <3>1. <<x>> \in Seq(Seq(X)) /\ ss \o t \in Seq(Seq(X))
      BY ConcatProperties
    <3>2. s = t \o <<x>> /\ Append(ss \o t, x) = (ss \o t) \o <<x>>
      BY <2>2, <3>1, AppendIsConcat
    <3>3. t \in Seq(Seq(X)) /\ (ss \o t) \o <<x>> = ss \o (t \o <<x>>)
      BY <3>1, ConcatAssociative, SMTT(60)
    <3>4. QED
      BY <3>1, <3>2, <3>3
  <2>6. FlattenSeq(ss \o s) = FlattenSeq(ss \o t) \o x
    BY <2>5, FlatAppend
  <2>7. FlattenSeq(s) = FlattenSeq(t) \o x
    BY <2>2, FlatAppend
  <2>8. (FlattenSeq(ss) \o FlattenSeq(t)) \o x = FlattenSeq(ss) \o (FlattenSeq(t) \o x)
    <3>1. PICK a \in Seq(X), b \in Seq(X) : a = FlattenSeq(ss) /\ b = FlattenSeq(t)
      BY <1>0, <2>4
    <3>2. (a \o b) \o x = a \o (b \o x)
      BY ConcatAssociative, SMTT(60)
    <3>3. QED
      BY <3>1, <3>2
  <2>9. QED
    BY <2>4, <2>6, <2>7, <2>8
<1>3. \A n \in Nat : n \in S
  BY <1>1, <1>2, Counting
<1>4. QED
  BY <1>3, LenProperties

LEMMA FlatSingle ==
  ASSUME NEW X, NEW x \in Seq(X)
  PROVE  FlattenSeq(<<x>>) = x
<1>1. <<>> \in Seq(Seq(X)) /\ <<x>> = Append(<<>>, x) /\ <<>> \o x = x
  BY EmptySeq, ConcatEmptySeq
<1>2. QED
  BY <1>1, FlatAppend, FlatEmpty
-----------------------------------------------------------------------------
(* Prefixes *)

LEMMA PrefixSplit ==
  ASSUME NEW X, NEW s \in Seq(X), NEW t \in Seq(X), IsPrefix(s, t)
  PROVE  t = s \o SubSeq(t, Len(s) + 1, Len(t)) /\ SubSeq(t, Len(s) + 1, Len(t)) \in Seq(X)
<1>1. Len(s) \in Nat /\ Len(t) \in Nat /\ Len(s) <= Len(t)
  BY LenProperties DEF IsPrefix
<1>2. s = SubSeq(t, 1, Len(s)) /\ t = SubSeq(t, 1, Len(t))
  BY SubSeqFull DEF IsPrefix
<1>3. SubSeq(t, 1, Len(s)) \o SubSeq(t, Len(s) + 1, Len(t)) = SubSeq(t, 1, Len(t))
  <2>1. /\ 1 \in 1 .. Len(t) + 1 /\ Len(s) \in 1 - 1 .. Len(t) /\ Len(t) \in Len(s) .. Len(t)
    BY <1>1
  <2>2. QED
    BY <2>1, ConcatAdjacentSubSeq
<1>4. \A i \in Len(s) + 1 .. Len(t) : t[i] \in X
  BY <1>1, ElementOfSeq
<1>5. SubSeq(t, Len(s) + 1, Len(t)) \in Seq(X)
  BY <1>1, <1>4, SubSeqProperties
<1>6. QED
  BY <1>2, <1>3, <1>5

LEMMA CutType ==
  ASSUME NEW X, NEW t \in Seq(X), NEW n \in Nat
  PROVE  SubSeq(t, n + 1, Len(t)) \in Seq(X)
<1>1. Len(t) \in Nat /\ \A i \in n + 1 .. Len(t) : t[i] \in X
  BY LenProperties, ElementOfSeq
<1>2. QED
  BY <1>1, SubSeqProperties
-----------------------------------------------------------------------------
(* The tokenizer *)

Letters == UNION {Range(token) : token \in Vocabulary}

LEMMA TextIs == Text = Seq(Letters)
BY DEF Text, Letters

\* One letter more.
Taken(tokens, letter) ==
  IF tokens # <<>> /\ Append(Last(tokens), letter) \in Vocabulary
  THEN [tokens EXCEPT ![Len(tokens)] = Append(@, letter)]
  ELSE Append(tokens, <<letter>>)
Folded(text, n, it) ==
  it = [s \in SUBSET (1 .. n) |-> IF s = {} THEN <<>> ELSE Taken(it[s \ {Max(s)}], text[Max(s)])]

LEMMA MaxIs ==
  ASSUME NEW s \in SUBSET Nat, NEW n \in s, \A x \in s : x <= n
  PROVE  Max(s) = n
<1>1. \A x \in s : (\A y \in s : x >= y) <=> x = n
  OBVIOUS
<1>2. QED
  BY <1>1 DEF Max

LEMMA TokenizerFolds ==
  ASSUME NEW text \in Text
  PROVE  \E it : Folded(text, Len(text), it) /\ tokenizer(text) = it[1 .. Len(text)]
<1>1. DOMAIN text = 1 .. Len(text) /\ Len(text) \in Nat
  BY TextIs, LenProperties
<1>2. \E it : Folded(text, Len(text), it)
  <2> DEFINE S == {n \in Nat : \E it : Folded(text, n, it)}
  <2>1. 0 \in S
    <3>1. Folded(text, 0, [s \in {{}} |-> <<>>])
      <4>1. SUBSET (1 .. 0) = {{}}
        OBVIOUS
      <4>2. QED
        BY <4>1 DEF Folded
    <3>2. QED
      BY <3>1
  <2>2. \A n \in S : n + 1 \in S
    <3>1. SUFFICES ASSUME NEW n \in S PROVE n + 1 \in S
      OBVIOUS
    <3>2. n \in Nat /\ \E it : Folded(text, n, it)
      BY <3>1
    <3>3. PICK it : Folded(text, n, it)
      BY <3>2
    <3>4. \A s \in SUBSET (1 .. n) :
            it[s] = IF s = {} THEN <<>> ELSE Taken(it[s \ {Max(s)}], text[Max(s)])
      BY <3>3, Zenon DEF Folded
    <3> DEFINE on == [s \in SUBSET (1 .. n + 1) |->
                        IF n + 1 \in s THEN Taken(it[s \ {n + 1}], text[n + 1]) ELSE it[s]]
    <3>5. \A s \in SUBSET (1 .. n + 1) :
            on[s] = IF s = {} THEN <<>> ELSE Taken(on[s \ {Max(s)}], text[Max(s)])
      <4>1. TAKE s \in SUBSET (1 .. n + 1)
      <4>2. CASE n + 1 \in s
        <5>1. Max(s) = n + 1 /\ s # {}
          <6>1. s \in SUBSET Nat /\ \A x \in s : x <= n + 1
            BY <3>2, <4>1
          <6>2. QED
            BY <4>2, <6>1, MaxIs
        <5>2. s \ {n + 1} \in SUBSET (1 .. n) /\ n + 1 \notin s \ {n + 1}
          BY <3>2, <4>1
        <5>3. s \ {n + 1} \in SUBSET (1 .. n + 1)
          BY <4>1
        <5>4. on[s \ {n + 1}] = it[s \ {n + 1}] /\ on[s] = Taken(it[s \ {n + 1}], text[n + 1])
          BY <4>1, <4>2, <5>2, <5>3
        <5> HIDE DEF on
        <5>5. QED
          BY <5>1, <5>4
      <4>3. CASE n + 1 \notin s
        <5>1. s \in SUBSET (1 .. n)
          BY <3>2, <4>1, <4>3
        <5>2. s \ {Max(s)} \in SUBSET (1 .. n + 1) /\ n + 1 \notin s \ {Max(s)}
          BY <4>1, <4>3
        <5>3. on[s] = it[s] /\ on[s \ {Max(s)}] = it[s \ {Max(s)}]
          BY <4>1, <4>3, <5>2
        <5> HIDE DEF on
        <5>4. QED
          BY <3>4, <5>1, <5>3
      <4>4. QED
        BY <4>2, <4>3
    <3>6. on = [s \in SUBSET (1 .. n + 1) |-> on[s]]
      BY Zenon
    <3> HIDE DEF on
    <3>7. Folded(text, n + 1, on)
      BY <3>5, <3>6, Zenon DEF Folded
    <3>8. QED
      BY <3>2, <3>7
  <2>3. \A n \in Nat : n \in S
    <3> HIDE DEF S
    <3>1. S \in SUBSET Nat
      BY DEF S
    <3>2. QED
      BY <2>1, <2>2, <3>1, Counting
  <2>4. QED
    BY <1>1, <2>3
<1> DEFINE f == CHOOSE it : it = [s \in SUBSET (DOMAIN text) |->
                  IF s = {} THEN <<>> ELSE Taken(it[s \ {Max(s)}], text[Max(s)])]
<1>3. tokenizer(text) = f[DOMAIN text]
  BY DEF tokenizer, FoldLeft, MapThenFoldSet, Taken
<1>4. f = CHOOSE it : Folded(text, Len(text), it)
  BY <1>1 DEF Folded
<1> HIDE DEF f
<1>5. Folded(text, Len(text), f)
  BY <1>2, <1>4
<1>6. QED
  BY <1>1, <1>3, <1>5

\* tokenizer gives tokens that spell the text.
LEMMA TakenSpells ==
  ASSUME NEW tokens \in Seq(Text), NEW letter \in Letters
  PROVE  /\ Taken(tokens, letter) \in Seq(Text)
         /\ Spelled(Taken(tokens, letter)) = Append(Spelled(tokens), letter)
<1>0. /\ Text = Seq(Letters) /\ Spelled(tokens) \in Seq(Letters) /\ <<letter>> \in Seq(Letters)
      /\ Append(Spelled(tokens), letter) = Spelled(tokens) \o <<letter>>
  <2>1. Text = Seq(Letters) /\ <<letter>> \in Seq(Letters)
    BY TextIs
  <2>2. Spelled(tokens) \in Seq(Letters)
    BY <2>1, FlatType DEF Spelled
  <2>3. QED
    BY <2>1, <2>2, AppendIsConcat
<1>1. CASE tokens # <<>> /\ Append(Last(tokens), letter) \in Vocabulary
  <2>1. PICK s \in Seq(Text), word \in Text : tokens = Append(s, word)
    BY <1>1, SequenceEmptyOrAppend
  <2>2. /\ Len(s) \in Nat /\ Len(tokens) = Len(s) + 1 /\ tokens[Len(tokens)] = word
        /\ \A i \in 1 .. Len(s) : tokens[i] = s[i]
    BY <2>1, AppendProperties, LenProperties
  <2>3. Append(word, letter) = word \o <<letter>> /\ Append(word, letter) \in Text
    BY <1>0, AppendIsConcat, AppendProperties
  <2>4. Taken(tokens, letter) = [tokens EXCEPT ![Len(tokens)] = Append(word, letter)]
    BY <1>1, <2>2 DEF Taken
  <2>5. [tokens EXCEPT ![Len(tokens)] = Append(word, letter)] = Append(s, Append(word, letter))
    <3> DEFINE a == [tokens EXCEPT ![Len(tokens)] = Append(word, letter)]
               b == Append(s, Append(word, letter))
    <3>1. /\ a \in Seq(Text) /\ Len(a) = Len(tokens)
          /\ \A j \in 1 .. Len(tokens) :
               a[j] = IF j = Len(tokens) THEN Append(word, letter) ELSE tokens[j]
      BY <2>2, <2>3, ExceptSeq
    <3>2. /\ b \in Seq(Text) /\ Len(b) = Len(s) + 1
          /\ \A i \in 1 .. Len(s) : b[i] = s[i]
          /\ b[Len(s) + 1] = Append(word, letter)
      BY <2>3, AppendProperties
    <3> HIDE DEF a, b
    <3>3. \A i \in 1 .. Len(a) : a[i] = b[i]
      <4>1. TAKE i \in 1 .. Len(a)
      <4>2. CASE i = Len(tokens)
        BY <2>2, <3>1, <3>2, <4>2
      <4>3. CASE i # Len(tokens)
        <5>1. i \in 1 .. Len(s) /\ i \in 1 .. Len(tokens)
          BY <2>2, <3>1, <4>1, <4>3
        <5>2. a[i] = tokens[i] /\ b[i] = s[i]
          BY <3>1, <3>2, <4>3, <5>1
        <5>3. QED
          BY <2>2, <5>1, <5>2
      <4>4. QED
        BY <4>2, <4>3
    <3>4. Len(a) = Len(b)
      BY <2>2, <3>1, <3>2
    <3>5. a = b
      BY <3>1, <3>2, <3>3, <3>4, SeqEqual
    <3>6. QED
      BY <3>5 DEF a, b
  <2>6. /\ Spelled(Append(s, Append(word, letter))) = Spelled(s) \o (word \o <<letter>>)
        /\ Spelled(tokens) = Spelled(s) \o word
    BY <1>0, <2>1, <2>3, FlatAppend DEF Spelled
  <2>7. Spelled(s) \o (word \o <<letter>>) = (Spelled(s) \o word) \o <<letter>>
    <3>1. Spelled(s) \in Seq(Letters) /\ word \in Seq(Letters)
      BY <1>0, FlatType DEF Spelled
    <3>2. QED
      BY <1>0, <3>1, ConcatAssociative
  <2>8. Append(s, Append(word, letter)) \in Seq(Text)
    BY <2>3, AppendProperties
  <2>9. QED
    BY <1>0, <2>4, <2>5, <2>6, <2>7, <2>8
<1>2. CASE ~(tokens # <<>> /\ Append(Last(tokens), letter) \in Vocabulary)
  <2>1. Taken(tokens, letter) = Append(tokens, <<letter>>)
    BY <1>2 DEF Taken
  <2>2. Append(tokens, <<letter>>) \in Seq(Text)
    BY <1>0, AppendProperties
  <2>3. Spelled(Append(tokens, <<letter>>)) = Spelled(tokens) \o <<letter>>
    BY <1>0, FlatAppend DEF Spelled
  <2>4. QED
    BY <1>0, <2>1, <2>2, <2>3
<1>3. QED
  BY <1>1, <1>2

LEMMA TokenizerSpells ==
  ASSUME NEW text \in Text
  PROVE  tokenizer(text) \in Seq(Text) /\ Spelled(tokenizer(text)) = text
<1>1. PICK it : Folded(text, Len(text), it) /\ tokenizer(text) = it[1 .. Len(text)]
  BY TokenizerFolds
<1>2. \A s \in SUBSET (1 .. Len(text)) :
        it[s] = IF s = {} THEN <<>> ELSE Taken(it[s \ {Max(s)}], text[Max(s)])
  BY <1>1, Zenon DEF Folded
<1>3. text \in Seq(Letters) /\ Len(text) \in Nat /\ \A n \in 1 .. Len(text) : text[n] \in Letters
  BY TextIs, LenProperties, ElementOfSeq
<1> DEFINE S == {n \in 0 .. Len(text) :
                   it[1 .. n] \in Seq(Text) /\ Spelled(it[1 .. n]) = SubSeq(text, 1, n)}
<1>4. 0 \in S
  <2>1. it[1 .. 0] = <<>>
    <3>1. 1 .. 0 = {} /\ {} \in SUBSET (1 .. Len(text))
      OBVIOUS
    <3>2. it[{}] = <<>>
      BY <1>2, <3>1
    <3>3. QED
      BY <3>1, <3>2
  <2>2. Spelled(<<>>) = <<>> /\ SubSeq(text, 1, 0) = <<>> /\ <<>> \in Seq(Text)
    BY FlatEmpty, SubSeqEmpty, EmptySeq DEF Spelled
  <2>3. it[1 .. 0] \in Seq(Text) /\ Spelled(it[1 .. 0]) = SubSeq(text, 1, 0)
    BY <2>1, <2>2, Zenon
  <2>4. 0 \in 0 .. Len(text)
    BY <1>3
  <2>5. QED
    BY <2>3, <2>4
<1>5. \A n \in 0 .. Len(text) - 1 : n \in S => n + 1 \in S
  <2>1. SUFFICES ASSUME NEW n \in 0 .. Len(text) - 1, n \in S PROVE n + 1 \in S
    OBVIOUS
  <2>2. /\ n \in Nat /\ n + 1 \in 1 .. Len(text) /\ (n + 1) - 1 = n
        /\ it[1 .. n] \in Seq(Text) /\ Spelled(it[1 .. n]) = SubSeq(text, 1, n)
    BY <1>3, <2>1
  <2>3. /\ 1 .. (n + 1) \in SUBSET (1 .. Len(text)) /\ 1 .. (n + 1) # {}
        /\ (1 .. (n + 1)) \ {n + 1} = 1 .. n
    <3>1. 1 .. (n + 1) \in SUBSET (1 .. Len(text))
      BY <1>3, <2>2
    <3>2. n + 1 \in 1 .. (n + 1)
      BY <2>2
    <3>3. (1 .. (n + 1)) \ {n + 1} = 1 .. n
      BY <2>2
    <3>4. QED
      BY <3>1, <3>2, <3>3
  <2>4. Max(1 .. n + 1) = n + 1
    <3>1. PICK s \in SUBSET Nat : s = 1 .. n + 1
      BY <2>2
    <3>2. n + 1 \in s /\ \A x \in s : x <= n + 1
      BY <2>2, <3>1
    <3>3. Max(s) = n + 1
      BY <3>2, MaxIs
    <3>4. QED
      BY <3>1, <3>3
  <2>5. it[1 .. n + 1] = Taken(it[1 .. n], text[n + 1])
    BY <1>2, <2>3, <2>4
  <2>6. /\ Taken(it[1 .. n], text[n + 1]) \in Seq(Text)
        /\ Spelled(Taken(it[1 .. n], text[n + 1])) = Append(SubSeq(text, 1, n), text[n + 1])
    BY <1>3, <2>2, TakenSpells
  <2>7. SubSeq(text, 1, n + 1) = Append(SubSeq(text, 1, n), text[n + 1])
    <3>1. SubSeq(text, 1, n + 1) = SubSeq(text, 1, n) \o <<text[n + 1]>>
      BY <1>3, <2>2, SubSeqRecursiveSecond
    <3>2. SubSeq(text, 1, n) \in Seq(Letters)
      BY <1>3, <2>2, SubSeqProperties
    <3>3. QED
      BY <1>3, <2>2, <3>1, <3>2, AppendIsConcat
  <2>8. /\ it[1 .. n + 1] \in Seq(Text) /\ Spelled(it[1 .. n + 1]) = SubSeq(text, 1, n + 1)
        /\ n + 1 \in 0 .. Len(text)
    BY <1>3, <2>2, <2>5, <2>6, <2>7
  <2>9. QED
    BY <2>8
<1>6. Len(text) \in S
  <2> HIDE DEF S
  <2>1. \A n \in 0 .. Len(text) : n \in S
    BY <1>3, <1>4, <1>5, CountingTo
  <2>2. QED
    BY <1>3, <2>1
<1>7. SubSeq(text, 1, Len(text)) = text
  BY <1>3, SubSeqFull
<1>8. QED
  BY <1>1, <1>6, <1>7
-----------------------------------------------------------------------------
(* The trie *)

\* A node for every beginning of a path, each with its tokens.
Shape(t) ==
  /\ DOMAIN t \subseteq Seq(Text) /\ t \in [DOMAIN t -> Seq(Text)] /\ <<>> \in DOMAIN t
  /\ \A p \in DOMAIN t : \A i \in 0 .. Len(p) : SubSeq(p, 1, i) \in DOMAIN t

LEMMA EmptyShape == Shape(EmptyTrie)
<1>1. DOMAIN EmptyTrie = {<<>>} /\ EmptyTrie \in [{<<>>} -> Seq(Text)] /\ <<>> \in Seq(Text)
  BY EmptySeq DEF EmptyTrie
<1>2. \A i \in 0 .. Len(<<>>) : SubSeq(<<>>, 1, i) = <<>>
  <2>1. \A i \in 0 .. Len(<<>>) : i = 0
    OBVIOUS
  <2>2. QED
    BY <2>1, SubSeqEmpty
<1>3. QED
  BY <1>1, <1>2 DEF Shape

LEMMA BeginningOfAppend ==
  ASSUME NEW path \in Seq(Text), NEW key \in Text
  PROVE  /\ Append(path, key) \in Seq(Text) /\ Len(Append(path, key)) = Len(path) + 1
         /\ Len(path) \in Nat
         /\ SubSeq(Append(path, key), 1, Len(path) + 1) = Append(path, key)
         /\ SubSeq(Append(path, key), 1, Len(path)) = path
         /\ \A i \in 0 .. Len(path) : SubSeq(Append(path, key), 1, i) = SubSeq(path, 1, i)
<1> DEFINE on == Append(path, key)
<1>1. /\ on \in Seq(Text) /\ Len(on) = Len(path) + 1 /\ Len(path) \in Nat
      /\ \A i \in 1 .. Len(path) : on[i] = path[i]
  BY AppendProperties, LenProperties
<1> HIDE DEF on
<1>2. SubSeq(on, 1, Len(path) + 1) = on
  BY <1>1, SubSeqFull
<1>3. ASSUME NEW i \in 0 .. Len(path) PROVE SubSeq(on, 1, i) = SubSeq(path, 1, i)
  <2>1. /\ \A j \in 1 .. i : on[j] \in Text /\ path[j] \in Text /\ on[j] = path[j]
        /\ i \in Int
    BY <1>1, ElementOfSeq
  <2>2. /\ SubSeq(on, 1, i) \in Seq(Text) /\ SubSeq(path, 1, i) \in Seq(Text)
        /\ Len(SubSeq(on, 1, i)) = i /\ Len(SubSeq(path, 1, i)) = i
        /\ \A j \in 1 .. i : SubSeq(on, 1, i)[j] = on[j] /\ SubSeq(path, 1, i)[j] = path[j]
    BY <2>1, SubSeqProperties
  <2>3. QED
    BY <2>1, <2>2, SeqEqual
<1>4. SubSeq(on, 1, Len(path)) = path
  <2>1. Len(path) \in 0 .. Len(path) /\ SubSeq(path, 1, Len(path)) = path
    BY <1>1, SubSeqFull
  <2>2. QED
    BY <1>3, <2>1
<1>5. QED
  BY <1>1, <1>2, <1>3, <1>4 DEF on

\* The tokens of the nodes on the way to a path.
OnTheWay(t, path) == [i \in 1 .. Len(path) |-> t[SubSeq(path, 1, i)]]

LEMMA OnTheWayType ==
  ASSUME NEW t, Shape(t), NEW path \in DOMAIN t
  PROVE  /\ OnTheWay(t, path) \in Seq(Seq(Text)) /\ Len(OnTheWay(t, path)) = Len(path)
         /\ \A i \in 1 .. Len(path) : OnTheWay(t, path)[i] = t[SubSeq(path, 1, i)]
<1>1. path \in Seq(Text) /\ Len(path) \in Nat
  BY LenProperties DEF Shape
<1>2. \A i \in 1 .. Len(path) : SubSeq(path, 1, i) \in DOMAIN t /\ t[SubSeq(path, 1, i)] \in Seq(Text)
  BY <1>1 DEF Shape
<1>3. OnTheWay(t, path) \in [1 .. Len(path) -> Seq(Text)]
  BY <1>2 DEF OnTheWay
<1>4. QED
  BY <1>1, <1>3 DEF OnTheWay

LEMMA MatchedType ==
  ASSUME NEW t, Shape(t), NEW path \in DOMAIN t
  PROVE  matched_tokens(t, path) \in Seq(Text) /\ matched_tokens(t, path) = FlattenSeq(OnTheWay(t, path))
<1>1. matched_tokens(t, path) = FlattenSeq(OnTheWay(t, path))
  BY DEF matched_tokens, OnTheWay
<1>2. QED
  BY <1>1, OnTheWayType, FlatType

LEMMA MatchedAtRoot ==
  ASSUME NEW t
  PROVE  matched_tokens(t, <<>>) = <<>>
<1>1. [i \in 1 .. Len(<<>>) |-> t[SubSeq(<<>>, 1, i)]] = <<>>
  OBVIOUS
<1>2. QED
  BY <1>1, FlatEmpty DEF matched_tokens

\* Two tries that agree on the way to a path match the same tokens there.
LEMMA MatchedAlike ==
  ASSUME NEW t, NEW u, NEW path, \A i \in 1 .. Len(path) : t[SubSeq(path, 1, i)] = u[SubSeq(path, 1, i)]
  PROVE  matched_tokens(t, path) = matched_tokens(u, path)
<1>1. [i \in 1 .. Len(path) |-> t[SubSeq(path, 1, i)]] = [i \in 1 .. Len(path) |-> u[SubSeq(path, 1, i)]]
  OBVIOUS
<1>2. QED
  BY <1>1 DEF matched_tokens

LEMMA WithValues ==
  ASSUME NEW t, NEW path, NEW tokens
  PROVE  /\ DOMAIN With(t, path, tokens) = DOMAIN t \cup {path}
         /\ With(t, path, tokens)[path] = tokens
         /\ \A p \in DOMAIN t \ {path} : With(t, path, tokens)[p] = t[p]
BY DEF With

LEMMA NewValueShape ==
  ASSUME NEW t, Shape(t), NEW path \in DOMAIN t, NEW tokens \in Seq(Text)
  PROVE  Shape(With(t, path, tokens))
<1> DEFINE u == With(t, path, tokens)
<1>1. /\ DOMAIN u = DOMAIN t /\ u[path] = tokens
      /\ \A p \in DOMAIN t \ {path} : u[p] = t[p]
  BY DEF With
<1>2. u = [p \in DOMAIN u |-> u[p]]
  BY DEF With
<1> HIDE DEF u
<1>3. \A p \in DOMAIN u : u[p] \in Seq(Text)
  <2>1. \A p \in DOMAIN t : t[p] \in Seq(Text)
    BY DEF Shape
  <2>2. QED
    BY <1>1, <2>1
<1>4. u \in [DOMAIN u -> Seq(Text)]
  BY <1>2, <1>3
<1>5. Shape(u)
  BY <1>1, <1>4 DEF Shape
<1>6. QED
  BY <1>5 DEF u

LEMMA NewNode ==
  ASSUME NEW t, Shape(t), NEW path \in DOMAIN t, NEW key \in Text,
         NEW tokens \in Seq(Text)
  PROVE  Shape(With(t, Append(path, key), tokens))
<1> DEFINE new == Append(path, key)
           u == With(t, new, tokens)
<1>1. /\ DOMAIN u = DOMAIN t \cup {new} /\ u[new] = tokens
      /\ \A p \in DOMAIN t \ {new} : u[p] = t[p]
  BY DEF With
<1>2. u = [p \in DOMAIN u |-> u[p]]
  BY DEF With
<1>3. path \in Seq(Text)
  BY DEF Shape
<1>4. /\ new \in Seq(Text) /\ Len(new) = Len(path) + 1 /\ Len(path) \in Nat
      /\ SubSeq(new, 1, Len(path) + 1) = new
      /\ \A i \in 0 .. Len(path) : SubSeq(new, 1, i) = SubSeq(path, 1, i)
  BY <1>3, BeginningOfAppend
<1> HIDE DEF u, new
<1>5. \A p \in DOMAIN u : u[p] \in Seq(Text)
  <2>1. \A p \in DOMAIN t : t[p] \in Seq(Text)
    BY DEF Shape
  <2>2. QED
    BY <1>1, <2>1
<1>6. u \in [DOMAIN u -> Seq(Text)]
  BY <1>2, <1>5
<1>7. \A p \in DOMAIN u : \A i \in 0 .. Len(p) : SubSeq(p, 1, i) \in DOMAIN u
  <2>1. \A p \in DOMAIN t : \A i \in 0 .. Len(p) : SubSeq(p, 1, i) \in DOMAIN t
    BY DEF Shape
  <2>2. ASSUME NEW i \in 0 .. Len(new) PROVE SubSeq(new, 1, i) \in DOMAIN u
    <3>1. CASE i = Len(path) + 1
      BY <1>1, <1>4, <3>1
    <3>2. CASE i # Len(path) + 1
      <4>1. i \in 0 .. Len(path)
        BY <1>4, <2>2, <3>2
      <4>2. SubSeq(new, 1, i) = SubSeq(path, 1, i) /\ SubSeq(path, 1, i) \in DOMAIN t
        BY <1>4, <2>1, <4>1
      <4>3. QED
        BY <1>1, <4>2
    <3>3. QED
      BY <3>1, <3>2
  <2>3. QED
    BY <1>1, <2>1, <2>2
<1>8. Shape(u)
  <2>1. DOMAIN u \subseteq Seq(Text) /\ <<>> \in DOMAIN u
    BY <1>1, <1>4 DEF Shape
  <2>2. QED
    BY <1>6, <1>7, <2>1 DEF Shape
<1>9. QED
  BY <1>8 DEF u, new

\* A new node leaves what the others match alone, and matches what its parent does
\* and its own tokens.
LEMMA NewNodeMatches ==
  ASSUME NEW t, Shape(t), NEW path \in DOMAIN t, NEW key \in Text,
         NEW tokens \in Seq(Text), Append(path, key) \notin DOMAIN t
  PROVE  /\ \A p \in DOMAIN t :
              matched_tokens(With(t, Append(path, key), tokens), p) = matched_tokens(t, p)
         /\ matched_tokens(With(t, Append(path, key), tokens), Append(path, key))
              = matched_tokens(t, path) \o tokens
<1> DEFINE new == Append(path, key)
           u == With(t, new, tokens)
<1>1. /\ DOMAIN u = DOMAIN t \cup {new} /\ u[new] = tokens
      /\ \A p \in DOMAIN t : u[p] = t[p]
  BY DEF With
<1>2. path \in Seq(Text)
  BY DEF Shape
<1>3. /\ new \in Seq(Text) /\ Len(new) = Len(path) + 1 /\ Len(path) \in Nat
      /\ SubSeq(new, 1, Len(path) + 1) = new
      /\ \A i \in 0 .. Len(path) : SubSeq(new, 1, i) = SubSeq(path, 1, i)
  BY <1>2, BeginningOfAppend
<1>4. Shape(u)
  BY NewNode
<1> HIDE DEF u, new
<1>5. ASSUME NEW p \in DOMAIN t PROVE matched_tokens(u, p) = matched_tokens(t, p)
  <2>1. \A i \in 1 .. Len(p) : SubSeq(p, 1, i) \in DOMAIN t
    BY DEF Shape
  <2>2. \A i \in 1 .. Len(p) : u[SubSeq(p, 1, i)] = t[SubSeq(p, 1, i)]
    BY <1>1, <2>1
  <2>3. QED
    BY <2>2, MatchedAlike
<1>6. matched_tokens(u, new) = matched_tokens(t, path) \o tokens
  <2>1. /\ OnTheWay(u, new) \in Seq(Seq(Text)) /\ Len(OnTheWay(u, new)) = Len(path) + 1
        /\ \A i \in 1 .. Len(path) + 1 : OnTheWay(u, new)[i] = u[SubSeq(new, 1, i)]
    <3>1. new \in DOMAIN u
      BY <1>1
    <3>2. /\ OnTheWay(u, new) \in Seq(Seq(Text)) /\ Len(OnTheWay(u, new)) = Len(new)
          /\ \A i \in 1 .. Len(new) : OnTheWay(u, new)[i] = u[SubSeq(new, 1, i)]
      BY <1>4, <3>1, OnTheWayType
    <3>3. QED
      BY <1>3, <3>2
  <2>2. /\ OnTheWay(t, path) \in Seq(Seq(Text)) /\ Len(OnTheWay(t, path)) = Len(path)
        /\ \A i \in 1 .. Len(path) : OnTheWay(t, path)[i] = t[SubSeq(path, 1, i)]
    BY OnTheWayType
  <2> DEFINE a == Append(OnTheWay(t, path), tokens)
  <2>3. /\ a \in Seq(Seq(Text)) /\ Len(a) = Len(path) + 1
        /\ \A i \in 1 .. Len(path) : a[i] = OnTheWay(t, path)[i]
        /\ a[Len(path) + 1] = tokens
    BY <2>2, AppendProperties
  <2> HIDE DEF a
  <2>4. ASSUME NEW i \in 1 .. Len(path) + 1 PROVE OnTheWay(u, new)[i] = a[i]
    <3>1. CASE i = Len(path) + 1
      BY <1>1, <1>3, <2>1, <2>3, <3>1
    <3>2. CASE i # Len(path) + 1
      <4>1. i \in 1 .. Len(path) /\ i \in 0 .. Len(path)
        BY <1>3, <2>4, <3>2
      <4>2. SubSeq(new, 1, i) = SubSeq(path, 1, i) /\ SubSeq(path, 1, i) \in DOMAIN t
        BY <1>3, <4>1 DEF Shape
      <4>3. OnTheWay(u, new)[i] = t[SubSeq(path, 1, i)]
        BY <1>1, <2>1, <4>2
      <4>4. QED
        BY <2>2, <2>3, <4>1, <4>3
    <3>3. QED
      BY <3>1, <3>2
  <2>5. OnTheWay(u, new) = a
    BY <2>1, <2>3, <2>4, SeqEqual
  <2>6. FlattenSeq(a) = FlattenSeq(OnTheWay(t, path)) \o tokens
    BY <2>2, FlatAppend DEF a
  <2>7. /\ matched_tokens(u, new) = FlattenSeq(OnTheWay(u, new))
        /\ matched_tokens(t, path) = FlattenSeq(OnTheWay(t, path))
    BY <1>1, <1>4, MatchedType
  <2>8. QED
    BY <2>5, <2>6, <2>7
<1>7. QED
  BY <1>5, <1>6 DEF u, new
-----------------------------------------------------------------------------
(* What the trie keeps *)

Told == [text : Text, tokens : Seq(Text)]

\* Every node but the root adds tokens, and one that was told is found there; what
\* was told spells its text.
Kept(t, told) ==
  /\ \A p \in DOMAIN t \ {<<>>} :
       t[p] # <<>> /\ \E x \in told : x.text = Spelled(p) /\ x.tokens = matched_tokens(t, p)
  /\ \A x \in told : Spelled(x.tokens) = x.text
Alike(told) == \A x, y \in told : IsStrictPrefix(x.text, y.text) => IsPrefix(x.tokens, y.tokens)

LEMMA AllSpell ==
  ASSUME NEW t, Shape(t), NEW told \in SUBSET Told, Kept(t, told), NEW path \in DOMAIN t
  PROVE  Spelled(matched_tokens(t, path)) = Spelled(path)
<1>1. CASE path = <<>>
  BY <1>1, MatchedAtRoot
<1>2. CASE path # <<>>
  BY <1>2 DEF Kept
<1>3. QED
  BY <1>1, <1>2

LEMMA SpelledType ==
  ASSUME NEW tokens \in Seq(Text)
  PROVE  Spelled(tokens) \in Text
BY TextIs, FlatType DEF Spelled

LEMMA RemainingType ==
  ASSUME NEW text \in Text, NEW path \in Seq(Text)
  PROVE  Remaining(text, path) \in Text
<1>1. Len(Spelled(path)) \in Nat
  BY SpelledType, TextIs, LenProperties
<1>2. QED
  BY <1>1, TextIs, CutType DEF Remaining

\* The rest of a text, after a path that it starts with.
LEMMA RemainingCompletes ==
  ASSUME NEW text \in Text, NEW path \in Seq(Text), IsPrefix(Spelled(path), text)
  PROVE  text = Spelled(path) \o Remaining(text, path)
<1>1. Spelled(path) \in Seq(Letters) /\ text \in Seq(Letters)
  BY SpelledType, TextIs
<1>2. QED
  BY <1>1, PrefixSplit DEF Remaining

LEMMA SelfPrefix ==
  ASSUME NEW X, NEW s \in Seq(X)
  PROVE  IsPrefix(s, s)
BY LenProperties DEF IsPrefix

LEMMA SkippedTokens ==
  ASSUME NEW t, Shape(t), NEW told \in SUBSET Told, Kept(t, told),
         NEW path \in DOMAIN t, NEW text \in Text, NEW tokens \in Seq(Text),
         IsPrefix(Spelled(path), text), Spelled(path) # text,
         Alike(told \cup {[text |-> text, tokens |-> tokens]})
  PROVE  IsPrefix(matched_tokens(t, path), tokens)
<1>1. CASE path = <<>>
  <2>1. matched_tokens(t, path) = <<>> /\ Len(tokens) \in Nat
    BY <1>1, MatchedAtRoot, LenProperties
  <2>2. Len(<<>>) = 0 /\ SubSeq(<<>>, 1, 0) = <<>> /\ SubSeq(tokens, 1, 0) = <<>>
    BY SubSeqEmpty
  <2>3. QED
    BY <2>1, <2>2 DEF IsPrefix
<1>2. CASE path # <<>>
  <2>1. PICK x \in told : x.text = Spelled(path) /\ x.tokens = matched_tokens(t, path)
    BY <1>2 DEF Kept
  <2> DEFINE new == [text |-> text, tokens |-> tokens]
  <2>2. new.text = text /\ new.tokens = tokens /\ new \in told \cup {new} /\ x \in told \cup {new}
    OBVIOUS
  <2> HIDE DEF new
  <2>3. Alike(told \cup {new})
    BY DEF new
  <2>4. IsStrictPrefix(x.text, new.text)
    BY <2>1, <2>2 DEF IsStrictPrefix
  <2>5. QED
    BY <2>1, <2>2, <2>3, <2>4, Zenon DEF Alike
<1>3. QED
  BY <1>1, <1>2

\* insert keeps them.
LEMMA InsertShape ==
  ASSUME NEW t, Shape(t), NEW path \in DOMAIN t, NEW text \in Text, NEW tokens \in Seq(Text)
  PROVE  Shape(insert(t, path, text, tokens))
<1> DEFINE rest == SubSeq(tokens, Skipped(t, path) + 1, Len(tokens))
<1>1. rest \in Seq(Text)
  <2>1. Skipped(t, path) \in Nat
    BY MatchedType, LenProperties DEF Skipped
  <2>2. QED
    BY <2>1, CutType
<1>2. path \in Seq(Text) /\ Remaining(text, path) \in Text
  BY RemainingType DEF Shape
<1> HIDE DEF rest
<1>3. Shape(With(t, Append(path, Remaining(text, path)), rest)) /\ Shape(With(t, path, rest))
  BY <1>1, <1>2, NewNode, NewValueShape
<1>4. QED
  BY <1>3 DEF insert, rest

LEMMA InsertKeeps ==
  ASSUME NEW t, Shape(t), NEW told \in SUBSET Told, Kept(t, told),
         NEW path \in DOMAIN t, NEW text \in Text, NEW tokens \in Seq(Text),
         last_node(t, text, path), Spelled(tokens) = text,
         Alike(told \cup {[text |-> text, tokens |-> tokens]})
  PROVE  Kept(insert(t, path, text, tokens), told \cup {[text |-> text, tokens |-> tokens]})
<1> DEFINE new == [text |-> text, tokens |-> tokens]
           key == Remaining(text, path)
           rest == SubSeq(tokens, Skipped(t, path) + 1, Len(tokens))
           node == Append(path, key)
           u == With(t, node, rest)
<1>1. new.text = text /\ new.tokens = tokens
  OBVIOUS
<1>2. path \in Seq(Text) /\ key \in Text /\ IsPrefix(Spelled(path), text)
  BY RemainingType DEF Shape, last_node
<1>a. text \in Seq(Letters) /\ Text = Seq(Letters)
  BY TextIs
<1>3. insert(t, path, text, tokens) \in {t, u, With(t, path, rest)}
  BY DEF insert
<1>4. CASE insert(t, path, text, tokens) = t
  BY <1>1, <1>4 DEF Kept
<1>5. CASE Spelled(path) # text
  <2>1. IsPrefix(matched_tokens(t, path), tokens) /\ matched_tokens(t, path) \in Seq(Text)
    BY <1>2, <1>5, SkippedTokens, MatchedType
  <2>2. tokens = matched_tokens(t, path) \o rest /\ rest \in Seq(Text)
    BY <2>1, PrefixSplit DEF Skipped
  <2>3. Spelled(node) = text
    <3>1. text = Spelled(path) \o key
      BY <1>2, RemainingCompletes
    <3>2. Spelled(node) = Spelled(path) \o key
      BY <1>2, <1>a, FlatAppend DEF Spelled
    <3>3. QED
      BY <3>1, <3>2
  <2>4. rest # <<>>
    <3>1. SUFFICES ASSUME rest = <<>> PROVE FALSE
      OBVIOUS
    <3>2. tokens = matched_tokens(t, path)
      BY <2>1, <2>2, <3>1, ConcatEmptySeq
    <3>3. QED
      BY <1>5, <3>2, AllSpell
  <2>5. /\ node \in Seq(Text) /\ Len(node) = Len(path) + 1 /\ Len(path) \in Nat
        /\ Front(node) = path
    <3>1. /\ node \in Seq(Text) /\ Len(node) = Len(path) + 1 /\ Len(path) \in Nat
          /\ SubSeq(node, 1, Len(path)) = path
      BY <1>2, BeginningOfAppend
    <3> HIDE DEF node
    <3>2. Len(node) - 1 = Len(path)
      BY <3>1
    <3>3. QED
      BY <3>1, <3>2 DEF Front
  <2>6. node \notin DOMAIN t
    <3> HIDE DEF node, key
    <3>1. SUFFICES ASSUME node \in DOMAIN t PROVE FALSE
      OBVIOUS
    <3>2. node # <<>>
      BY <2>5
    <3>3. IsPrefix(Front(node), path) /\ IsPrefix(Spelled(node), text)
      BY <1>2, <1>a, <2>3, <2>5, SelfPrefix
    <3>4. Len(node) <= Len(path)
      BY <3>1, <3>2, <3>3 DEF last_node
    <3>5. QED
      BY <2>5, <3>4
  <2>7. /\ \A p \in DOMAIN t : matched_tokens(u, p) = matched_tokens(t, p)
        /\ matched_tokens(u, node) = tokens
    <3>1. /\ \A p \in DOMAIN t : matched_tokens(u, p) = matched_tokens(t, p)
          /\ matched_tokens(u, node) = matched_tokens(t, path) \o rest
      <4> HIDE DEF rest, key
      <4>1. QED
        BY <1>2, <2>2, <2>6, NewNodeMatches
    <3>2. QED
      BY <2>2, <3>1
  <2>8. /\ DOMAIN u = DOMAIN t \cup {node} /\ u[node] = rest
        /\ \A p \in DOMAIN t : u[p] = t[p]
    <3> HIDE DEF node, rest
    <3>1. QED
      BY <2>6 DEF With
  <2>9. Kept(u, told \cup {new})
    <3> HIDE DEF u, node, rest, key, new
    <3>1. ASSUME NEW p \in DOMAIN u \ {<<>>}
          PROVE  /\ u[p] # <<>>
                 /\ \E x \in told \cup {new} : x.text = Spelled(p) /\ x.tokens = matched_tokens(u, p)
      <4>1. CASE p = node
        BY <1>1, <2>3, <2>4, <2>7, <2>8, <4>1
      <4>2. CASE p # node
        <5>1. p \in DOMAIN t \ {<<>>}
          BY <2>8, <3>1, <4>2
        <5>2. /\ t[p] # <<>>
              /\ \E x \in told : x.text = Spelled(p) /\ x.tokens = matched_tokens(t, p)
          BY <5>1 DEF Kept
        <5>3. QED
          BY <2>7, <2>8, <5>1, <5>2
      <4>3. QED
        BY <4>1, <4>2
    <3>2. \A x \in told \cup {new} : Spelled(x.tokens) = x.text
      BY <1>1 DEF Kept
    <3>3. QED
      BY <3>1, <3>2 DEF Kept
  <2>10. CASE text = <<>> \/ tokens = <<>>
    BY <1>4, <2>10 DEF insert
  <2>11. CASE ~(text = <<>> \/ tokens = <<>>)
    BY <1>5, <2>9, <2>11 DEF insert
  <2>12. QED
    BY <2>10, <2>11
<1>6. CASE Spelled(path) = text
  <2>1. CASE text = <<>> \/ tokens = <<>>
    BY <1>4, <2>1 DEF insert
  <2>2. CASE ~(text = <<>> \/ tokens = <<>>)
    <3>1. path # <<>>
      BY <1>6, <2>2, FlatEmpty DEF Spelled
    <3>2. t[path] # <<>>
      BY <3>1 DEF Kept
    <3>3. insert(t, path, text, tokens) = t
      BY <1>6, <2>2, <3>2 DEF insert
    <3>4. QED
      BY <1>4, <3>3
  <2>3. QED
    BY <2>1, <2>2
<1>7. QED
  BY <1>5, <1>6

\* What is retrieved.
LEMMA RetrievedType ==
  ASSUME NEW t, Shape(t), NEW path \in DOMAIN t, NEW text \in Text
  PROVE  Retrieved(t, path, text) \in Seq(Text)
<1>1. Remaining(text, path) \in Text
  BY RemainingType DEF Shape
<1>2. /\ tokenizer(text) \in Seq(Text) /\ tokenizer(Remaining(text, path)) \in Seq(Text)
      /\ matched_tokens(t, path) \in Seq(Text)
  BY <1>1, TokenizerSpells, MatchedType
<1>3. QED
  BY <1>2, ConcatProperties DEF Retrieved

LEMMA RetrievedSpells ==
  ASSUME NEW t, Shape(t), NEW told \in SUBSET Told, Kept(t, told), NEW path \in DOMAIN t,
         NEW text \in Text, last_node(t, text, path)
  PROVE  Spelled(Retrieved(t, path, text)) = text
<1>1. CASE matched_tokens(t, path) # <<>>
  <2>1. path \in Seq(Text) /\ Remaining(text, path) \in Text
    BY RemainingType DEF Shape
  <2>2. text = Spelled(path) \o Remaining(text, path)
    BY <2>1, RemainingCompletes DEF last_node
  <2>3. /\ tokenizer(Remaining(text, path)) \in Seq(Text)
        /\ Spelled(tokenizer(Remaining(text, path))) = Remaining(text, path)
        /\ matched_tokens(t, path) \in Seq(Text)
    BY <2>1, TokenizerSpells, MatchedType
  <2>4. Spelled(matched_tokens(t, path) \o tokenizer(Remaining(text, path)))
          = Spelled(matched_tokens(t, path)) \o Remaining(text, path)
    BY <2>3, TextIs, FlatConcat DEF Spelled
  <2>5. Spelled(matched_tokens(t, path)) = Spelled(path)
    BY AllSpell
  <2>6. Retrieved(t, path, text) = matched_tokens(t, path) \o tokenizer(Remaining(text, path))
    BY <1>1 DEF Retrieved
  <2>7. QED
    BY <2>2, <2>4, <2>5, <2>6
<1>2. CASE matched_tokens(t, path) = <<>>
  BY <1>2, TokenizerSpells DEF Retrieved
<1>3. QED
  BY <1>1, <1>2
-----------------------------------------------------------------------------
(* The router.  What its variables hold *)

Statuses == {"none", "stop", "abort", "error", "rejected"}
Replies == [status : Statuses, text : Text, tokens : Seq(Text)]
Places == {"out", "arrived", "routing", "body", "proxied", "returned", "replied"}
Calls == [at : Places, url : Workers \cup {0}, tries : Nat, input : Seq(Text),
          reply : Replies, heard : BOOLEAN]
PostStates == [state : {"ready", "waiting", "answered", "failed"}, retry_count : Nat,
               by : {"actor", "local"}]

RouterTypes ==
  /\ options \in Options
  /\ worker_urls \in Seq([url : Workers, count : Int])
  /\ server \in [Workers -> {"starting", "up", "sick", "dead"}]
  /\ post \in [Posts -> PostStates]
  /\ call \in [Ids -> Calls]
  /\ Shape(trie) /\ inserted \subseteq Told
  /\ asleep \in Ids \cup {Nobody}
  /\ left \in [Workers -> Nat]
  /\ shutdown \in [Workers -> {"no", "asked", "over"}]

\* A request that somebody still waits for is the one its post waits for, so that
\* no post has two; a request nobody waits for is one of a dead actor.
OneRequest ==
  /\ \A c \in Ids : IsGenerate(c) /\ ~At(c, "out") /\ call[c].heard =>
       post[c[2]].by = c[1] /\ post[c[2]].state = "waiting"
  /\ \A c \in Ids : IsGenerate(c) /\ ~call[c].heard => c[1] = "actor" /\ post[c[2]].by = "local"
  /\ \A w \in Workers : shutdown[w] = "no" => At(<<"remove", w>>, "out")
  /\ \A c \in Ids : At(c, "arrived") => Caches(c)
  /\ asleep # Nobody => At(asleep, "replied") /\ Caches(asleep)

\* A server is registered once, and its count is of its requests under way and of
\* those that were left in body().
Counted(cs) == {c \in Ids : cs[c].at \in {"body", "proxied", "returned"}}
Carried(cs, w) == {c \in Counted(cs) : cs[c].url = w}
Load(cs, w) == Cardinality(Carried(cs, w))
CountsAreTrue ==
  /\ \A i, j \in DOMAIN worker_urls : worker_urls[i].url = worker_urls[j].url => i = j
  /\ \A i \in DOMAIN worker_urls :
       worker_urls[i].count = Load(call, worker_urls[i].url) + left[worker_urls[i].url]
  /\ \A w \in Workers : server[w] = "starting" => w \notin Urls
  /\ \A c \in Counted(call) : call[c].url \in Urls
  /\ \A w \in Workers : left[w] # 0 => w \in Urls

\* What the middleware sends spells what was asked, and what comes back its text.
Spelling ==
  /\ \A c \in Ids : call[c].reply.text = Spelled(call[c].reply.tokens)
  /\ Alike(inserted) =>
       /\ Kept(trie, inserted)
       /\ \A c \in Ids : Caches(c) /\ call[c].at \notin {"out", "arrived"} =>
            Spelled(call[c].input) = Prompt[c[2]]
-----------------------------------------------------------------------------
(* The server that is chosen *)

LEMMA LowestExists ==
  ASSUME NEW f, NEW N \in Nat \ {0}, \A i \in 1 .. N : f[i] \in Int
  PROVE  \E i \in 1 .. N : \A j \in 1 .. N : f[i] <= f[j]
<1> DEFINE S == {n \in 0 .. N : n # 0 => \E i \in 1 .. n : \A j \in 1 .. n : f[i] <= f[j]}
<1>1. 0 \in S
  OBVIOUS
<1>2. \A n \in 0 .. N - 1 : n \in S => n + 1 \in S
  <2>1. SUFFICES ASSUME NEW n \in 0 .. N - 1, n \in S
                 PROVE  \E i \in 1 .. n + 1 : \A j \in 1 .. n + 1 : f[i] <= f[j]
    OBVIOUS
  <2>2. CASE n = 0
    <3>1. 1 \in 1 .. n + 1 /\ \A j \in 1 .. n + 1 : f[1] <= f[j]
      BY <2>2
    <3>2. QED
      BY <3>1
  <2>3. CASE n # 0
    <3>1. PICK i \in 1 .. n : \A j \in 1 .. n : f[i] <= f[j]
      BY <2>1, <2>3
    <3>2. f[i] \in Int /\ f[n + 1] \in Int /\ \A j \in 1 .. n : f[j] \in Int
      BY <2>1
    <3>3. CASE f[i] <= f[n + 1]
      <4>1. i \in 1 .. n + 1 /\ \A j \in 1 .. n + 1 : f[i] <= f[j]
        BY <2>1, <3>1, <3>2, <3>3
      <4>2. QED
        BY <4>1
    <3>4. CASE f[n + 1] < f[i]
      <4>1. n + 1 \in 1 .. n + 1 /\ \A j \in 1 .. n + 1 : f[n + 1] <= f[j]
        BY <2>1, <3>1, <3>2, <3>4
      <4>2. QED
        BY <4>1
    <3>5. QED
      BY <3>2, <3>3, <3>4
  <2>4. QED
    BY <2>2, <2>3
<1>3. \A n \in 0 .. N : n \in S
  <2> HIDE DEF S
  <2>1. QED
    BY <1>1, <1>2, CountingTo
<1>4. QED
  BY <1>3

LEMMA ChosenIsLowest ==
  ASSUME worker_urls \in Seq([url : Workers, count : Int]), worker_urls # <<>>
  PROVE  /\ Chosen \in DOMAIN worker_urls
         /\ \A j \in DOMAIN worker_urls : worker_urls[Chosen].count <= worker_urls[j].count
<1>1. /\ DOMAIN worker_urls = 1 .. Len(worker_urls) /\ Len(worker_urls) \in Nat \ {0}
      /\ \A i \in DOMAIN worker_urls : worker_urls[i].count \in Int
  <2>1. DOMAIN worker_urls = 1 .. Len(worker_urls) /\ Len(worker_urls) \in Nat \ {0}
    BY EmptySeq, LenProperties
  <2>2. \A i \in 1 .. Len(worker_urls) : worker_urls[i] \in [url : Workers, count : Int]
    BY ElementOfSeq
  <2>3. QED
    BY <2>1, <2>2
<1> DEFINE f == [i \in DOMAIN worker_urls |-> worker_urls[i].count]
           lowest == {i \in DOMAIN worker_urls :
                        \A j \in DOMAIN worker_urls : worker_urls[i].count <= worker_urls[j].count}
<1>2. lowest # {}
  <2>1. \A i \in 1 .. Len(worker_urls) : f[i] = worker_urls[i].count
    BY <1>1
  <2> HIDE DEF f
  <2>2. PICK i \in 1 .. Len(worker_urls) : \A j \in 1 .. Len(worker_urls) : f[i] <= f[j]
    BY <1>1, <2>1, LowestExists
  <2>3. i \in lowest
    BY <1>1, <2>1, <2>2
  <2>4. QED
    BY <2>3
<1>3. lowest \subseteq Nat
  BY <1>1
<1>4. Chosen = Min(lowest)
  BY DEF Chosen
<1>5. Min(lowest) \in lowest
  <2> HIDE DEF lowest
  <2>1. PICK i \in lowest : \A j \in lowest : i <= j
    BY <1>2, <1>3, LeastOf
  <2>2. QED
    BY <2>1 DEF Min
<1>6. QED
  BY <1>4, <1>5
-----------------------------------------------------------------------------
(* The steps keep the types *)

LEMMA IdIs ==
  ASSUME NEW c \in Ids
  PROVE  /\ IsGenerate(c) => c[1] \in {"actor", "local"} /\ c[2] \in Posts /\ c = <<c[1], c[2]>>
         /\ ~IsGenerate(c) => c[2] \in Workers /\ c = <<"remove", c[2]>>
BY DEF Ids, IsGenerate

LEMMA EveryId ==
  /\ \A p \in Posts : \A b \in {"actor", "local"} : <<b, p>> \in Ids /\ IsGenerate(<<b, p>>)
  /\ \A w \in Workers : <<"remove", w>> \in Ids /\ ~IsGenerate(<<"remove", w>>)
BY DEF Ids, IsGenerate

LEMMA NoCallType == NoCall \in Calls /\ NoReply \in Replies
<1>1. <<>> \in Text /\ <<>> \in Seq(Text)
  BY TextIs, EmptySeq
<1>2. NoReply \in Replies
  BY <1>1 DEF NoReply, Replies, Statuses
<1>3. QED
  BY <1>1, <1>2 DEF NoCall, Calls, Places

LEMMA ArrivedType ==
  ASSUME NEW c
  PROVE  Arrived(c) \in Calls /\ Arrived(c).at \in {"arrived", "routing"} /\ Arrived(c).heard
         /\ Arrived(c).reply = NoReply /\ (Caches(c) => Arrived(c).at = "arrived")
BY NoCallType DEF Arrived, NoCall, Calls, Places

LEMMA ReturnedType ==
  ASSUME RouterTypes, NEW c \in Ids, NEW status \in Statuses, NEW tokens \in Seq(Text)
  PROVE  /\ Returned(c, status, tokens) \in Calls /\ Returned(c, status, tokens).at = "returned"
         /\ Returned(c, status, tokens).url = call[c].url
         /\ Returned(c, status, tokens).heard = call[c].heard
         /\ Returned(c, status, tokens).input = call[c].input
         /\ Returned(c, status, tokens).reply.text = Spelled(tokens)
         /\ Returned(c, status, tokens).reply.tokens = tokens
<1>1. call[c] \in Calls /\ Spelled(tokens) \in Text
  BY SpelledType DEF RouterTypes
<1>2. [status |-> status, text |-> Spelled(tokens), tokens |-> tokens] \in Replies
  BY <1>1 DEF Replies
<1>3. QED
  BY <1>1, <1>2 DEF Returned, Calls, Places

LEMMA RetriedType ==
  ASSUME NEW old \in PostStates
  PROVE  /\ Retried(old) \in PostStates /\ Retried(old).state \in {"ready", "failed"}
         /\ Retried(old).by \in {old.by, "local"}
<1>1. MaxRetries \in Nat
  BY RouterAssumption
<1>2. old.retry_count \in Nat /\ old.by \in {"actor", "local"}
  BY DEF PostStates
<1>3. CASE old.retry_count + 1 < MaxRetries
  <2>1. Retried(old) = [old EXCEPT !.state = "ready", !.retry_count = @ + 1]
    BY <1>1, <1>2, <1>3 DEF Retried
  <2>2. Retried(old) = [state |-> "ready", retry_count |-> old.retry_count + 1, by |-> old.by]
    BY <2>1 DEF PostStates
  <2>3. QED
    BY <1>2, <2>2 DEF PostStates
<1>4. CASE old.retry_count + 1 >= MaxRetries /\ old.by = "actor"
  <2>1. Retried(old) = FallenBack
    <3>1. ~(old.retry_count + 1 < MaxRetries) /\ old.by # "local"
      BY <1>1, <1>2, <1>4
    <3>2. QED
      BY <1>4, <3>1, Zenon DEF Retried
  <2>2. FallenBack \in PostStates /\ FallenBack.state = "ready" /\ FallenBack.by = "local"
    BY DEF PostStates, FallenBack
  <2>3. QED
    BY <2>1, <2>2
<1>5. CASE old.retry_count + 1 >= MaxRetries /\ old.by = "local"
  <2>1. Retried(old) = [old EXCEPT !.state = "failed"]
    BY <1>1, <1>2, <1>5 DEF Retried
  <2>2. QED
    BY <2>1 DEF PostStates
<1>6. QED
  BY <1>1, <1>2, <1>3, <1>4, <1>5

LEMMA AfterReplyType ==
  ASSUME NEW old \in PostStates, NEW reply
  PROVE  /\ AfterReply(old, reply) \in PostStates /\ AfterReply(old, reply).state # "waiting"
         /\ AfterReply(old, reply).by \in {old.by, "local"}
<1>1. CASE reply.status \in {"stop", "abort"}
  BY <1>1 DEF AfterReply, PostStates
<1>2. CASE reply.status \notin {"stop", "abort"}
  BY <1>2, RetriedType DEF AfterReply
<1>3. QED
  BY <1>1, <1>2

\* One field of a request changes.
LEMMA SetAt ==
  ASSUME NEW r \in Calls, NEW v \in Places
  PROVE  /\ [r EXCEPT !.at = v] \in Calls /\ [r EXCEPT !.at = v].at = v
         /\ [r EXCEPT !.at = v].url = r.url
         /\ [r EXCEPT !.at = v].tries = r.tries
         /\ [r EXCEPT !.at = v].input = r.input
         /\ [r EXCEPT !.at = v].reply = r.reply
         /\ [r EXCEPT !.at = v].heard = r.heard
BY DEF Calls

LEMMA SetUrl ==
  ASSUME NEW r \in Calls, NEW v \in Workers \cup {0}
  PROVE  /\ [r EXCEPT !.url = v] \in Calls /\ [r EXCEPT !.url = v].url = v
         /\ [r EXCEPT !.url = v].at = r.at
         /\ [r EXCEPT !.url = v].tries = r.tries
         /\ [r EXCEPT !.url = v].input = r.input
         /\ [r EXCEPT !.url = v].reply = r.reply
         /\ [r EXCEPT !.url = v].heard = r.heard
BY DEF Calls

LEMMA SetTries ==
  ASSUME NEW r \in Calls, NEW v \in Nat
  PROVE  /\ [r EXCEPT !.tries = v] \in Calls /\ [r EXCEPT !.tries = v].tries = v
         /\ [r EXCEPT !.tries = v].at = r.at
         /\ [r EXCEPT !.tries = v].url = r.url
         /\ [r EXCEPT !.tries = v].input = r.input
         /\ [r EXCEPT !.tries = v].reply = r.reply
         /\ [r EXCEPT !.tries = v].heard = r.heard
BY DEF Calls

LEMMA SetInput ==
  ASSUME NEW r \in Calls, NEW v \in Seq(Text)
  PROVE  /\ [r EXCEPT !.input = v] \in Calls /\ [r EXCEPT !.input = v].input = v
         /\ [r EXCEPT !.input = v].at = r.at
         /\ [r EXCEPT !.input = v].url = r.url
         /\ [r EXCEPT !.input = v].tries = r.tries
         /\ [r EXCEPT !.input = v].reply = r.reply
         /\ [r EXCEPT !.input = v].heard = r.heard
BY DEF Calls

LEMMA SetReply ==
  ASSUME NEW r \in Calls, NEW v \in Replies
  PROVE  /\ [r EXCEPT !.reply = v] \in Calls /\ [r EXCEPT !.reply = v].reply = v
         /\ [r EXCEPT !.reply = v].at = r.at
         /\ [r EXCEPT !.reply = v].url = r.url
         /\ [r EXCEPT !.reply = v].tries = r.tries
         /\ [r EXCEPT !.reply = v].input = r.input
         /\ [r EXCEPT !.reply = v].heard = r.heard
BY DEF Calls

LEMMA SetHeard ==
  ASSUME NEW r \in Calls, NEW v \in BOOLEAN
  PROVE  /\ [r EXCEPT !.heard = v] \in Calls /\ [r EXCEPT !.heard = v].heard = v
         /\ [r EXCEPT !.heard = v].at = r.at
         /\ [r EXCEPT !.heard = v].url = r.url
         /\ [r EXCEPT !.heard = v].tries = r.tries
         /\ [r EXCEPT !.heard = v].input = r.input
         /\ [r EXCEPT !.heard = v].reply = r.reply
BY DEF Calls

\* A request that moves leaves the others where they are.
Moves(c) == call' \in [Ids -> Calls] /\ \A d \in Ids \ {c} : call'[d] = call[d]

LEMMA MovesTo ==
  ASSUME RouterTypes, NEW c \in Ids, NEW to \in Calls, call' = [call EXCEPT ![c] = to]
  PROVE  Moves(c) /\ call'[c] = to
BY DEF RouterTypes, Moves

LEMMA AnswerMoves ==
  ASSUME RouterTypes, NEW c \in Ids, Answer(c)
  PROVE  Moves(c) /\ call'[c] = NoCall /\ post' \in [Posts -> PostStates]
         /\ shutdown' \in [Workers -> {"no", "asked", "over"}]
<1>1. Moves(c) /\ call'[c] = NoCall
  BY MovesTo, NoCallType DEF Answer
<1>2. post' \in [Posts -> PostStates]
  <2>1. CASE IsGenerate(c) /\ call[c].heard
    <3>1. c[2] \in Posts /\ post[c[2]] \in PostStates
      BY <2>1, IdIs DEF RouterTypes
    <3>2. AfterReply(post[c[2]], call[c].reply) \in PostStates
      BY <3>1, AfterReplyType
    <3>3. post' = [post EXCEPT ![c[2]] = AfterReply(post[c[2]], call[c].reply)]
      BY <2>1 DEF Answer
    <3>4. QED
      BY <3>2, <3>3 DEF RouterTypes
  <2>2. CASE ~(IsGenerate(c) /\ call[c].heard)
    BY <2>2 DEF Answer, RouterTypes
  <2>3. QED
    BY <2>1, <2>2
<1>3. shutdown' \in [Workers -> {"no", "asked", "over"}]
  BY DEF Answer, RouterTypes
<1>4. QED
  BY <1>1, <1>2, <1>3

LEMMA SendMoves ==
  ASSUME RouterTypes, NEW p \in Posts, Send(p)
  PROVE  LET c == <<post[p].by, p>> IN
         c \in Ids /\ IsGenerate(c) /\ Moves(c) /\ call'[c] = Arrived(c)
<1>1. post[p].by \in {"actor", "local"}
  BY DEF RouterTypes, PostStates
<1>2. <<post[p].by, p>> \in Ids /\ IsGenerate(<<post[p].by, p>>)
  BY <1>1, EveryId
<1>3. QED
  BY <1>2, MovesTo, ArrivedType DEF Send

LEMMA DispatchMoves ==
  ASSUME RouterTypes, NEW c \in Ids, Dispatch(c), At(c, "arrived") => Caches(c)
  PROVE  /\ Moves(c)
         /\ \/ /\ Retrieve(c) /\ call'[c].at = "routing" /\ call'[c].heard = call[c].heard
               /\ call'[c].reply = call[c].reply
               /\ \E path \in DOMAIN trie :
                    /\ last_node(trie, Prompt[c[2]], path)
                    /\ call'[c].input = Retrieved(trie, path, Prompt[c[2]])
                    /\ trie' = AfterRetrieval(trie, path, Prompt[c[2]])
            \/ Gone(c) /\ call'[c] = NoCall /\ UNCHANGED <<trie, inserted>>
<1>1. CASE Retrieve(c)
  <2>1. PICK path \in DOMAIN trie :
          /\ last_node(trie, Prompt[c[2]], path)
          /\ call' = [call EXCEPT ![c].at = "routing", ![c].tries = 1,
                                  ![c].input = Retrieved(trie, path, Prompt[c[2]])]
          /\ trie' = AfterRetrieval(trie, path, Prompt[c[2]])
    BY <1>1 DEF Retrieve
  <2>2. c[2] \in Posts /\ Prompt[c[2]] \in Text
    BY IdIs, RouterAssumption DEF Dispatch, Caches
  <2>3. Retrieved(trie, path, Prompt[c[2]]) \in Seq(Text)
    BY <2>2, RetrievedType DEF RouterTypes
  <2> DEFINE routed == [call[c] EXCEPT !.at = "routing"]
             tried == [routed EXCEPT !.tries = 1]
             to == [tried EXCEPT !.input = Retrieved(trie, path, Prompt[c[2]])]
  <2>3a. /\ to \in Calls /\ to.at = "routing" /\ to.reply = call[c].reply /\ to.heard = call[c].heard
         /\ to.input = Retrieved(trie, path, Prompt[c[2]])
    <3>1. call[c] \in Calls
      BY DEF RouterTypes
    <3>2. /\ routed \in Calls /\ routed.at = "routing" /\ routed.reply = call[c].reply
          /\ routed.heard = call[c].heard
      BY <3>1, SetAt DEF Places
    <3> HIDE DEF routed
    <3>3. /\ tried \in Calls /\ tried.at = routed.at /\ tried.reply = routed.reply
          /\ tried.heard = routed.heard
      BY <3>2, SetTries
    <3> HIDE DEF tried
    <3>4. /\ to \in Calls /\ to.at = tried.at /\ to.reply = tried.reply
          /\ to.heard = tried.heard /\ to.input = Retrieved(trie, path, Prompt[c[2]])
      BY <2>3, <3>3, SetInput
    <3>5. QED
      BY <3>2, <3>3, <3>4
  <2>4. call' = [call EXCEPT ![c] = to]
    BY <2>1 DEF RouterTypes
  <2>5. Moves(c) /\ call'[c] = to
    <3> HIDE DEF to
    <3>1. QED
      BY <2>3a, <2>4, MovesTo
  <2>6. QED
    <3> HIDE DEF to
    <3>1. QED
      BY <1>1, <2>1, <2>3a, <2>5
<1>2. CASE Gone(c) /\ call' = [call EXCEPT ![c] = NoCall] /\ UNCHANGED <<trie, inserted>>
  BY <1>2, MovesTo, NoCallType
<1>3. QED
  BY <1>1, <1>2 DEF Dispatch

LEMMA UseUrlMoves ==
  ASSUME RouterTypes, NEW c \in Ids, UseUrl(c)
  PROVE  /\ Moves(c) /\ call'[c].heard = call[c].heard /\ call'[c].input = call[c].input
         /\ call'[c].reply.text = call[c].reply.text /\ call'[c].reply.tokens = call[c].reply.tokens
         /\ \/ worker_urls = <<>> /\ call'[c].at = "replied"
            \/ /\ worker_urls # <<>> /\ call'[c].at \in {"body", "proxied"}
               /\ call'[c].url = worker_urls[Chosen].url
<1>1. call[c] \in Calls
  BY DEF RouterTypes
<1>2. CASE worker_urls = <<>>
  <2> DEFINE at == [call[c] EXCEPT !.at = "replied"]
             reply == [at.reply EXCEPT !.status = "error"]
             to == [at EXCEPT !.reply = reply]
  <2>1. /\ at \in Calls /\ at.at = "replied" /\ at.reply = call[c].reply
        /\ at.heard = call[c].heard /\ at.input = call[c].input
    BY <1>1, SetAt DEF Places
  <2>2. call' = [call EXCEPT ![c] = to]
    BY <1>2 DEF RouterTypes, UseUrl
  <2> HIDE DEF at
  <2>3. reply \in Replies /\ reply.text = at.reply.text /\ reply.tokens = at.reply.tokens
    <3>1. at.reply \in Replies
      BY <2>1 DEF Calls
    <3>2. QED
      BY <3>1 DEF Replies, Statuses
  <2> HIDE DEF reply
  <2>4. /\ to \in Calls /\ to.at = at.at /\ to.heard = at.heard /\ to.input = at.input
        /\ to.reply = reply
    BY <2>1, <2>3, SetReply
  <2> HIDE DEF to
  <2>5. Moves(c) /\ call'[c] = to
    BY <2>2, <2>4, MovesTo
  <2>6. QED
    BY <1>2, <2>1, <2>3, <2>4, <2>5
<1>3. CASE worker_urls # <<>>
  <2>0. PICK place : place = IF Caches(c) THEN "proxied" ELSE "body"
    OBVIOUS
  <2>1. place \in {"body", "proxied"} /\ place \in Places
    BY <2>0 DEF Places
  <2> DEFINE at == [call[c] EXCEPT !.at = place]
             to == [at EXCEPT !.url = worker_urls[Chosen].url]
  <2>2. call' = [call EXCEPT ![c] = to]
    BY <1>3, <2>0 DEF RouterTypes, UseUrl
  <2>3. /\ at \in Calls /\ at.at = place /\ at.reply = call[c].reply
        /\ at.heard = call[c].heard /\ at.input = call[c].input
    BY <1>1, <2>1, SetAt
  <2> HIDE DEF at
  <2>4. worker_urls[Chosen].url \in Workers \cup {0}
    <3>1. Chosen \in DOMAIN worker_urls
      BY <1>3, ChosenIsLowest DEF RouterTypes
    <3>2. worker_urls[Chosen] \in [url : Workers, count : Int]
      <4>1. worker_urls \in Seq([url : Workers, count : Int])
        BY DEF RouterTypes
      <4>2. Chosen \in 1 .. Len(worker_urls)
        BY <3>1, <4>1, LenProperties
      <4>3. QED
        BY <4>1, <4>2, ElementOfSeq
    <3>3. QED
      BY <3>2
  <2>5. /\ to \in Calls /\ to.at = at.at /\ to.heard = at.heard /\ to.input = at.input
        /\ to.reply = at.reply /\ to.url = worker_urls[Chosen].url
    BY <2>3, <2>4, SetUrl
  <2> HIDE DEF to
  <2>6. Moves(c) /\ call'[c] = to
    BY <2>2, <2>5, MovesTo
  <2>7. QED
    BY <1>3, <2>1, <2>3, <2>5, <2>6
<1>4. QED
  BY <1>2, <1>3

LEMMA ReadBodyMoves ==
  ASSUME RouterTypes, NEW c \in Ids, ReadBody(c)
  PROVE  /\ Moves(c)
         /\ \/ /\ call'[c].at = "proxied" /\ call'[c].heard = call[c].heard /\ call'[c].url = call[c].url
               /\ call'[c].input = call[c].input /\ call'[c].reply = call[c].reply /\ UNCHANGED left
            \/ Gone(c) /\ call'[c] = NoCall /\ left' = [left EXCEPT ![call[c].url] = @ + 1]
<1>1. CASE call' = [call EXCEPT ![c].at = "proxied"] /\ UNCHANGED left
  <2> DEFINE to == [call[c] EXCEPT !.at = "proxied"]
  <2>1. call' = [call EXCEPT ![c] = to] /\ call[c] \in Calls
    BY <1>1 DEF RouterTypes
  <2>2. /\ to \in Calls /\ to.at = "proxied" /\ to.heard = call[c].heard /\ to.url = call[c].url
        /\ to.input = call[c].input /\ to.reply = call[c].reply
    BY <2>1, SetAt DEF Places
  <2> HIDE DEF to
  <2>3. Moves(c) /\ call'[c] = to
    BY <2>1, <2>2, MovesTo
  <2>4. QED
    BY <1>1, <2>2, <2>3
<1>2. CASE Gone(c) /\ call' = [call EXCEPT ![c] = NoCall]
           /\ left' = [left EXCEPT ![call[c].url] = @ + 1]
  BY <1>2, MovesTo, NoCallType
<1>3. QED
  BY <1>1, <1>2 DEF ReadBody

LEMMA FinishUrlMoves ==
  ASSUME RouterTypes, NEW c \in Ids, FinishUrl(c)
  PROVE  /\ Moves(c)
         /\ \/ /\ call'[c].at = "replied" /\ call'[c].heard = call[c].heard
               /\ call'[c].input = call[c].input /\ call'[c].reply = call[c].reply
               /\ UNCHANGED <<post, shutdown>>
            \/ Answer(c)
<1>1. CASE Answer(c)
  BY <1>1, AnswerMoves
<1>2. CASE call' = [call EXCEPT ![c].at = "replied"] /\ UNCHANGED <<post, shutdown>>
  <2> DEFINE to == [call[c] EXCEPT !.at = "replied"]
  <2>1. call' = [call EXCEPT ![c] = to] /\ call[c] \in Calls
    BY <1>2 DEF RouterTypes
  <2>2. /\ to \in Calls /\ to.at = "replied" /\ to.heard = call[c].heard
        /\ to.input = call[c].input /\ to.reply = call[c].reply
    BY <2>1, SetAt DEF Places
  <2> HIDE DEF to
  <2>3. Moves(c) /\ call'[c] = to
    BY <2>1, <2>2, MovesTo
  <2>4. QED
    BY <1>2, <2>2, <2>3
<1>3. QED
  BY <1>1, <1>2 DEF FinishUrl

LEMMA WakeMoves ==
  ASSUME RouterTypes, NEW c \in Ids, Wake(c)
  PROVE  /\ Moves(c)
         /\ \/ /\ call'[c].at = "routing" /\ call'[c].heard = call[c].heard
               /\ call'[c].input = call[c].input /\ call'[c].reply = NoReply
               /\ UNCHANGED <<post, trie, inserted, shutdown>>
            \/ Answer(c) /\ (Keep(c) \/ UNCHANGED <<trie, inserted>>)
<1>1. CASE call[c].tries < MaxTries
  <2> DEFINE at == [call[c] EXCEPT !.at = "routing"]
             tried == [at EXCEPT !.tries = at.tries + 1]
             to == [tried EXCEPT !.reply = NoReply]
  <2>1. call[c] \in Calls /\ UNCHANGED <<post, trie, inserted, shutdown>>
    BY <1>1 DEF RouterTypes, Wake
  <2>2. call' = [call EXCEPT ![c] = to]
    <3>1. at.tries = call[c].tries
      BY <2>1 DEF Calls
    <3>2. call' = [call EXCEPT ![c] = [[[call[c] EXCEPT !.at = "routing"]
                      EXCEPT !.tries = call[c].tries + 1] EXCEPT !.reply = NoReply]]
      BY <1>1 DEF RouterTypes, Wake
    <3>3. QED
      BY <3>1, <3>2
  <2>3. /\ at \in Calls /\ at.at = "routing" /\ at.heard = call[c].heard /\ at.input = call[c].input
    BY <2>1, SetAt DEF Places
  <2> HIDE DEF at
  <2>4. /\ tried \in Calls /\ tried.at = at.at /\ tried.heard = at.heard /\ tried.input = at.input
    <3>1. at.tries + 1 \in Nat
      BY <2>3 DEF Calls
    <3>2. QED
      BY <2>3, <3>1, SetTries
  <2> HIDE DEF tried
  <2>5. /\ to \in Calls /\ to.at = tried.at /\ to.heard = tried.heard /\ to.input = tried.input
        /\ to.reply = NoReply
    BY <2>4, NoCallType, SetReply
  <2> HIDE DEF to
  <2>6. Moves(c) /\ call'[c] = to
    BY <2>2, <2>5, MovesTo
  <2>7. QED
    BY <2>1, <2>3, <2>4, <2>5, <2>6
<1>2. CASE ~(call[c].tries < MaxTries)
  BY <1>2, AnswerMoves DEF Wake
<1>3. QED
  BY <1>1, <1>2

LEMMA ServingMoves ==
  ASSUME RouterTypes, NEW c \in Ids, Serving(c)
  PROVE  /\ Moves(c) /\ At(c, "proxied") /\ call'[c].at = "returned"
         /\ call'[c].url = call[c].url /\ call'[c].heard = call[c].heard
         /\ call'[c].input = call[c].input
         /\ call'[c].reply.text = Spelled(call'[c].reply.tokens)
<1>1. \E status \in Statuses, tokens \in Seq(Text) :
        call' = [call EXCEPT ![c] = Returned(c, status, tokens)]
  <2>1. CASE /\ IsGenerate(c)
             /\ \E tokens \in Outputs[c[2]] : call' = [call EXCEPT ![c] = Returned(c, "stop", tokens)]
    <3>1. PICK tokens \in Outputs[c[2]] : call' = [call EXCEPT ![c] = Returned(c, "stop", tokens)]
      BY <2>1
    <3>2. tokens \in Seq(Text) /\ "stop" \in Statuses
      BY <2>1, IdIs, RouterAssumption DEF Statuses
    <3>3. QED
      BY <3>1, <3>2
  <2>2. CASE call' = [call EXCEPT ![c] = Returned(c, "rejected", <<>>)]
    <3>1. <<>> \in Seq(Text) /\ "rejected" \in Statuses
      BY EmptySeq DEF Statuses
    <3>2. QED
      BY <2>2, <3>1
  <2>3. CASE Refuse(c)
    <3>1. <<>> \in Seq(Text) /\ "error" \in Statuses
      BY EmptySeq DEF Statuses
    <3>2. QED
      BY <2>3, <3>1 DEF Refuse
  <2>4. QED
    BY <2>1, <2>2, <2>3 DEF Serving, Serve
<1>2. PICK status \in Statuses, tokens \in Seq(Text) :
        call' = [call EXCEPT ![c] = Returned(c, status, tokens)]
  BY <1>1
<1>3. Moves(c) /\ call'[c] = Returned(c, status, tokens)
  BY <1>2, MovesTo, ReturnedType
<1>4. At(c, "proxied")
  BY DEF Serving, Serve, Refuse
<1>5. QED
  BY <1>3, <1>4, ReturnedType

LEMMA AbortMoves ==
  ASSUME RouterTypes, NEW w \in Workers, Abort(w)
  PROVE  /\ call' \in [Ids -> Calls]
         /\ \A c \in Ids :
              \/ call'[c] = call[c]
              \/ /\ At(c, "proxied") /\ call'[c].at = "returned"
                 /\ call'[c].url = call[c].url /\ call'[c].heard = call[c].heard
                 /\ call'[c].input = call[c].input
                 /\ call'[c].reply.text = Spelled(call'[c].reply.tokens)
<1>1. PICK length \in {0, 1} :
        call' = [c \in Ids |->
          IF IsGenerate(c) /\ At(c, "proxied") /\ call[c].url = w
          THEN Returned(c, "abort", SubSeq(CHOOSE tokens \in Outputs[c[2]] : TRUE, 1, length))
          ELSE call[c]]
  BY DEF Abort
<1>2. ASSUME NEW c \in Ids, IsGenerate(c)
      PROVE  SubSeq(CHOOSE tokens \in Outputs[c[2]] : TRUE, 1, length) \in Seq(Text)
  <2>1. PICK s : s = CHOOSE tokens \in Outputs[c[2]] : TRUE
    OBVIOUS
  <2>2. s \in Seq(Text) /\ s # <<>>
    BY <1>2, <2>1, IdIs, RouterAssumption
  <2>3. Len(s) \in Nat \ {0} /\ \A i \in 1 .. Len(s) : s[i] \in Text
    BY <2>2, EmptySeq, ElementOfSeq
  <2>4. \A i \in 1 .. length : s[i] \in Text
    BY <1>1, <2>3
  <2>5. QED
    BY <2>1, <2>4, SubSeqProperties
<1>3. ASSUME NEW c \in Ids
      PROVE  /\ call'[c] \in Calls
             /\ \/ call'[c] = call[c]
                \/ /\ At(c, "proxied") /\ call'[c].at = "returned"
                   /\ call'[c].url = call[c].url /\ call'[c].heard = call[c].heard
                   /\ call'[c].input = call[c].input
                   /\ call'[c].reply.text = Spelled(call'[c].reply.tokens)
  <2>1. CASE IsGenerate(c) /\ At(c, "proxied") /\ call[c].url = w
    <3>1. PICK s \in Seq(Text) : s = SubSeq(CHOOSE tokens \in Outputs[c[2]] : TRUE, 1, length)
      BY <1>2, <2>1
    <3>2. call'[c] = Returned(c, "abort", s)
      BY <1>1, <2>1, <3>1
    <3>3. "abort" \in Statuses
      BY DEF Statuses
    <3>4. QED
      BY <2>1, <3>2, <3>3, ReturnedType
  <2>2. CASE ~(IsGenerate(c) /\ At(c, "proxied") /\ call[c].url = w)
    BY <1>1, <2>2 DEF RouterTypes
  <2>3. QED
    BY <2>1, <2>2
<1>4. call' \in [Ids -> Calls]
  BY <1>1, <1>3
<1>5. QED
  BY <1>3, <1>4

LEMMA ShutdownMoves ==
  ASSUME RouterTypes, NEW w \in Workers, Shutdown(w)
  PROVE  Moves(<<"remove", w>>) /\ call'[<<"remove", w>>] = Arrived(<<"remove", w>>)
BY EveryId, MovesTo, ArrivedType DEF Shutdown

LEMMA PosterDiesMoves ==
  ASSUME RouterTypes, NEW p \in Posts, PosterDies(p)
  PROVE  LET c == <<"actor", p>> IN
         /\ c \in Ids /\ IsGenerate(c) /\ Moves(c) /\ call'[c].heard = FALSE
         /\ call'[c].at = call[c].at /\ call'[c].url = call[c].url
         /\ call'[c].input = call[c].input /\ call'[c].reply = call[c].reply
<1> DEFINE c == <<"actor", p>>
           to == [call[c] EXCEPT !.heard = FALSE]
<1>1. c \in Ids /\ IsGenerate(c)
  BY EveryId
<1>2. call' = [call EXCEPT ![c] = to] /\ call[c] \in Calls
  BY <1>1 DEF RouterTypes, PosterDies
<1> HIDE DEF c
<1>3. /\ to \in Calls /\ to.heard = FALSE /\ to.at = call[c].at /\ to.url = call[c].url
      /\ to.input = call[c].input /\ to.reply = call[c].reply
  BY <1>2, SetHeard
<1> HIDE DEF to
<1>4. Moves(c) /\ call'[c] = to
  BY <1>1, <1>2, <1>3, MovesTo
<1>5. QED
  BY <1>1, <1>3, <1>4 DEF c

LEMMA KeepTypes ==
  ASSUME RouterTypes, NEW c \in Ids, IsGenerate(c), Keep(c)
  PROVE  Shape(trie)' /\ (inserted \subseteq Told)'
<1>1. PICK path \in DOMAIN trie :
        trie' = insert(trie, path, Prompt[c[2]] \o call[c].reply.text,
                       call[c].input \o call[c].reply.tokens)
  BY DEF Keep
<1>2. /\ Prompt[c[2]] \in Text /\ call[c].reply.text \in Text
      /\ call[c].input \in Seq(Text) /\ call[c].reply.tokens \in Seq(Text)
  <2>1. call[c] \in Calls
    BY DEF RouterTypes
  <2>2. call[c].input \in Seq(Text) /\ call[c].reply \in Replies
    BY <2>1 DEF Calls
  <2>3. call[c].reply.text \in Text /\ call[c].reply.tokens \in Seq(Text)
    BY <2>2 DEF Replies
  <2>4. QED
    BY <2>2, <2>3, IdIs, RouterAssumption
<1>3. /\ Prompt[c[2]] \o call[c].reply.text \in Text
      /\ call[c].input \o call[c].reply.tokens \in Seq(Text)
  BY <1>2, TextIs, ConcatProperties
<1>4. Shape(trie')
  BY <1>1, <1>3, InsertShape DEF RouterTypes
<1>5. inserted' = inserted \cup {[text |-> Prompt[c[2]] \o call[c].reply.text,
                                 tokens |-> call[c].input \o call[c].reply.tokens]}
  BY DEF Keep
<1>6. inserted' \subseteq Told
  <2>1. [text |-> Prompt[c[2]] \o call[c].reply.text,
         tokens |-> call[c].input \o call[c].reply.tokens] \in Told
    BY <1>3 DEF Told
  <2>2. QED
    BY <1>5, <2>1 DEF RouterTypes
<1>7. QED
  BY <1>4, <1>6

LEMMA RetrieveTypes ==
  ASSUME RouterTypes, NEW c \in Ids, IsGenerate(c), Retrieve(c)
  PROVE  Shape(trie)' /\ (inserted \subseteq Told)'
<1>1. PICK path \in DOMAIN trie : trie' = AfterRetrieval(trie, path, Prompt[c[2]])
  BY DEF Retrieve
<1>2. Prompt[c[2]] \in Text /\ tokenizer(Prompt[c[2]]) \in Seq(Text)
  BY IdIs, RouterAssumption, TokenizerSpells
<1>3. Shape(insert(trie, path, Prompt[c[2]], tokenizer(Prompt[c[2]])))
  BY <1>2, InsertShape DEF RouterTypes
<1>4. Shape(trie')
  BY <1>1, <1>3 DEF AfterRetrieval, RouterTypes
<1>5. inserted' \subseteq inserted \cup {[text |-> Prompt[c[2]], tokens |-> tokenizer(Prompt[c[2]])]}
  BY DEF Retrieve
<1>6. inserted' \subseteq Told
  BY <1>2, <1>5 DEF RouterTypes, Told
<1>7. QED
  BY <1>4, <1>6

LEMMA SendTypes == \A p \in Posts : RouterTypes /\ Send(p) => RouterTypes'
<1>1. SUFFICES ASSUME NEW p \in Posts, RouterTypes, Send(p) PROVE RouterTypes'
  OBVIOUS
<1>2. call' \in [Ids -> Calls]
  BY <1>1, SendMoves DEF Moves
<1>3. post' \in [Posts -> PostStates]
  <2>1. post[p] \in PostStates
    BY <1>1 DEF RouterTypes
  <2>2. [post[p] EXCEPT !.state = "waiting"] \in PostStates
    BY <2>1 DEF PostStates
  <2>3. QED
    BY <1>1, <2>2 DEF RouterTypes, Send
<1>4. QED
  BY <1>1, <1>2, <1>3 DEF RouterTypes, Send, routerVars

LEMMA PosterDiesTypes == \A p \in Posts : RouterTypes /\ PosterDies(p) => RouterTypes'
<1>1. SUFFICES ASSUME NEW p \in Posts, RouterTypes, PosterDies(p) PROVE RouterTypes'
  OBVIOUS
<1>2. call' \in [Ids -> Calls]
  BY <1>1, PosterDiesMoves DEF Moves
<1>3. FallenBack \in PostStates
  BY DEF FallenBack, PostStates
<1>4. post' \in [Posts -> PostStates]
  BY <1>1, <1>3 DEF RouterTypes, PosterDies
<1>5. QED
  BY <1>1, <1>2, <1>4 DEF RouterTypes, PosterDies, routerVars

LEMMA AddWorkerTypes == \A w \in Workers : RouterTypes /\ AddWorker(w) => RouterTypes'
<1>1. SUFFICES ASSUME NEW w \in Workers, RouterTypes, AddWorker(w) PROVE RouterTypes'
  OBVIOUS
<1>2. [url |-> w, count |-> 0] \in [url : Workers, count : Int]
  OBVIOUS
<1>3. worker_urls' \in Seq([url : Workers, count : Int])
  BY <1>1, <1>2, AppendProperties DEF AddWorker, RouterTypes
<1>4. QED
  BY <1>1, <1>3 DEF RouterTypes, AddWorker

LEMMA DispatchTypes ==
  \A c \in Ids : RouterTypes /\ OneRequest /\ Dispatch(c) => RouterTypes'
<1>1. SUFFICES ASSUME NEW c \in Ids, RouterTypes, OneRequest, Dispatch(c) PROVE RouterTypes'
  OBVIOUS
<1>2. IsGenerate(c) /\ (At(c, "arrived") => Caches(c))
  BY <1>1 DEF OneRequest, Dispatch, Caches
<1>3. call' \in [Ids -> Calls]
  BY <1>1, <1>2, DispatchMoves DEF Moves
<1>4. Shape(trie)' /\ (inserted \subseteq Told)'
  <2>1. CASE Retrieve(c)
    BY <1>1, <1>2, <2>1, RetrieveTypes
  <2>2. CASE UNCHANGED <<trie, inserted>>
    BY <1>1, <2>2 DEF RouterTypes, Shape
  <2>3. QED
    BY <1>1, <2>1, <2>2 DEF Dispatch
<1>5. QED
  BY <1>1, <1>3, <1>4 DEF RouterTypes, Dispatch

LEMMA UrlsTyped ==
  ASSUME NEW S, NEW urls \in Seq([url : S, count : Int]), NEW i \in DOMAIN urls
  PROVE  [urls EXCEPT ![i].count = @ + 1] \in Seq([url : S, count : Int])
<1>1. i \in 1 .. Len(urls)
  BY LenProperties
<1>2. urls[i] \in [url : S, count : Int]
  BY <1>1, ElementOfSeq
<1>3. [urls[i] EXCEPT !.count = @ + 1] \in [url : S, count : Int]
  BY <1>2
<1>4. [urls EXCEPT ![i] = [urls[i] EXCEPT !.count = @ + 1]] \in Seq([url : S, count : Int])
  BY <1>1, <1>3, ExceptSeq
<1>5. QED
  BY <1>1, <1>4

LEMMA UseUrlTypes == \A c \in Ids : RouterTypes /\ UseUrl(c) => RouterTypes'
<1>1. SUFFICES ASSUME NEW c \in Ids, RouterTypes, UseUrl(c) PROVE RouterTypes'
  OBVIOUS
<1>2. call' \in [Ids -> Calls]
  BY <1>1, UseUrlMoves DEF Moves
<1>3. worker_urls' \in Seq([url : Workers, count : Int])
  <2>1. CASE worker_urls = <<>>
    BY <1>1, <2>1 DEF UseUrl, RouterTypes
  <2>2. CASE worker_urls # <<>>
    <3>1. worker_urls \in Seq([url : Workers, count : Int]) /\ Chosen \in DOMAIN worker_urls
      BY <1>1, <2>2, ChosenIsLowest DEF RouterTypes
    <3>2. worker_urls' = [worker_urls EXCEPT ![Chosen].count = @ + 1]
      BY <1>1, <2>2 DEF UseUrl
    <3>3. QED
      BY <3>1, <3>2, UrlsTyped
  <2>3. QED
    BY <2>1, <2>2
<1>4. QED
  BY <1>1, <1>2, <1>3 DEF RouterTypes, UseUrl

LEMMA FinishedType ==
  ASSUME NEW urls \in Seq([url : Workers, count : Int]), NEW url, NEW reply
  PROVE  /\ Finished(urls, url, reply) \in Seq([url : Workers, count : Int])
         /\ DOMAIN Finished(urls, url, reply) = DOMAIN urls
         /\ \A i \in DOMAIN urls :
              /\ Finished(urls, url, reply)[i].url = urls[i].url
              /\ Finished(urls, url, reply)[i].count
                   = IF urls[i].url = url THEN urls[i].count - 1 ELSE urls[i].count
<1>1. DOMAIN urls = 1 .. Len(urls) /\ Len(urls) \in Nat
  BY LenProperties
<1>2. \A i \in 1 .. Len(urls) : urls[i] \in [url : Workers, count : Int]
  BY ElementOfSeq
<1>3. /\ DOMAIN Finished(urls, url, reply) = 1 .. Len(urls)
      /\ \A i \in 1 .. Len(urls) :
           Finished(urls, url, reply)[i]
             = IF urls[i].url = url THEN [urls[i] EXCEPT !.count = @ - 1] ELSE urls[i]
  BY <1>1 DEF Finished
<1>4. \A i \in 1 .. Len(urls) :
        /\ Finished(urls, url, reply)[i] \in [url : Workers, count : Int]
        /\ Finished(urls, url, reply)[i].url = urls[i].url
        /\ Finished(urls, url, reply)[i].count
             = IF urls[i].url = url THEN urls[i].count - 1 ELSE urls[i].count
  BY <1>2, <1>3
<1>5. Finished(urls, url, reply) \in [1 .. Len(urls) -> [url : Workers, count : Int]]
  BY <1>1, <1>4 DEF Finished
<1>6. Finished(urls, url, reply) \in Seq([url : Workers, count : Int])
  BY <1>1, <1>5, FunctionSeq
<1>7. QED
  BY <1>1, <1>3, <1>4, <1>6

LEMMA ReadBodyTypes == \A c \in Ids : RouterTypes /\ ReadBody(c) => RouterTypes'
<1>1. SUFFICES ASSUME NEW c \in Ids, RouterTypes, ReadBody(c) PROVE RouterTypes'
  OBVIOUS
<1>2. call' \in [Ids -> Calls]
  BY <1>1, ReadBodyMoves DEF Moves
<1>3. left' \in [Workers -> Nat]
  <2>1. CASE UNCHANGED left
    BY <1>1, <2>1 DEF RouterTypes
  <2>2. CASE left' = [left EXCEPT ![call[c].url] = @ + 1]
    <3>1. PICK url : url = call[c].url
      OBVIOUS
    <3>2. left \in [Workers -> Nat] /\ left' = [left EXCEPT ![url] = left[url] + 1]
      BY <1>1, <2>2, <3>1 DEF RouterTypes
    <3>3. url \in Workers => left[url] + 1 \in Nat
      BY <3>2
    <3>4. QED
      BY <3>2, <3>3
  <2>3. QED
    BY <1>1, <2>1, <2>2, ReadBodyMoves
<1>4. QED
  BY <1>1, <1>2, <1>3 DEF RouterTypes, ReadBody

LEMMA FinishUrlTypes == \A c \in Ids : RouterTypes /\ FinishUrl(c) => RouterTypes'
<1>1. SUFFICES ASSUME NEW c \in Ids, RouterTypes, FinishUrl(c) PROVE RouterTypes'
  OBVIOUS
<1>2. call' \in [Ids -> Calls]
  BY <1>1, FinishUrlMoves DEF Moves
<1>3. worker_urls' \in Seq([url : Workers, count : Int])
  BY <1>1, FinishedType DEF RouterTypes, FinishUrl
<1>4. post' \in [Posts -> PostStates] /\ shutdown' \in [Workers -> {"no", "asked", "over"}]
  <2>1. CASE Answer(c)
    BY <1>1, <2>1, AnswerMoves
  <2>2. CASE UNCHANGED <<post, shutdown>>
    BY <1>1, <2>2 DEF RouterTypes
  <2>3. QED
    BY <1>1, <2>1, <2>2, FinishUrlMoves
<1>5. QED
  BY <1>1, <1>2, <1>3, <1>4 DEF RouterTypes, FinishUrl

LEMMA InspectTypes == \A c \in Ids : RouterTypes /\ Inspect(c) => RouterTypes'
<1>1. SUFFICES ASSUME NEW c \in Ids, RouterTypes, Inspect(c) PROVE RouterTypes'
  OBVIOUS
<1>2. CASE asleep' = c /\ UNCHANGED <<post, call, trie, inserted, shutdown>>
  BY <1>1, <1>2 DEF RouterTypes, Inspect, Shape
<1>3. CASE Answer(c) /\ UNCHANGED asleep
  <2>1. /\ call' \in [Ids -> Calls] /\ post' \in [Posts -> PostStates]
        /\ shutdown' \in [Workers -> {"no", "asked", "over"}]
    BY <1>1, <1>3, AnswerMoves DEF Moves
  <2>2. Shape(trie)' /\ (inserted \subseteq Told)'
    <3>1. CASE Caches(c) /\ Keep(c)
      BY <1>1, <3>1, KeepTypes DEF Caches
    <3>2. CASE UNCHANGED <<trie, inserted>>
      BY <1>1, <3>2 DEF RouterTypes, Shape
    <3>3. QED
      BY <1>1, <1>3, <3>1, <3>2 DEF Inspect
  <2>3. QED
    BY <1>1, <1>3, <2>1, <2>2 DEF RouterTypes, Inspect
<1>4. QED
  BY <1>1, <1>2, <1>3 DEF Inspect

LEMMA WakeTypes == \A c \in Ids : RouterTypes /\ OneRequest /\ Wake(c) => RouterTypes'
<1>1. SUFFICES ASSUME NEW c \in Ids, RouterTypes, OneRequest, Wake(c) PROVE RouterTypes'
  OBVIOUS
<1>2. call' \in [Ids -> Calls] /\ IsGenerate(c)
  <2>1. asleep # Nobody
    BY <1>1 DEF Wake, Ids, Nobody
  <2>2. IsGenerate(c)
    BY <1>1, <2>1 DEF OneRequest, Wake, Caches
  <2>3. QED
    BY <1>1, <2>2, WakeMoves DEF Moves
<1>3. CASE UNCHANGED <<post, trie, inserted, shutdown>>
  BY <1>1, <1>2, <1>3 DEF RouterTypes, Wake, Shape
<1>4. CASE Answer(c) /\ (Keep(c) \/ UNCHANGED <<trie, inserted>>)
  <2>1. post' \in [Posts -> PostStates] /\ shutdown' \in [Workers -> {"no", "asked", "over"}]
    BY <1>1, <1>4, AnswerMoves
  <2>2. Shape(trie)' /\ (inserted \subseteq Told)'
    <3>1. CASE Keep(c)
      BY <1>1, <1>2, <3>1, KeepTypes
    <3>2. CASE UNCHANGED <<trie, inserted>>
      BY <1>1, <3>2 DEF RouterTypes, Shape
    <3>3. QED
      BY <1>4, <3>1, <3>2
  <2>3. QED
    BY <1>1, <1>2, <2>1, <2>2 DEF RouterTypes, Wake
<1>5. QED
  BY <1>1, <1>3, <1>4, WakeMoves

LEMMA ServingTypes == \A c \in Ids : RouterTypes /\ Serving(c) => RouterTypes'
<1>1. SUFFICES ASSUME NEW c \in Ids, RouterTypes, Serving(c) PROVE RouterTypes'
  OBVIOUS
<1>2. call' \in [Ids -> Calls]
  BY <1>1, ServingMoves DEF Moves
<1>3. UNCHANGED <<options, server, post, worker_urls, trie, inserted, asleep, left, shutdown>>
  BY <1>1 DEF Serving, Serve, Refuse, routerVars
<1>4. QED
  BY <1>1, <1>2, <1>3 DEF RouterTypes, Shape

LEMMA AbortTypes == \A w \in Workers : RouterTypes /\ Abort(w) => RouterTypes'
<1>1. SUFFICES ASSUME NEW w \in Workers, RouterTypes, Abort(w) PROVE RouterTypes'
  OBVIOUS
<1>2. call' \in [Ids -> Calls]
  BY <1>1, AbortMoves
<1>3. UNCHANGED <<options, server, post, worker_urls, trie, inserted, asleep, left, shutdown>>
  BY <1>1 DEF Abort, routerVars
<1>4. QED
  BY <1>1, <1>2, <1>3 DEF RouterTypes, Shape

LEMMA FaultTypes == \A w \in Workers : RouterTypes /\ Fault(w) => RouterTypes'
<1>1. SUFFICES ASSUME NEW w \in Workers, RouterTypes, Fault(w) PROVE RouterTypes'
  OBVIOUS
<1>2. options.fault \in {"dead", "sick"}
  BY <1>1, RouterAssumption DEF RouterTypes
<1>3. server' \in [Workers -> {"starting", "up", "sick", "dead"}]
  BY <1>1, <1>2 DEF Fault, RouterTypes
<1>4. UNCHANGED <<options, post, call, worker_urls, trie, inserted, asleep, left, shutdown>>
  BY <1>1 DEF Fault, routerVars
<1>5. QED
  BY <1>1, <1>3, <1>4 DEF RouterTypes, Shape

LEMMA ShutdownTypes == \A w \in Workers : RouterTypes /\ Shutdown(w) => RouterTypes'
<1>1. SUFFICES ASSUME NEW w \in Workers, RouterTypes, Shutdown(w) PROVE RouterTypes'
  OBVIOUS
<1>2. call' \in [Ids -> Calls]
  BY <1>1, ShutdownMoves DEF Moves
<1>3. shutdown' \in [Workers -> {"no", "asked", "over"}]
  BY <1>1 DEF Shutdown, RouterTypes
<1>4. UNCHANGED <<options, server, post, worker_urls, trie, inserted, asleep, left>>
  BY <1>1 DEF Shutdown, routerVars
<1>5. QED
  BY <1>1, <1>2, <1>3, <1>4 DEF RouterTypes, Shape
-----------------------------------------------------------------------------
(* No post has two requests *)

\* A request that is in the router moves on and stays in.
LEMMA MoveKeepsOne ==
  ASSUME RouterTypes, OneRequest, NEW c \in Ids, Moves(c), ~At(c, "out"),
         call'[c].at \notin {"out", "arrived"}, call'[c].heard = call[c].heard,
         UNCHANGED <<options, post, shutdown>>,
         asleep' # Nobody => asleep' \in Ids /\ call'[asleep'].at = "replied" /\ Caches(asleep')
  PROVE  OneRequest'
<1>1. \A d \in Ids : call'[d].heard = call[d].heard /\ (call'[d].at # "out" => ~At(d, "out"))
  BY DEF Moves, At
<1>2. ASSUME NEW d \in Ids, IsGenerate(d), call'[d].at # "out", call'[d].heard
      PROVE  post'[d[2]].by = d[1] /\ post'[d[2]].state = "waiting"
  BY <1>1, <1>2 DEF OneRequest
<1>3. ASSUME NEW d \in Ids, IsGenerate(d), ~call'[d].heard
      PROVE  d[1] = "actor" /\ post'[d[2]].by = "local"
  BY <1>1, <1>3 DEF OneRequest
<1>4. ASSUME NEW w \in Workers, shutdown'[w] = "no" PROVE call'[<<"remove", w>>].at = "out"
  <2>1. At(<<"remove", w>>, "out") /\ <<"remove", w>> \in Ids
    BY <1>4, EveryId DEF OneRequest
  <2>2. QED
    BY <2>1 DEF Moves, At
<1>5. \A d \in Ids : call'[d].at = "arrived" => Caches(d)
  BY DEF OneRequest, Moves, At
<1>6. QED
  BY <1>2, <1>3, <1>4, <1>5 DEF OneRequest, At, Caches

\* A request leaves the router, and what its post does then.
LEMMA LeaveKeepsOne ==
  ASSUME RouterTypes, OneRequest, NEW c \in Ids, ~At(c, "out"), Moves(c), call'[c] = NoCall,
         \A p \in Posts : \/ post'[p] = post[p]
                          \/ /\ IsGenerate(c) /\ c[2] = p /\ call[c].heard
                             /\ post'[p].by \in {post[p].by, "local"},
         \A w \in Workers : shutdown'[w] = "no" => shutdown[w] = "no",
         UNCHANGED options,
         asleep' # Nobody => asleep' # c /\ asleep' = asleep
  PROVE  OneRequest'
<1>1. NoCall.at = "out" /\ NoCall.heard
  BY DEF NoCall
<1>2. ASSUME NEW d \in Ids, IsGenerate(d), call'[d].at # "out", call'[d].heard
      PROVE  post'[d[2]].by = d[1] /\ post'[d[2]].state = "waiting"
  <2>1. d # c /\ call'[d] = call[d] /\ d[2] \in Posts
    BY <1>1, <1>2, IdIs DEF Moves
  <2>2. post[d[2]].by = d[1] /\ post[d[2]].state = "waiting"
    BY <1>2, <2>1 DEF OneRequest, At
  <2>3. CASE post'[d[2]] = post[d[2]]
    BY <2>2, <2>3
  <2>4. CASE IsGenerate(c) /\ c[2] = d[2] /\ call[c].heard
    <3>1. post[c[2]].by = c[1]
      BY <2>4 DEF OneRequest
    <3>2. c = d
      <4>1. c = <<c[1], c[2]>> /\ d = <<d[1], d[2]>>
        BY <1>2, <2>4, IdIs
      <4>2. QED
        BY <2>2, <2>4, <3>1, <4>1
    <3>3. QED
      BY <2>1, <3>2
  <2>5. QED
    BY <2>1, <2>3, <2>4
<1>3. ASSUME NEW d \in Ids, IsGenerate(d), ~call'[d].heard
      PROVE  d[1] = "actor" /\ post'[d[2]].by = "local"
  <2>1. d # c /\ call'[d] = call[d] /\ d[2] \in Posts
    BY <1>1, <1>3, IdIs DEF Moves
  <2>2. d[1] = "actor" /\ post[d[2]].by = "local"
    BY <1>3, <2>1 DEF OneRequest
  <2>3. QED
    BY <2>1, <2>2
<1>4. ASSUME NEW w \in Workers, shutdown'[w] = "no" PROVE call'[<<"remove", w>>].at = "out"
  <2>1. At(<<"remove", w>>, "out") /\ <<"remove", w>> \in Ids
    BY <1>4, EveryId DEF OneRequest
  <2>2. QED
    BY <1>1, <2>1 DEF Moves, At
<1>5. \A d \in Ids : call'[d].at = "arrived" => Caches(d)
  BY <1>1 DEF OneRequest, Moves, At
<1>6. asleep' # Nobody => call'[asleep'].at = "replied" /\ Caches(asleep')
  <2>1. asleep # Nobody => asleep \in Ids /\ At(asleep, "replied") /\ Caches(asleep)
    BY DEF OneRequest, RouterTypes
  <2>2. QED
    BY <2>1 DEF Moves, At
<1>7. QED
  BY <1>2, <1>3, <1>4, <1>5, <1>6 DEF OneRequest, At, Caches

LEMMA AnswerKeepsOne ==
  ASSUME RouterTypes, OneRequest, NEW c \in Ids, ~At(c, "out"), Answer(c), UNCHANGED options,
         asleep' # Nobody => asleep' # c /\ asleep' = asleep
  PROVE  OneRequest'
<1>1. Moves(c) /\ call'[c] = NoCall
  BY AnswerMoves
<1>2. ASSUME NEW p \in Posts
      PROVE  \/ post'[p] = post[p]
             \/ /\ IsGenerate(c) /\ c[2] = p /\ call[c].heard
                /\ post'[p].by \in {post[p].by, "local"}
  <2>1. CASE IsGenerate(c) /\ call[c].heard /\ c[2] = p
    <3>1. post' = [post EXCEPT ![p] = AfterReply(post[p], call[c].reply)] /\ post[p] \in PostStates
      BY <2>1 DEF Answer, RouterTypes
    <3>2. post'[p] = AfterReply(post[p], call[c].reply)
      BY <3>1 DEF RouterTypes
    <3>3. QED
      BY <2>1, <3>1, <3>2, AfterReplyType
  <2>2. CASE ~(IsGenerate(c) /\ call[c].heard /\ c[2] = p)
    BY <2>2 DEF Answer, RouterTypes
  <2>3. QED
    BY <2>1, <2>2
<1>3. \A w \in Workers : shutdown'[w] = "no" => shutdown[w] = "no"
  BY DEF Answer, RouterTypes
<1>4. QED
  BY <1>1, <1>2, <1>3, LeaveKeepsOne

\* Nothing of a request but its answer changes.
LEMMA QuietKeepsOne ==
  ASSUME RouterTypes, OneRequest,
         \A c \in Ids : /\ call'[c].heard = call[c].heard
                        /\ call'[c].at # call[c].at => ~At(c, "out") /\ ~At(c, "replied")
                                                    /\ call'[c].at # "arrived",
         UNCHANGED <<options, post, shutdown, asleep>>
  PROVE  OneRequest'
<1>0. /\ options' = options /\ post' = post /\ shutdown' = shutdown /\ asleep' = asleep
      /\ \A d \in Ids : call'[d].heard <=> call[d].heard
      /\ \A d \in Ids : call'[d].at # "out" => call[d].at # "out"
      /\ \A d \in Ids : call[d].at = "out" => call'[d].at = "out"
      /\ \A d \in Ids : call'[d].at = "arrived" => call[d].at = "arrived"
      /\ \A d \in Ids : call[d].at = "replied" => call'[d].at = "replied"
  <2>1. options' = options /\ post' = post /\ shutdown' = shutdown /\ asleep' = asleep
    OBVIOUS
  <2>2. \A d \in Ids : call'[d].heard = call[d].heard
    OBVIOUS
  <2>3. \A d \in Ids : call'[d].at # call[d].at =>
          call[d].at # "out" /\ call[d].at # "replied" /\ call'[d].at # "arrived"
    BY DEF At
  <2>4. QED
    BY <2>1, <2>2, <2>3
<1>1. ASSUME NEW d \in Ids, IsGenerate(d), call'[d].at # "out", call'[d].heard
      PROVE  post'[d[2]].by = d[1] /\ post'[d[2]].state = "waiting"
  BY <1>0, <1>1 DEF OneRequest, At
<1>2. ASSUME NEW d \in Ids, IsGenerate(d), ~call'[d].heard
      PROVE  d[1] = "actor" /\ post'[d[2]].by = "local"
  BY <1>0, <1>2 DEF OneRequest, At
<1>3. ASSUME NEW w \in Workers, shutdown'[w] = "no" PROVE call'[<<"remove", w>>].at = "out"
  BY <1>0, <1>3, EveryId DEF OneRequest, At
<1>4. \A d \in Ids : call'[d].at = "arrived" => Caches(d)
  BY <1>0 DEF OneRequest, At
<1>5. asleep' # Nobody => call'[asleep'].at = "replied" /\ Caches(asleep')
  BY <1>0 DEF OneRequest, At, RouterTypes
<1>6. QED
  BY <1>0, <1>1, <1>2, <1>3, <1>4, <1>5 DEF OneRequest, At, Caches

LEMMA SendKeepsOne == \A p \in Posts : RouterTypes /\ OneRequest /\ Send(p) => OneRequest'
<1>1. SUFFICES ASSUME NEW p \in Posts, RouterTypes, OneRequest, Send(p) PROVE OneRequest'
  OBVIOUS
<1> DEFINE c == <<post[p].by, p>>
<1>2. c \in Ids /\ IsGenerate(c) /\ Moves(c) /\ call'[c] = Arrived(c) /\ c[1] = post[p].by /\ c[2] = p
  BY <1>1, SendMoves
<1>3. /\ post[p].state = "ready" /\ post'[p].state = "waiting" /\ post'[p].by = post[p].by
      /\ \A q \in Posts \ {p} : post'[q] = post[q]
  <2>1. post[p] \in PostStates
    BY <1>1 DEF RouterTypes
  <2>2. /\ [post[p] EXCEPT !.state = "waiting"].state = "waiting"
        /\ [post[p] EXCEPT !.state = "waiting"].by = post[p].by
    BY <2>1 DEF PostStates
  <2>3. post' = [post EXCEPT ![p] = [post[p] EXCEPT !.state = "waiting"]]
    BY <1>1 DEF Send, RouterTypes
  <2>4. QED
    BY <1>1, <2>2, <2>3 DEF RouterTypes, Send
<1> HIDE DEF c
<1>4. Arrived(c).heard /\ (Arrived(c).at = "arrived" => Caches(c))
  BY ArrivedType DEF Arrived, NoCall
<1>5. At(c, "out") /\ call[c].heard
  <2>1. call[c].heard
    BY <1>1, <1>2 DEF OneRequest
  <2>2. QED
    BY <1>1, <1>2, <1>3, <2>1 DEF OneRequest
<1>6. ASSUME NEW d \in Ids, IsGenerate(d), call'[d].at # "out", call'[d].heard
      PROVE  post'[d[2]].by = d[1] /\ post'[d[2]].state = "waiting"
  <2>1. CASE d = c
    BY <1>2, <1>3, <2>1
  <2>2. CASE d # c
    <3>1. call'[d] = call[d] /\ d[2] \in Posts
      BY <1>2, <1>6, <2>2, IdIs DEF Moves
    <3>2. post[d[2]].by = d[1] /\ post[d[2]].state = "waiting"
      BY <1>1, <1>6, <3>1 DEF OneRequest, At
    <3>3. d[2] # p
      BY <1>3, <3>2
    <3>4. QED
      BY <1>3, <3>1, <3>2, <3>3
  <2>3. QED
    BY <2>1, <2>2
<1>7. ASSUME NEW d \in Ids, IsGenerate(d), ~call'[d].heard
      PROVE  d[1] = "actor" /\ post'[d[2]].by = "local"
  <2>1. d # c /\ call'[d] = call[d] /\ d[2] \in Posts
    BY <1>2, <1>4, <1>7, IdIs DEF Moves
  <2>2. d[1] = "actor" /\ post[d[2]].by = "local"
    BY <1>1, <1>7, <2>1 DEF OneRequest
  <2>3. QED
    BY <1>3, <2>1, <2>2
<1>8. ASSUME NEW w \in Workers, shutdown'[w] = "no" PROVE call'[<<"remove", w>>].at = "out"
  <2>1. <<"remove", w>> \in Ids /\ <<"remove", w>> # c
    BY <1>2, EveryId
  <2>2. At(<<"remove", w>>, "out")
    BY <1>1, <1>8 DEF OneRequest, Send
  <2>3. QED
    BY <1>2, <2>1, <2>2 DEF Moves, At
<1>9. \A d \in Ids : call'[d].at = "arrived" => Caches(d)
  BY <1>1, <1>2, <1>4 DEF OneRequest, At, Moves
<1>10. asleep' # Nobody => call'[asleep'].at = "replied" /\ Caches(asleep')
  BY <1>1, <1>2, <1>5 DEF OneRequest, At, Moves, RouterTypes, Send, routerVars
<1>11. UNCHANGED options
  BY <1>1 DEF Send
<1>12. QED
  BY <1>6, <1>7, <1>8, <1>9, <1>10, <1>11 DEF OneRequest, At, Caches

LEMMA PosterDiesKeepsOne ==
  \A p \in Posts : RouterTypes /\ OneRequest /\ PosterDies(p) => OneRequest'
<1>1. SUFFICES ASSUME NEW p \in Posts, RouterTypes, OneRequest, PosterDies(p) PROVE OneRequest'
  OBVIOUS
<1> DEFINE c == <<"actor", p>>
<1>2. /\ c \in Ids /\ IsGenerate(c) /\ Moves(c) /\ call'[c].heard = FALSE /\ call'[c].at = call[c].at
      /\ c[1] = "actor" /\ c[2] = p
  BY <1>1, PosterDiesMoves
<1>3. /\ post'[p].by = "local" /\ post[p].by = "actor" /\ \A q \in Posts \ {p} : post'[q] = post[q]
  BY <1>1 DEF PosterDies, FallenBack, RouterTypes
<1> HIDE DEF c
<1>4. ASSUME NEW d \in Ids, IsGenerate(d), call'[d].at # "out", call'[d].heard
      PROVE  post'[d[2]].by = d[1] /\ post'[d[2]].state = "waiting"
  <2>1. d # c /\ call'[d] = call[d] /\ d[2] \in Posts
    BY <1>2, <1>4, IdIs DEF Moves
  <2>2. post[d[2]].by = d[1] /\ post[d[2]].state = "waiting"
    BY <1>1, <1>4, <2>1 DEF OneRequest, At
  <2>3. d[2] # p
    BY <1>2, <1>3, <1>4, <2>1, <2>2, IdIs
  <2>4. QED
    BY <1>3, <2>1, <2>2, <2>3
<1>5. ASSUME NEW d \in Ids, IsGenerate(d), ~call'[d].heard
      PROVE  d[1] = "actor" /\ post'[d[2]].by = "local"
  <2>1. CASE d = c
    BY <1>2, <1>3, <2>1
  <2>2. CASE d # c
    <3>1. call'[d] = call[d] /\ d[2] \in Posts
      BY <1>2, <1>5, <2>2, IdIs DEF Moves
    <3>2. d[1] = "actor" /\ post[d[2]].by = "local"
      BY <1>1, <1>5, <3>1 DEF OneRequest
    <3>3. QED
      BY <1>3, <3>1, <3>2
  <2>3. QED
    BY <2>1, <2>2
<1>6. ASSUME NEW w \in Workers, shutdown'[w] = "no" PROVE call'[<<"remove", w>>].at = "out"
  <2>1. <<"remove", w>> \in Ids /\ <<"remove", w>> # c
    BY <1>2, EveryId
  <2>2. At(<<"remove", w>>, "out")
    BY <1>1, <1>6 DEF OneRequest, PosterDies
  <2>3. QED
    BY <1>2, <2>1, <2>2 DEF Moves, At
<1>7. \A d \in Ids : call'[d].at = "arrived" => Caches(d)
  BY <1>1, <1>2 DEF OneRequest, At, Moves
<1>8. asleep' # Nobody => call'[asleep'].at = "replied" /\ Caches(asleep')
  BY <1>1, <1>2 DEF OneRequest, At, Moves, RouterTypes, PosterDies, routerVars
<1>9. UNCHANGED options
  BY <1>1 DEF PosterDies
<1>10. QED
  BY <1>4, <1>5, <1>6, <1>7, <1>8, <1>9 DEF OneRequest, At, Caches

LEMMA ShutdownKeepsOne ==
  \A w \in Workers : RouterTypes /\ OneRequest /\ Shutdown(w) => OneRequest'
<1>1. SUFFICES ASSUME NEW w \in Workers, RouterTypes, OneRequest, Shutdown(w) PROVE OneRequest'
  OBVIOUS
<1> DEFINE c == <<"remove", w>>
<1>2. /\ c \in Ids /\ ~IsGenerate(c) /\ Moves(c) /\ call'[c] = Arrived(c) /\ At(c, "out")
      /\ \A v \in Workers : <<"remove", v>> = c => v = w
  BY <1>1, EveryId, ShutdownMoves DEF OneRequest, Shutdown
<1> HIDE DEF c
<1>3. Arrived(c).at = "arrived" => Caches(c)
  BY DEF Arrived, NoCall
<1>4. ASSUME NEW d \in Ids, IsGenerate(d)
      PROVE  d # c /\ call'[d] = call[d] /\ post'[d[2]] = post[d[2]]
  BY <1>1, <1>2, <1>4 DEF Moves, Shutdown
<1>5. ASSUME NEW v \in Workers, shutdown'[v] = "no" PROVE call'[<<"remove", v>>].at = "out"
  <2>1. v # w /\ shutdown[v] = "no"
    BY <1>1, <1>5 DEF Shutdown, RouterTypes
  <2>2. <<"remove", v>> \in Ids /\ <<"remove", v>> # c
    BY <1>2, <2>1, EveryId
  <2>3. QED
    BY <1>1, <1>2, <2>1, <2>2 DEF OneRequest, Moves, At
<1>6. \A d \in Ids : call'[d].at = "arrived" => Caches(d)
  BY <1>1, <1>2, <1>3 DEF OneRequest, At, Moves
<1>7. asleep' # Nobody => call'[asleep'].at = "replied" /\ Caches(asleep')
  BY <1>1, <1>2 DEF OneRequest, At, Moves, RouterTypes, Shutdown, routerVars
<1>8. UNCHANGED options
  BY <1>1 DEF Shutdown
<1>9. QED
  BY <1>1, <1>4, <1>5, <1>6, <1>7, <1>8 DEF OneRequest, At, Caches

LEMMA ProxyingKeepsOne ==
  \A c \in Ids : RouterTypes /\ OneRequest /\ Proxying(c) => OneRequest'
<1>1. SUFFICES ASSUME NEW c \in Ids, RouterTypes, OneRequest, Proxying(c) PROVE OneRequest'
  OBVIOUS
<1>2. CASE Dispatch(c)
  <2>1. /\ At(c, "arrived") /\ asleep' = Nobody /\ UNCHANGED <<options, post, shutdown>>
        /\ ~At(c, "out")
    BY <1>2 DEF Dispatch, Awake, At
  <2>2. Caches(c)
    BY <1>1, <2>1 DEF OneRequest
  <2>3. CASE call'[c].at = "routing" /\ call'[c].heard = call[c].heard /\ Moves(c)
    BY <1>1, <2>1, <2>3, MoveKeepsOne
  <2>4. CASE call'[c] = NoCall /\ Moves(c)
    BY <1>1, <2>1, <2>4, LeaveKeepsOne
  <2>5. QED
    BY <1>1, <1>2, <2>2, <2>3, <2>4, DispatchMoves
<1>3. CASE UseUrl(c)
  <2>1. asleep' = Nobody /\ UNCHANGED <<options, post, shutdown>> /\ ~At(c, "out")
    BY <1>3 DEF UseUrl, Awake, At
  <2>2. Moves(c) /\ call'[c].heard = call[c].heard /\ call'[c].at \in {"replied", "body", "proxied"}
    BY <1>1, <1>3, UseUrlMoves
  <2>3. QED
    BY <1>1, <2>1, <2>2, MoveKeepsOne
<1>4. CASE ReadBody(c)
  <2>1. asleep' = Nobody /\ UNCHANGED <<options, post, shutdown>> /\ ~At(c, "out")
    BY <1>4 DEF ReadBody, Awake, At
  <2>2. CASE call'[c].at = "proxied" /\ call'[c].heard = call[c].heard /\ Moves(c)
    BY <1>1, <2>1, <2>2, MoveKeepsOne
  <2>3. CASE call'[c] = NoCall /\ Moves(c)
    BY <1>1, <2>1, <2>3, LeaveKeepsOne
  <2>4. QED
    BY <1>1, <1>4, <2>2, <2>3, ReadBodyMoves
<1>5. CASE FinishUrl(c)
  <2>1. asleep' = Nobody /\ UNCHANGED options /\ ~At(c, "out")
    BY <1>5 DEF FinishUrl, Awake, At
  <2>2. CASE Answer(c)
    BY <1>1, <2>1, <2>2, AnswerKeepsOne
  <2>3. CASE /\ Moves(c) /\ call'[c].at = "replied" /\ call'[c].heard = call[c].heard
             /\ UNCHANGED <<post, shutdown>>
    BY <1>1, <2>1, <2>3, MoveKeepsOne
  <2>4. QED
    BY <1>1, <1>5, <2>2, <2>3, FinishUrlMoves
<1>6. CASE Inspect(c)
  <2>1. UNCHANGED options /\ ~At(c, "out") /\ asleep = Nobody /\ At(c, "replied")
    BY <1>6 DEF Inspect, Awake, At
  <2>2. CASE Answer(c) /\ UNCHANGED asleep
    BY <1>1, <2>1, <2>2, AnswerKeepsOne
  <2>3. CASE Caches(c) /\ asleep' = c /\ UNCHANGED <<post, call, shutdown>>
    <3>1. Moves(c)
      BY <1>1, <2>3 DEF Moves, RouterTypes
    <3>2. QED
      BY <1>1, <2>1, <2>3, <3>1, MoveKeepsOne DEF At
  <2>4. QED
    BY <1>6, <2>2, <2>3 DEF Inspect
<1>7. CASE Wake(c)
  <2>1. UNCHANGED options /\ asleep' = Nobody /\ asleep = c /\ c # Nobody
    BY <1>7 DEF Wake, Nobody, Ids
  <2>2. ~At(c, "out")
    BY <1>1, <2>1 DEF OneRequest, At
  <2>3. CASE Answer(c)
    BY <1>1, <2>1, <2>2, <2>3, AnswerKeepsOne
  <2>4. CASE /\ Moves(c) /\ call'[c].at = "routing" /\ call'[c].heard = call[c].heard
             /\ UNCHANGED <<post, shutdown>>
    BY <1>1, <2>1, <2>2, <2>4, MoveKeepsOne
  <2>5. QED
    BY <1>1, <1>7, <2>3, <2>4, WakeMoves
<1>8. QED
  BY <1>1, <1>2, <1>3, <1>4, <1>5, <1>6, <1>7 DEF Proxying

LEMMA ServersKeepOne ==
  /\ \A c \in Ids : RouterTypes /\ OneRequest /\ Serving(c) => OneRequest'
  /\ \A w \in Workers :
       RouterTypes /\ OneRequest /\ (Abort(w) \/ Fault(w) \/ AddWorker(w)) => OneRequest'
<1>1. ASSUME NEW c \in Ids, RouterTypes, OneRequest, Serving(c) PROVE OneRequest'
  <2>1. UNCHANGED <<options, post, shutdown, asleep>>
    BY <1>1 DEF Serving, Serve, Refuse, routerVars
  <2>2. /\ Moves(c) /\ At(c, "proxied") /\ call'[c].at = "returned"
        /\ call'[c].heard = call[c].heard
    BY <1>1, ServingMoves
  <2>3. QED
    BY <1>1, <2>1, <2>2, QuietKeepsOne DEF Moves, At
<1>2. ASSUME NEW w \in Workers, RouterTypes, OneRequest, Abort(w) PROVE OneRequest'
  <2>1. UNCHANGED <<options, post, shutdown, asleep>>
    BY <1>2 DEF Abort, routerVars
  <2>2. \A c \in Ids : \/ call'[c] = call[c]
                       \/ /\ At(c, "proxied") /\ call'[c].at = "returned"
                          /\ call'[c].heard = call[c].heard
    BY <1>2, AbortMoves
  <2>3. QED
    BY <1>2, <2>1, <2>2, QuietKeepsOne DEF At
<1>3. ASSUME NEW w \in Workers, RouterTypes, OneRequest, Fault(w) \/ AddWorker(w) PROVE OneRequest'
  <2>1. UNCHANGED <<options, post, shutdown, asleep, call>>
    BY <1>3 DEF Fault, AddWorker, routerVars
  <2>2. QED
    BY <1>3, <2>1, QuietKeepsOne
<1>4. QED
  BY <1>1, <1>2, <1>3
-----------------------------------------------------------------------------
(* The counts *)

LEMMA FiniteCarried ==
  \A w : IsFiniteSet(Carried(call, w)) /\ IsFiniteSet(Carried(call', w))
<1>1. IsFiniteSet(Ids)
  <2>1. IsFiniteSet({"actor"}) /\ IsFiniteSet({"remove"})
    BY FS_Singleton
  <2>2. IsFiniteSet({"actor"} \cup {"local"})
    BY <2>1, FS_AddElement
  <2>3. {"actor"} \cup {"local"} = {"actor", "local"}
    OBVIOUS
  <2>4. IsFiniteSet({"actor", "local"})
    BY <2>2, <2>3
  <2>5. IsFiniteSet({"actor", "local"} \X Posts) /\ IsFiniteSet({"remove"} \X Workers)
    BY <2>1, <2>4, RouterAssumption, FS_Product
  <2>6. QED
    BY <2>5, FS_Union DEF Ids
<1>2. \A w : Carried(call, w) \in SUBSET Ids /\ Carried(call', w) \in SUBSET Ids
  BY DEF Carried, Counted
<1>3. QED
  BY <1>1, <1>2, FS_Subset

LEMMA LoadIs ==
  \A w : /\ Load(call, w) = Cardinality(Carried(call, w)) /\ Load(call, w) \in Nat
         /\ Load(call', w) = Cardinality(Carried(call', w)) /\ Load(call', w) \in Nat
BY FiniteCarried, FS_CardinalityType DEF Load

\* A count is of a server that is there.
LEMMA UrlIs ==
  ASSUME RouterTypes, NEW i \in DOMAIN worker_urls
  PROVE  /\ worker_urls[i].url \in Urls /\ worker_urls[i].url \in Workers /\ worker_urls[i].count \in Int
         /\ left[worker_urls[i].url] \in Nat
<1>1. worker_urls \in Seq([url : Workers, count : Int]) /\ left \in [Workers -> Nat]
  BY DEF RouterTypes
<1>2. i \in 1 .. Len(worker_urls)
  BY <1>1, LenProperties
<1>3. worker_urls[i] \in [url : Workers, count : Int]
  BY <1>1, <1>2, ElementOfSeq
<1>4. QED
  BY <1>1, <1>3 DEF Urls

\* The requests that are under way stay, each with its server.
Stay == \A c \in Ids : /\ c \in Counted(call') <=> c \in Counted(call)
                       /\ c \in Counted(call) => call'[c].url = call[c].url

LEMMA StayKeepsCounts ==
  ASSUME CountsAreTrue, Stay, UNCHANGED <<worker_urls, left>>,
         \A w \in Workers : server'[w] = "starting" => server[w] = "starting"
  PROVE  CountsAreTrue'
<1>1. Counted(call') = Counted(call)
  BY DEF Stay, Counted
<1>2. \A w : Carried(call', w) = Carried(call, w)
  BY <1>1 DEF Carried, Stay, Counted
<1>3. \A w : Load(call', w) = Load(call, w)
  BY <1>2, LoadIs
<1>4. Urls' = Urls
  BY DEF Urls
<1>5. \A i \in DOMAIN worker_urls' :
        worker_urls'[i].count = Load(call', worker_urls'[i].url) + left'[worker_urls'[i].url]
  BY <1>3 DEF CountsAreTrue
<1>6. \A c \in Counted(call') : call'[c].url \in Urls'
  BY <1>1, <1>4 DEF CountsAreTrue, Stay, Counted
<1>7. QED
  BY <1>4, <1>5, <1>6 DEF CountsAreTrue

LEMMA ElsewhereStays ==
  ASSUME NEW c \in Ids, Moves(c), c \notin Counted(call), c \notin Counted(call')
  PROVE  Stay
BY DEF Stay, Moves, Counted

LEMMA OnItsWayStays ==
  ASSUME NEW c \in Ids, Moves(c), c \in Counted(call), c \in Counted(call'), call'[c].url = call[c].url
  PROVE  Stay
BY DEF Stay, Moves, Counted

LEMMA SendFindsOut ==
  ASSUME RouterTypes, OneRequest, NEW p \in Posts, Send(p)
  PROVE  At(<<post[p].by, p>>, "out")
<1> DEFINE c == <<post[p].by, p>>
<1>1. c \in Ids /\ IsGenerate(c) /\ c[1] = post[p].by /\ c[2] = p
  BY SendMoves
<1>2. post[p].state = "ready"
  BY DEF Send
<1> HIDE DEF c
<1>3. call[c].heard
  BY <1>1 DEF OneRequest
<1>4. At(c, "out")
  BY <1>1, <1>2, <1>3 DEF OneRequest
<1>5. QED
  BY <1>4 DEF c

LEMMA ClientsKeepCounts ==
  /\ \A p \in Posts : RouterTypes /\ OneRequest /\ CountsAreTrue /\ (Send(p) \/ PosterDies(p))
       => CountsAreTrue'
  /\ \A w \in Workers :
       RouterTypes /\ OneRequest /\ CountsAreTrue /\ (Abort(w) \/ Fault(w) \/ Shutdown(w))
       => CountsAreTrue'
  /\ \A c \in Ids : RouterTypes /\ CountsAreTrue /\ Serving(c) => CountsAreTrue'
<1>1. ASSUME NEW p \in Posts, RouterTypes, OneRequest, CountsAreTrue, Send(p) PROVE CountsAreTrue'
  <2> DEFINE c == <<post[p].by, p>>
  <2>1. c \in Ids /\ Moves(c) /\ call'[c] = Arrived(c) /\ At(c, "out")
    BY <1>1, SendMoves, SendFindsOut
  <2>2. UNCHANGED <<worker_urls, left, server>>
    BY <1>1 DEF Send, routerVars
  <2> HIDE DEF c
  <2>3. Stay
    BY <2>1, ArrivedType, ElsewhereStays DEF Counted, At
  <2>4. QED
    BY <1>1, <2>2, <2>3, StayKeepsCounts
<1>2. ASSUME NEW p \in Posts, RouterTypes, CountsAreTrue, PosterDies(p) PROVE CountsAreTrue'
  <2> DEFINE c == <<"actor", p>>
  <2>1. c \in Ids /\ Moves(c) /\ call'[c].at = call[c].at /\ call'[c].url = call[c].url
    BY <1>2, PosterDiesMoves
  <2>2. UNCHANGED <<worker_urls, left, server>>
    BY <1>2 DEF PosterDies, routerVars
  <2> HIDE DEF c
  <2>3. Stay
    BY <2>1 DEF Stay, Moves, Counted
  <2>4. QED
    BY <1>2, <2>2, <2>3, StayKeepsCounts
<1>3. ASSUME NEW w \in Workers, RouterTypes, CountsAreTrue, Abort(w) PROVE CountsAreTrue'
  <2>1. UNCHANGED <<worker_urls, left, server>>
    BY <1>3 DEF Abort, routerVars
  <2>2. Stay
    BY <1>3, AbortMoves DEF Stay, Counted, At
  <2>3. QED
    BY <1>3, <2>1, <2>2, StayKeepsCounts
<1>4. ASSUME NEW w \in Workers, RouterTypes, CountsAreTrue, Fault(w) PROVE CountsAreTrue'
  <2>1. UNCHANGED <<worker_urls, left, call>>
    BY <1>4 DEF Fault, routerVars
  <2>2. \A v \in Workers : server'[v] = "starting" => server[v] = "starting"
    <3>1. options.fault # "starting"
      BY <1>4, RouterAssumption DEF RouterTypes
    <3>2. QED
      BY <1>4, <3>1 DEF Fault, RouterTypes
  <2>3. Stay
    BY <2>1 DEF Stay
  <2>4. QED
    BY <1>4, <2>1, <2>2, <2>3, StayKeepsCounts
<1>5. ASSUME NEW w \in Workers, RouterTypes, OneRequest, CountsAreTrue, Shutdown(w) PROVE CountsAreTrue'
  <2> DEFINE c == <<"remove", w>>
  <2>1. c \in Ids /\ Moves(c) /\ call'[c] = Arrived(c) /\ At(c, "out")
    BY <1>5, EveryId, ShutdownMoves DEF OneRequest, Shutdown
  <2>2. UNCHANGED <<worker_urls, left, server>>
    BY <1>5 DEF Shutdown, routerVars
  <2> HIDE DEF c
  <2>3. Stay
    BY <2>1, ArrivedType, ElsewhereStays DEF Counted, At
  <2>4. QED
    BY <1>5, <2>2, <2>3, StayKeepsCounts
<1>6. ASSUME NEW c \in Ids, RouterTypes, CountsAreTrue, Serving(c) PROVE CountsAreTrue'
  <2>1. UNCHANGED <<worker_urls, left, server>>
    BY <1>6 DEF Serving, Serve, Refuse, routerVars
  <2>2. Stay
    BY <1>6, ServingMoves, OnItsWayStays DEF Counted, At
  <2>3. QED
    BY <1>6, <2>1, <2>2, StayKeepsCounts
<1>7. QED
  BY <1>1, <1>2, <1>3, <1>4, <1>5, <1>6

\* A count that goes up by one.
LEMMA CountUp ==
  ASSUME RouterTypes, NEW i \in DOMAIN worker_urls,
         worker_urls' = [worker_urls EXCEPT ![i].count = @ + 1]
  PROVE  /\ DOMAIN worker_urls' = DOMAIN worker_urls
         /\ \A j \in DOMAIN worker_urls :
              /\ worker_urls'[j].url = worker_urls[j].url
              /\ worker_urls'[j].count = IF j = i THEN worker_urls[j].count + 1 ELSE worker_urls[j].count
<1>1. worker_urls \in Seq([url : Workers, count : Int])
  BY DEF RouterTypes
<1>2. \A j \in DOMAIN worker_urls : worker_urls[j] \in [url : Workers, count : Int]
  <2>1. DOMAIN worker_urls = 1 .. Len(worker_urls)
    BY <1>1, LenProperties
  <2>2. QED
    BY <1>1, <2>1, ElementOfSeq
<1>3. worker_urls' = [worker_urls EXCEPT ![i] = [worker_urls[i] EXCEPT !.count = @ + 1]]
  OBVIOUS
<1>4. DOMAIN worker_urls' = DOMAIN worker_urls
  BY <1>3
<1>5. ASSUME NEW j \in DOMAIN worker_urls
      PROVE  /\ worker_urls'[j].url = worker_urls[j].url
             /\ worker_urls'[j].count = IF j = i THEN worker_urls[j].count + 1 ELSE worker_urls[j].count
  <2>1. CASE j = i
    BY <1>2, <1>3, <2>1
  <2>2. CASE j # i
    BY <1>3, <2>2
  <2>3. QED
    BY <2>1, <2>2
<1>6. QED
  BY <1>4, <1>5

LEMMA CountDown ==
  ASSUME RouterTypes, NEW u, NEW reply, worker_urls' = Finished(worker_urls, u, reply)
  PROVE  /\ DOMAIN worker_urls' = DOMAIN worker_urls
         /\ \A j \in DOMAIN worker_urls :
              /\ worker_urls'[j].url = worker_urls[j].url
              /\ worker_urls'[j].count
                   = IF worker_urls[j].url = u THEN worker_urls[j].count - 1 ELSE worker_urls[j].count
<1>1. worker_urls \in Seq([url : Workers, count : Int])
  BY DEF RouterTypes
<1>2. \A j \in DOMAIN worker_urls : worker_urls[j] \in [url : Workers, count : Int]
  <2>1. DOMAIN worker_urls = 1 .. Len(worker_urls)
    BY <1>1, LenProperties
  <2>2. QED
    BY <1>1, <2>1, ElementOfSeq
<1>3. /\ DOMAIN worker_urls' = DOMAIN worker_urls
      /\ \A j \in DOMAIN worker_urls :
           worker_urls'[j] = IF worker_urls[j].url = u THEN [worker_urls[j] EXCEPT !.count = @ - 1]
                             ELSE worker_urls[j]
  BY DEF Finished
<1>4. QED
  BY <1>2, <1>3

LEMMA SameUrls ==
  ASSUME DOMAIN worker_urls' = DOMAIN worker_urls,
         \A j \in DOMAIN worker_urls : worker_urls'[j].url = worker_urls[j].url
  PROVE  Urls' = Urls
BY DEF Urls

LEMMA UseUrlKeepsCounts ==
  \A c \in Ids : RouterTypes /\ CountsAreTrue /\ UseUrl(c) => CountsAreTrue'
<1>1. SUFFICES ASSUME NEW c \in Ids, RouterTypes, CountsAreTrue, UseUrl(c) PROVE CountsAreTrue'
  OBVIOUS
<1>2. Moves(c) /\ c \notin Counted(call) /\ UNCHANGED <<left, server>>
  BY <1>1, UseUrlMoves DEF UseUrl, At, Counted
<1>3. CASE worker_urls = <<>>
  <2>1. call'[c].at = "replied" /\ UNCHANGED worker_urls
    BY <1>1, <1>3, UseUrlMoves DEF UseUrl
  <2>2. Stay
    BY <1>2, <2>1, ElsewhereStays DEF Counted
  <2>3. QED
    BY <1>1, <1>2, <2>1, <2>2, StayKeepsCounts
<1>4. CASE worker_urls # <<>>
  <2>1. PICK i \in DOMAIN worker_urls : i = Chosen
    BY <1>1, <1>4, ChosenIsLowest DEF RouterTypes
  <2>2. worker_urls' = [worker_urls EXCEPT ![i].count = @ + 1]
    BY <1>1, <1>4, <2>1 DEF UseUrl
  <2>3. /\ DOMAIN worker_urls' = DOMAIN worker_urls
        /\ \A j \in DOMAIN worker_urls :
             /\ worker_urls'[j].url = worker_urls[j].url
             /\ worker_urls'[j].count = IF j = i THEN worker_urls[j].count + 1 ELSE worker_urls[j].count
    BY <1>1, <2>2, CountUp
  <2>4. PICK u \in Urls : u = worker_urls[i].url
    BY <1>1, UrlIs
  <2>5. c \in Counted(call') /\ call'[c].url = u
    BY <1>1, <1>4, <2>1, <2>4, UseUrlMoves DEF Counted
  <2>6. Counted(call') = Counted(call) \cup {c} /\ \A d \in Counted(call) : call'[d].url = call[d].url
    BY <1>2, <2>5 DEF Counted, Moves
  <2>7. /\ Carried(call', u) = Carried(call, u) \cup {c} /\ c \notin Carried(call, u)
        /\ \A w : w # u => Carried(call', w) = Carried(call, w)
    BY <1>2, <2>5, <2>6 DEF Carried
  <2>8. /\ Load(call', u) = Load(call, u) + 1
        /\ \A w : w # u => Load(call', w) = Load(call, w)
    BY <2>7, LoadIs, FiniteCarried, FS_AddElement
  <2>9. Urls' = Urls
    BY <2>3, SameUrls
  <2>10. ASSUME NEW j \in DOMAIN worker_urls
         PROVE  worker_urls'[j].count = Load(call', worker_urls'[j].url) + left'[worker_urls'[j].url]
    <3>1. worker_urls[j].count = Load(call, worker_urls[j].url) + left[worker_urls[j].url]
      BY <1>1 DEF CountsAreTrue
    <3>2. worker_urls[j].url = u <=> j = i
      BY <1>1, <2>4 DEF CountsAreTrue
    <3>3. /\ worker_urls'[j].url = worker_urls[j].url /\ left' = left
          /\ worker_urls'[j].count = IF j = i THEN worker_urls[j].count + 1 ELSE worker_urls[j].count
      BY <1>2, <2>3
    <3>4. Load(call, worker_urls[j].url) \in Nat /\ left[worker_urls[j].url] \in Nat
      BY <1>1, LoadIs, UrlIs
    <3>5. CASE j = i
      BY <2>8, <3>1, <3>2, <3>3, <3>4, <3>5
    <3>6. CASE j # i
      BY <2>8, <3>1, <3>2, <3>3, <3>6
    <3>7. QED
      BY <3>5, <3>6
  <2>11. \A d \in Counted(call') : call'[d].url \in Urls'
    BY <1>1, <2>4, <2>5, <2>6, <2>9 DEF CountsAreTrue
  <2>12. QED
    BY <1>1, <1>2, <2>3, <2>9, <2>10, <2>11 DEF CountsAreTrue
<1>5. QED
  BY <1>3, <1>4

\* A request is no longer under way.
LEMMA FewerUnderWay ==
  ASSUME RouterTypes, NEW c \in Ids, Moves(c), c \in Counted(call), c \notin Counted(call')
  PROVE  /\ Counted(call') = Counted(call) \ {c}
         /\ \A d \in Counted(call') : call'[d].url = call[d].url
         /\ Load(call', call[c].url) = Load(call, call[c].url) - 1
         /\ \A w : w # call[c].url => Load(call', w) = Load(call, w)
<1> DEFINE u == call[c].url
<1>1. Counted(call') = Counted(call) \ {c} /\ \A d \in Counted(call') : call'[d].url = call[d].url
  BY DEF Counted, Moves
<1>2. /\ Carried(call', u) = Carried(call, u) \ {c} /\ c \in Carried(call, u)
      /\ \A w : w # u => Carried(call', w) = Carried(call, w)
  BY <1>1 DEF Carried
<1> HIDE DEF u
<1>3. Load(call', u) = Load(call, u) - 1 /\ \A w : w # u => Load(call', w) = Load(call, w)
  BY <1>2, LoadIs, FiniteCarried, FS_RemoveElement
<1>4. QED
  BY <1>1, <1>3 DEF u

LEMMA ReadBodyKeepsCounts ==
  \A c \in Ids : RouterTypes /\ CountsAreTrue /\ ReadBody(c) => CountsAreTrue'
<1>1. SUFFICES ASSUME NEW c \in Ids, RouterTypes, CountsAreTrue, ReadBody(c) PROVE CountsAreTrue'
  OBVIOUS
<1>2. Moves(c) /\ c \in Counted(call) /\ UNCHANGED <<worker_urls, server>>
  BY <1>1, ReadBodyMoves DEF ReadBody, At, Counted
<1>3. CASE call'[c].at = "proxied" /\ call'[c].url = call[c].url /\ UNCHANGED left
  <2>1. Stay
    BY <1>2, <1>3, OnItsWayStays DEF Counted
  <2>2. QED
    BY <1>1, <1>2, <1>3, <2>1, StayKeepsCounts
<1>4. CASE call'[c] = NoCall /\ left' = [left EXCEPT ![call[c].url] = @ + 1]
  <2>1. PICK u : u = call[c].url
    OBVIOUS
  <2>2. u \in Urls /\ u \in Workers /\ left \in [Workers -> Nat]
    <3>1. u \in Urls /\ left \in [Workers -> Nat]
      BY <1>1, <1>2, <2>1 DEF CountsAreTrue, RouterTypes
    <3>2. PICK i \in DOMAIN worker_urls : u = worker_urls[i].url
      BY <3>1 DEF Urls
    <3>3. QED
      BY <1>1, <3>1, <3>2, UrlIs
  <2>3. /\ left'[u] = left[u] + 1 /\ left[u] \in Nat
        /\ \A w \in Workers : w # u => left'[w] = left[w]
    BY <1>4, <2>1, <2>2
  <2>4. c \notin Counted(call')
    BY <1>4 DEF Counted, NoCall
  <2>5. /\ Counted(call') = Counted(call) \ {c}
        /\ \A d \in Counted(call') : call'[d].url = call[d].url
        /\ Load(call', u) = Load(call, u) - 1
        /\ \A w : w # u => Load(call', w) = Load(call, w)
    BY <1>1, <1>2, <2>1, <2>4, FewerUnderWay
  <2>6. Urls' = Urls
    BY <1>2 DEF Urls
  <2>7. ASSUME NEW j \in DOMAIN worker_urls
        PROVE  worker_urls[j].count = Load(call', worker_urls[j].url) + left'[worker_urls[j].url]
    <3>1. worker_urls[j].count = Load(call, worker_urls[j].url) + left[worker_urls[j].url]
      BY <1>1 DEF CountsAreTrue
    <3>2. worker_urls[j].url \in Workers /\ Load(call, worker_urls[j].url) \in Nat
      BY <1>1, LoadIs, UrlIs
    <3>3. CASE worker_urls[j].url = u
      BY <2>3, <2>5, <3>1, <3>2, <3>3
    <3>4. CASE worker_urls[j].url # u
      BY <2>3, <2>5, <3>1, <3>2, <3>4
    <3>5. QED
      BY <3>3, <3>4
  <2>8. \A w \in Workers : left'[w] # 0 => w \in Urls
    BY <1>1, <2>2, <2>3 DEF CountsAreTrue
  <2>9. \A d \in Counted(call') : call'[d].url \in Urls
    BY <1>1, <2>5 DEF CountsAreTrue
  <2>10. QED
    BY <1>1, <1>2, <2>6, <2>7, <2>8, <2>9 DEF CountsAreTrue
<1>5. QED
  BY <1>1, <1>3, <1>4, ReadBodyMoves

LEMMA FinishUrlKeepsCounts ==
  \A c \in Ids : RouterTypes /\ CountsAreTrue /\ FinishUrl(c) => CountsAreTrue'
<1>1. SUFFICES ASSUME NEW c \in Ids, RouterTypes, CountsAreTrue, FinishUrl(c) PROVE CountsAreTrue'
  OBVIOUS
<1>2. Moves(c) /\ c \in Counted(call) /\ UNCHANGED <<left, server>>
  BY <1>1, FinishUrlMoves DEF FinishUrl, At, Counted
<1>3. c \notin Counted(call')
  BY <1>1, FinishUrlMoves, AnswerMoves DEF Counted, NoCall
<1>4. PICK u : u = call[c].url
  OBVIOUS
<1>5. /\ Counted(call') = Counted(call) \ {c}
      /\ \A d \in Counted(call') : call'[d].url = call[d].url
      /\ Load(call', u) = Load(call, u) - 1
      /\ \A w : w # u => Load(call', w) = Load(call, w)
  BY <1>1, <1>2, <1>3, <1>4, FewerUnderWay
<1>6. /\ DOMAIN worker_urls' = DOMAIN worker_urls
      /\ \A j \in DOMAIN worker_urls :
           /\ worker_urls'[j].url = worker_urls[j].url
           /\ worker_urls'[j].count
                = IF worker_urls[j].url = u THEN worker_urls[j].count - 1 ELSE worker_urls[j].count
  <2>1. worker_urls \in Seq([url : Workers, count : Int])
    BY <1>1 DEF RouterTypes
  <2>2. PICK reply : worker_urls' = Finished(worker_urls, u, reply)
    BY <1>1, <1>4 DEF FinishUrl
  <2>3. QED
    BY <1>1, <2>2, CountDown
<1>7. Urls' = Urls
  BY <1>6, SameUrls
<1>8. ASSUME NEW j \in DOMAIN worker_urls
      PROVE  worker_urls'[j].count = Load(call', worker_urls'[j].url) + left'[worker_urls'[j].url]
  <2>1. worker_urls[j].count = Load(call, worker_urls[j].url) + left[worker_urls[j].url]
    BY <1>1 DEF CountsAreTrue
  <2>2. Load(call, worker_urls[j].url) \in Nat /\ left[worker_urls[j].url] \in Nat
    BY <1>1, LoadIs, UrlIs
  <2>3. CASE worker_urls[j].url = u
    BY <1>2, <1>5, <1>6, <2>1, <2>2, <2>3
  <2>4. CASE worker_urls[j].url # u
    BY <1>2, <1>5, <1>6, <2>1, <2>4
  <2>5. QED
    BY <2>3, <2>4
<1>9. \A d \in Counted(call') : call'[d].url \in Urls'
  BY <1>1, <1>5, <1>7 DEF CountsAreTrue
<1>10. QED
  BY <1>1, <1>2, <1>6, <1>7, <1>8, <1>9 DEF CountsAreTrue

LEMMA AddWorkerKeepsCounts ==
  \A w \in Workers : RouterTypes /\ CountsAreTrue /\ AddWorker(w) => CountsAreTrue'
<1>1. SUFFICES ASSUME NEW w \in Workers, RouterTypes, CountsAreTrue, AddWorker(w) PROVE CountsAreTrue'
  OBVIOUS
<1>2. /\ w \notin Urls /\ UNCHANGED <<call, left>> /\ left \in [Workers -> Nat]
      /\ server' = [server EXCEPT ![w] = "up"]
      /\ server \in [Workers -> {"starting", "up", "sick", "dead"}]
  BY <1>1 DEF CountsAreTrue, AddWorker, RouterTypes
<1>3. Load(call', w) = 0 /\ left[w] = 0
  <2>1. Carried(call', w) = {}
    BY <1>1, <1>2 DEF Carried, CountsAreTrue
  <2>2. Load(call', w) = 0
    BY <2>1, LoadIs, FS_EmptySet
  <2>3. QED
    BY <1>1, <1>2, <2>2 DEF CountsAreTrue
<1> DEFINE n == Len(worker_urls)
<1>4. /\ n \in Nat /\ DOMAIN worker_urls = 1 .. n /\ DOMAIN worker_urls' = 1 .. n + 1
      /\ \A j \in 1 .. n : worker_urls'[j] = worker_urls[j]
      /\ worker_urls'[n + 1] = [url |-> w, count |-> 0]
  <2>1. worker_urls \in Seq([url : Workers, count : Int])
    BY <1>1 DEF RouterTypes
  <2>2. worker_urls' = Append(worker_urls, [url |-> w, count |-> 0])
    BY <1>1 DEF AddWorker
  <2>3. QED
    BY <2>1, <2>2, LenProperties, AppendProperties
<1> HIDE DEF n
<1>4a. worker_urls'[n + 1].url = w /\ worker_urls'[n + 1].count = 0 /\ n + 1 \in 1 .. n + 1
  BY <1>4
<1>5. Urls' = Urls \cup {w}
  <2>1. Urls = {worker_urls[j].url : j \in 1 .. n} /\ Urls' = {worker_urls'[j].url : j \in 1 .. n + 1}
    BY <1>4 DEF Urls
  <2>2. \A j \in 1 .. n + 1 : j \in 1 .. n \/ j = n + 1
    BY <1>4
  <2>3. \A j \in 1 .. n : j \in 1 .. n + 1
    BY <1>4
  <2>4. Urls' \subseteq Urls \cup {w}
    BY <1>4, <1>4a, <2>1, <2>2
  <2>5. Urls \subseteq Urls' /\ w \in Urls'
    BY <1>4, <1>4a, <2>1, <2>3
  <2>6. QED
    BY <2>4, <2>5
<1>6. ASSUME NEW j \in 1 .. n + 1
      PROVE  worker_urls'[j].count = Load(call', worker_urls'[j].url) + left'[worker_urls'[j].url]
  <2>1. CASE j = n + 1
    BY <1>2, <1>3, <1>4a, <2>1
  <2>2. CASE j \in 1 .. n
    <3>1. worker_urls[j].count = Load(call, worker_urls[j].url) + left[worker_urls[j].url]
      BY <1>1, <1>4, <2>2 DEF CountsAreTrue
    <3>2. Load(call', worker_urls[j].url) = Load(call, worker_urls[j].url)
      BY <1>2, LoadIs
    <3>3. QED
      BY <1>2, <1>4, <2>2, <3>1, <3>2
  <2>3. QED
    BY <1>4, <2>1, <2>2
<1>7. ASSUME NEW j \in 1 .. n + 1, NEW k \in 1 .. n + 1, worker_urls'[j].url = worker_urls'[k].url
      PROVE  j = k
  <2>1. \A i \in 1 .. n : worker_urls[i].url # w
    BY <1>2, <1>4 DEF Urls
  <2>2. \A i \in 1 .. n : worker_urls'[i].url # w
    BY <1>4, <2>1
  <2>3. \A i, l \in 1 .. n : worker_urls'[i].url = worker_urls'[l].url => i = l
    BY <1>1, <1>4 DEF CountsAreTrue
  <2>4. j \in 1 .. n \/ j = n + 1
    BY <1>4
  <2>5. k \in 1 .. n \/ k = n + 1
    BY <1>4
  <2>6. QED
    BY <1>4a, <1>7, <2>2, <2>3, <2>4, <2>5
<1>8. \A v \in Workers : server'[v] = "starting" => v \notin Urls'
  BY <1>1, <1>2, <1>5 DEF CountsAreTrue
<1>9. \A d \in Counted(call') : call'[d].url \in Urls'
  BY <1>1, <1>2, <1>5 DEF CountsAreTrue
<1>10. \A v \in Workers : left'[v] # 0 => v \in Urls'
  BY <1>1, <1>2, <1>5 DEF CountsAreTrue
<1>11. QED
  BY <1>4, <1>6, <1>7, <1>8, <1>9, <1>10 DEF CountsAreTrue

LEMMA ProxyingKeepsCounts ==
  \A c \in Ids : RouterTypes /\ OneRequest /\ CountsAreTrue /\ Proxying(c) => CountsAreTrue'
<1>1. SUFFICES ASSUME NEW c \in Ids, RouterTypes, OneRequest, CountsAreTrue, Proxying(c)
               PROVE  CountsAreTrue'
  OBVIOUS
<1>2. CASE Dispatch(c)
  <2>1. UNCHANGED <<worker_urls, left, server>> /\ At(c, "arrived")
    BY <1>2 DEF Dispatch
  <2>2. Moves(c) /\ call'[c].at \in {"routing", "out"}
    <3>1. At(c, "arrived") => Caches(c)
      BY <1>1 DEF OneRequest
    <3>2. QED
      BY <1>1, <1>2, <3>1, DispatchMoves DEF NoCall
  <2>3. Stay
    BY <2>1, <2>2, ElsewhereStays DEF Counted, At
  <2>4. QED
    BY <1>1, <2>1, <2>3, StayKeepsCounts
<1>3. CASE Inspect(c)
  <2>1. UNCHANGED <<worker_urls, left, server>> /\ At(c, "replied")
    BY <1>3 DEF Inspect
  <2>2. CASE UNCHANGED call
    <3>1. Stay
      BY <2>2 DEF Stay
    <3>2. QED
      BY <1>1, <2>1, <3>1, StayKeepsCounts
  <2>3. CASE Answer(c)
    <3>1. Moves(c) /\ call'[c].at = "out"
      BY <1>1, <2>3, AnswerMoves DEF NoCall
    <3>2. Stay
      BY <2>1, <3>1, ElsewhereStays DEF Counted, At
    <3>3. QED
      BY <1>1, <2>1, <3>2, StayKeepsCounts
  <2>4. QED
    BY <1>3, <2>2, <2>3 DEF Inspect
<1>4. CASE Wake(c)
  <2>1. UNCHANGED <<worker_urls, left, server>> /\ At(c, "replied")
    <3>1. asleep = c /\ c # Nobody
      BY <1>4 DEF Wake, Nobody, Ids
    <3>2. QED
      BY <1>1, <1>4, <3>1 DEF OneRequest, Wake
  <2>2. Moves(c) /\ call'[c].at \in {"routing", "out"}
    BY <1>1, <1>4, WakeMoves, AnswerMoves DEF NoCall
  <2>3. Stay
    BY <2>1, <2>2, ElsewhereStays DEF Counted, At
  <2>4. QED
    BY <1>1, <2>1, <2>3, StayKeepsCounts
<1>5. QED
  BY <1>1, <1>2, <1>3, <1>4, UseUrlKeepsCounts, ReadBodyKeepsCounts, FinishUrlKeepsCounts DEF Proxying
-----------------------------------------------------------------------------
(* What is sent and kept spells its text *)

LEMMA NoReplySpells == NoReply.text = Spelled(NoReply.tokens)
BY FlatEmpty DEF NoReply, Spelled

LEMMA AlikeBefore ==
  ASSUME NEW told, NEW more, told \subseteq more, Alike(more)
  PROVE  Alike(told)
BY DEF Alike

\* A request moves, and the middleware tells the trie nothing.
LEMMA MoveKeepsSpelling ==
  ASSUME Spelling, NEW c \in Ids, Moves(c), UNCHANGED <<options, trie, inserted>>,
         call'[c].reply.text = Spelled(call'[c].reply.tokens),
         Caches(c) /\ call'[c].at \notin {"out", "arrived"} =>
           call[c].at \notin {"out", "arrived"} /\ call'[c].input = call[c].input
  PROVE  Spelling'
<1>1. \A d \in Ids : call'[d].reply.text = Spelled(call'[d].reply.tokens)
  BY DEF Spelling, Moves
<1>2. ASSUME Alike(inserted) PROVE Kept(trie', inserted')
  BY <1>2 DEF Spelling
<1>3. ASSUME Alike(inserted), NEW d \in Ids, Caches(d), call'[d].at \notin {"out", "arrived"}
      PROVE  Spelled(call'[d].input) = Prompt[d[2]]
  <2>1. CASE d = c
    BY <1>3, <2>1 DEF Spelling
  <2>2. CASE d # c
    BY <1>3, <2>2 DEF Spelling, Moves
  <2>3. QED
    BY <2>1, <2>2
<1>4. \A d \in Ids : Caches(d)' <=> Caches(d)
  BY DEF Caches
<1>5. QED
  BY <1>1, <1>2, <1>3, <1>4 DEF Spelling

\* What a request gets in return spells its text, and the trie is told of nothing.
LEMMA RepliesKeepSpelling ==
  ASSUME Spelling, UNCHANGED <<options, trie, inserted>>,
         \A c \in Ids : \/ call'[c] = call[c]
                        \/ /\ At(c, "proxied") /\ call'[c].input = call[c].input
                           /\ call'[c].reply.text = Spelled(call'[c].reply.tokens)
  PROVE  Spelling'
<1>1. \A d \in Ids : call'[d].reply.text = Spelled(call'[d].reply.tokens)
  BY DEF Spelling
<1>2. ASSUME Alike(inserted) PROVE Kept(trie', inserted')
  BY <1>2 DEF Spelling
<1>3. ASSUME Alike(inserted), NEW d \in Ids, Caches(d), call'[d].at \notin {"out", "arrived"}
      PROVE  Spelled(call'[d].input) = Prompt[d[2]]
  BY <1>3 DEF Spelling, At
<1>4. \A d \in Ids : Caches(d)' <=> Caches(d)
  BY DEF Caches
<1>5. QED
  BY <1>1, <1>2, <1>3, <1>4 DEF Spelling

\* A request leaves, and the trie is told of it.
LEMMA KeepKeepsSpelling ==
  ASSUME RouterTypes, Spelling, NEW c \in Ids, Caches(c), At(c, "replied"), Answer(c), Keep(c),
         UNCHANGED options
  PROVE  Spelling'
<1>1. Moves(c) /\ call'[c] = NoCall
  BY AnswerMoves
<1>2. /\ Prompt[c[2]] \in Text /\ call[c].reply.text \in Text
      /\ call[c].input \in Seq(Text) /\ call[c].reply.tokens \in Seq(Text)
  <2>1. call[c] \in Calls
    BY DEF RouterTypes
  <2>2. call[c].input \in Seq(Text) /\ call[c].reply \in Replies
    BY <2>1 DEF Calls
  <2>3. call[c].reply.text \in Text /\ call[c].reply.tokens \in Seq(Text)
    BY <2>2 DEF Replies
  <2>4. QED
    BY <2>2, <2>3, IdIs, RouterAssumption DEF Caches
<1> DEFINE text == Prompt[c[2]] \o call[c].reply.text
           tokens == call[c].input \o call[c].reply.tokens
<1>3. text \in Text /\ tokens \in Seq(Text)
  BY <1>2, TextIs, ConcatProperties
<1>4. PICK path \in DOMAIN trie : last_node(trie, text, path) /\ trie' = insert(trie, path, text, tokens)
  BY DEF Keep
<1>5. inserted' = inserted \cup {[text |-> text, tokens |-> tokens]}
  BY DEF Keep
<1>6. ASSUME Alike(inserted') PROVE Kept(trie', inserted') /\ Alike(inserted)
  <2>1. Alike(inserted)
    BY <1>5, <1>6, AlikeBefore
  <2>2. Spelled(call[c].input) = Prompt[c[2]] /\ Spelled(call[c].reply.tokens) = call[c].reply.text
    BY <2>1 DEF Spelling, At
  <2>3. Spelled(tokens) = text
    <3>1. Spelled(tokens) = Spelled(call[c].input) \o Spelled(call[c].reply.tokens)
      BY <1>2, TextIs, FlatConcat DEF Spelled
    <3>2. QED
      BY <2>2, <3>1
  <2>4. Kept(trie, inserted) /\ Shape(trie) /\ inserted \in SUBSET Told
    BY <2>1 DEF Spelling, RouterTypes
  <2> HIDE DEF text, tokens
  <2>5. Kept(insert(trie, path, text, tokens), inserted \cup {[text |-> text, tokens |-> tokens]})
    BY <1>3, <1>4, <1>5, <1>6, <2>3, <2>4, InsertKeeps
  <2>6. QED
    BY <1>4, <1>5, <2>1, <2>5
<1> HIDE DEF text, tokens
<1>7. \A d \in Ids : call'[d].reply.text = Spelled(call'[d].reply.tokens)
  BY <1>1, NoReplySpells DEF Spelling, Moves, NoCall
<1>8. ASSUME Alike(inserted'), NEW d \in Ids, Caches(d), call'[d].at \notin {"out", "arrived"}
      PROVE  Spelled(call'[d].input) = Prompt[d[2]]
  <2>1. d # c /\ call'[d] = call[d]
    BY <1>1, <1>8 DEF Moves, NoCall
  <2>2. QED
    BY <1>6, <1>8, <2>1 DEF Spelling
<1>9. \A d \in Ids : Caches(d)' <=> Caches(d)
  BY DEF Caches
<1>10. QED
  BY <1>6, <1>7, <1>8, <1>9 DEF Spelling

LEMMA RetrieveKeepsSpelling ==
  ASSUME RouterTypes, Spelling, NEW c \in Ids, Caches(c), Dispatch(c), Retrieve(c)
  PROVE  Spelling'
<1>1. PICK text \in Text : text = Prompt[c[2]]
  BY IdIs, RouterAssumption DEF Caches
<1>2. CASE Gone(c) /\ call'[c] = NoCall /\ UNCHANGED <<trie, inserted>> /\ Moves(c)
  BY <1>2, NoReplySpells, MoveKeepsSpelling DEF NoCall, Dispatch
<1>3. CASE /\ Moves(c) /\ call'[c].reply = call[c].reply
           /\ \E path \in DOMAIN trie :
                /\ last_node(trie, text, path)
                /\ call'[c].input = Retrieved(trie, path, text)
                /\ trie' = AfterRetrieval(trie, path, text)
  <2>1. PICK path \in DOMAIN trie :
          /\ last_node(trie, text, path)
          /\ call'[c].input = Retrieved(trie, path, text)
          /\ trie' = AfterRetrieval(trie, path, text)
    BY <1>3
  <2>2. inserted' = IF trie' = trie THEN inserted
                    ELSE inserted \cup {[text |-> text, tokens |-> tokenizer(text)]}
    BY <1>1 DEF Retrieve
  <2>3. tokenizer(text) \in Seq(Text) /\ Spelled(tokenizer(text)) = text
    BY TokenizerSpells
  <2>4. Shape(trie) /\ inserted \in SUBSET Told
    BY DEF RouterTypes
  <2>5. ASSUME Alike(inserted')
        PROVE  /\ Alike(inserted) /\ Kept(trie, inserted) /\ Kept(trie', inserted')
    <3>1. Alike(inserted)
      BY <2>2, <2>5, AlikeBefore
    <3>2. Kept(trie, inserted)
      BY <3>1 DEF Spelling
    <3>3. CASE trie' = trie
      BY <2>2, <3>1, <3>2, <3>3
    <3>4. CASE trie' # trie
      <4>1. trie' = insert(trie, path, text, tokenizer(text))
        BY <2>1, <3>4 DEF AfterRetrieval
      <4>2. inserted' = inserted \cup {[text |-> text, tokens |-> tokenizer(text)]}
        BY <2>2, <3>4
      <4>3. PICK tokens \in Seq(Text) : tokens = tokenizer(text)
        BY <2>3
      <4>4. /\ Spelled(tokens) = text /\ trie' = insert(trie, path, text, tokens)
            /\ inserted' = inserted \cup {[text |-> text, tokens |-> tokens]}
            /\ Alike(inserted \cup {[text |-> text, tokens |-> tokens]})
        BY <2>3, <2>5, <4>1, <4>2, <4>3
      <4>5. Kept(insert(trie, path, text, tokens), inserted \cup {[text |-> text, tokens |-> tokens]})
        BY <2>1, <2>4, <3>2, <4>4, InsertKeeps
      <4>6. QED
        BY <3>1, <3>2, <4>4, <4>5
    <3>5. QED
      BY <3>3, <3>4
  <2>6. ASSUME Alike(inserted') PROVE Spelled(call'[c].input) = text
    BY <2>1, <2>4, <2>5, <2>6, RetrievedSpells
  <2>7. \A d \in Ids : call'[d].reply.text = Spelled(call'[d].reply.tokens)
    BY <1>3 DEF Spelling, Moves
  <2>8. ASSUME Alike(inserted'), NEW d \in Ids, Caches(d), call'[d].at \notin {"out", "arrived"}
        PROVE  Spelled(call'[d].input) = Prompt[d[2]]
    <3>1. CASE d = c
      BY <1>1, <2>6, <2>8, <3>1
    <3>2. CASE d # c
      BY <1>3, <2>5, <2>8, <3>2 DEF Spelling, Moves
    <3>3. QED
      BY <3>1, <3>2
  <2>9. \A d \in Ids : Caches(d)' <=> Caches(d)
    BY DEF Caches, Dispatch
  <2>10. QED
    BY <2>5, <2>7, <2>8, <2>9 DEF Spelling
<1>4. QED
  BY <1>1, <1>2, <1>3, DispatchMoves

LEMMA ProxyingKeepsSpelling ==
  \A c \in Ids : RouterTypes /\ OneRequest /\ Spelling /\ Proxying(c) => Spelling'
<1>1. SUFFICES ASSUME NEW c \in Ids, RouterTypes, OneRequest, Spelling, Proxying(c) PROVE Spelling'
  OBVIOUS
<1>2. call[c].reply.text = Spelled(call[c].reply.tokens)
  BY <1>1 DEF Spelling
<1>3. ASSUME Moves(c), call'[c] = NoCall, UNCHANGED <<options, trie, inserted>> PROVE Spelling'
  BY <1>1, <1>3, NoReplySpells, MoveKeepsSpelling DEF NoCall
<1>4. CASE Dispatch(c)
  <2>1. Caches(c) /\ UNCHANGED options
    BY <1>1, <1>4 DEF OneRequest, Dispatch
  <2>2. CASE Retrieve(c)
    BY <1>1, <1>4, <2>1, <2>2, RetrieveKeepsSpelling
  <2>3. CASE ~Retrieve(c)
    BY <1>1, <1>3, <1>4, <2>1, <2>3, DispatchMoves
  <2>4. QED
    BY <2>2, <2>3
<1>5. CASE UseUrl(c)
  <2>1. UNCHANGED <<options, trie, inserted>> /\ At(c, "routing")
    BY <1>5 DEF UseUrl
  <2>2. /\ Moves(c) /\ call'[c].input = call[c].input
        /\ call'[c].reply.text = call[c].reply.text /\ call'[c].reply.tokens = call[c].reply.tokens
    BY <1>1, <1>5, UseUrlMoves
  <2>3. QED
    BY <1>1, <1>2, <2>1, <2>2, MoveKeepsSpelling DEF At
<1>6. CASE ReadBody(c)
  <2>1. UNCHANGED <<options, trie, inserted>> /\ At(c, "body")
    BY <1>6 DEF ReadBody
  <2>2. CASE Moves(c) /\ call'[c].input = call[c].input /\ call'[c].reply = call[c].reply
    BY <1>1, <1>2, <2>1, <2>2, MoveKeepsSpelling DEF At
  <2>3. QED
    BY <1>1, <1>3, <1>6, <2>1, <2>2, ReadBodyMoves
<1>7. CASE FinishUrl(c)
  <2>1. UNCHANGED <<options, trie, inserted>> /\ At(c, "returned")
    BY <1>7 DEF FinishUrl
  <2>2. CASE Moves(c) /\ call'[c].input = call[c].input /\ call'[c].reply = call[c].reply
    BY <1>1, <1>2, <2>1, <2>2, MoveKeepsSpelling DEF At
  <2>3. QED
    BY <1>1, <1>3, <1>7, <2>1, <2>2, FinishUrlMoves, AnswerMoves
<1>8. CASE Inspect(c)
  <2>1. UNCHANGED options /\ At(c, "replied")
    BY <1>8 DEF Inspect
  <2>2. CASE UNCHANGED <<call, trie, inserted>>
    BY <1>1, <2>1, <2>2, RepliesKeepSpelling
  <2>3. CASE Answer(c) /\ Caches(c) /\ Keep(c)
    BY <1>1, <2>1, <2>3, KeepKeepsSpelling
  <2>4. CASE Answer(c) /\ UNCHANGED <<trie, inserted>>
    BY <1>1, <1>3, <2>1, <2>4, AnswerMoves
  <2>5. QED
    BY <1>8, <2>2, <2>3, <2>4 DEF Inspect
<1>9. CASE Wake(c)
  <2>1. UNCHANGED options /\ At(c, "replied") /\ Caches(c)
    <3>1. asleep = c /\ c # Nobody
      BY <1>9 DEF Wake, Nobody, Ids
    <3>2. QED
      BY <1>1, <1>9, <3>1 DEF OneRequest, Wake
  <2>2. CASE /\ Moves(c) /\ call'[c].input = call[c].input /\ call'[c].reply = NoReply
             /\ UNCHANGED <<trie, inserted>>
    BY <1>1, <2>1, <2>2, NoReplySpells, MoveKeepsSpelling DEF At
  <2>3. CASE Answer(c) /\ Keep(c)
    BY <1>1, <2>1, <2>3, KeepKeepsSpelling
  <2>4. CASE Answer(c) /\ UNCHANGED <<trie, inserted>>
    BY <1>1, <1>3, <2>1, <2>4, AnswerMoves
  <2>5. QED
    BY <1>1, <1>9, <2>2, <2>3, <2>4, WakeMoves
<1>10. QED
  BY <1>1, <1>4, <1>5, <1>6, <1>7, <1>8, <1>9 DEF Proxying

LEMMA OthersKeepSpelling ==
  /\ \A p \in Posts : RouterTypes /\ OneRequest /\ Spelling /\ (Send(p) \/ PosterDies(p)) => Spelling'
  /\ \A w \in Workers : RouterTypes /\ OneRequest /\ Spelling
       /\ (Abort(w) \/ Fault(w) \/ Shutdown(w) \/ AddWorker(w)) => Spelling'
  /\ \A c \in Ids : RouterTypes /\ Spelling /\ Serving(c) => Spelling'
<1>1. ASSUME NEW p \in Posts, RouterTypes, OneRequest, Spelling, Send(p) PROVE Spelling'
  <2> DEFINE c == <<post[p].by, p>>
  <2>1. c \in Ids /\ Moves(c) /\ call'[c] = Arrived(c)
    BY <1>1, SendMoves
  <2>2. UNCHANGED <<options, trie, inserted>>
    BY <1>1 DEF Send, routerVars
  <2> HIDE DEF c
  <2>3. QED
    BY <1>1, <2>1, <2>2, ArrivedType, NoReplySpells, MoveKeepsSpelling
<1>2. ASSUME NEW p \in Posts, RouterTypes, Spelling, PosterDies(p) PROVE Spelling'
  <2> DEFINE c == <<"actor", p>>
  <2>1. /\ c \in Ids /\ Moves(c) /\ call'[c].at = call[c].at /\ call'[c].input = call[c].input
        /\ call'[c].reply = call[c].reply
    BY <1>2, PosterDiesMoves
  <2>2. UNCHANGED <<options, trie, inserted>>
    BY <1>2 DEF PosterDies, routerVars
  <2> HIDE DEF c
  <2>3. call[c].reply.text = Spelled(call[c].reply.tokens)
    BY <1>2, <2>1 DEF Spelling
  <2>4. QED
    BY <1>2, <2>1, <2>2, <2>3, MoveKeepsSpelling
<1>3. ASSUME NEW w \in Workers, RouterTypes, Spelling, Abort(w) PROVE Spelling'
  <2>1. UNCHANGED <<options, trie, inserted>>
    BY <1>3 DEF Abort, routerVars
  <2>2. QED
    BY <1>3, <2>1, AbortMoves, RepliesKeepSpelling
<1>4. ASSUME NEW w \in Workers, RouterTypes, Spelling, Fault(w) \/ AddWorker(w) PROVE Spelling'
  <2>1. UNCHANGED <<options, trie, inserted, call>>
    BY <1>4 DEF Fault, AddWorker, routerVars
  <2>2. QED
    BY <1>4, <2>1, RepliesKeepSpelling
<1>5. ASSUME NEW w \in Workers, RouterTypes, Spelling, Shutdown(w) PROVE Spelling'
  <2> DEFINE c == <<"remove", w>>
  <2>1. c \in Ids /\ ~IsGenerate(c) /\ Moves(c) /\ call'[c] = Arrived(c)
    BY <1>5, EveryId, ShutdownMoves
  <2>2. UNCHANGED <<options, trie, inserted>>
    BY <1>5 DEF Shutdown, routerVars
  <2> HIDE DEF c
  <2>3. ~Caches(c)
    BY <2>1 DEF Caches
  <2>4. QED
    BY <1>5, <2>1, <2>2, <2>3, ArrivedType, NoReplySpells, MoveKeepsSpelling
<1>6. ASSUME NEW c \in Ids, RouterTypes, Spelling, Serving(c) PROVE Spelling'
  <2>1. UNCHANGED <<options, trie, inserted>>
    BY <1>6 DEF Serving, Serve, Refuse, routerVars
  <2>2. \A d \in Ids : \/ call'[d] = call[d]
                       \/ /\ At(d, "proxied") /\ call'[d].input = call[d].input
                          /\ call'[d].reply.text = Spelled(call'[d].reply.tokens)
    BY <1>6, ServingMoves DEF Moves
  <2>3. QED
    BY <1>6, <2>1, <2>2, RepliesKeepSpelling
<1>7. QED
  BY <1>1, <1>2, <1>3, <1>4, <1>5, <1>6
-----------------------------------------------------------------------------
(* The theorems *)

\* What every step keeps.
RouterInv == RouterTypes /\ OneRequest /\ CountsAreTrue /\ Spelling

LEMMA InitRouter == Init => RouterInv
<1>1. SUFFICES ASSUME Init PROVE RouterInv
  OBVIOUS
<1>2. /\ \A c \in Ids : call[c] = NoCall
      /\ NoCall.at = "out" /\ NoCall.heard /\ NoCall.reply = NoReply
  BY <1>1 DEF Init, NoCall
<1>3. /\ FirstWorkers \in Seq(Workers) /\ DOMAIN FirstWorkers = 1 .. Len(FirstWorkers)
      /\ Len(FirstWorkers) \in Nat /\ \A i \in 1 .. Len(FirstWorkers) : FirstWorkers[i] \in Workers
  <2>1. FirstWorkers \in Seq(Workers)
    BY RouterAssumption
  <2>2. QED
    BY <2>1, ElementOfSeq, LenProperties
<1>4. /\ DOMAIN worker_urls = 1 .. Len(FirstWorkers)
      /\ \A i \in 1 .. Len(FirstWorkers) :
           worker_urls[i].url = FirstWorkers[i] /\ worker_urls[i].count = 0
  BY <1>1, <1>3 DEF Init
<1>5. RouterTypes
  <2>1. worker_urls \in [1 .. Len(FirstWorkers) -> [url : Workers, count : Int]]
    BY <1>1, <1>3 DEF Init
  <2>2. worker_urls \in Seq([url : Workers, count : Int])
    <3>1. PICK n \in Nat : n = Len(FirstWorkers)
      BY <1>3
    <3>2. worker_urls \in [1 .. n -> [url : Workers, count : Int]]
      BY <2>1, <3>1
    <3>3. QED
      BY <3>2, FunctionSeq
  <2>3. post \in [Posts -> PostStates]
    BY <1>1 DEF Init, PostStates
  <2>4. call \in [Ids -> Calls]
    BY <1>1, NoCallType DEF Init
  <2>5. Shape(trie) /\ inserted \subseteq Told
    BY <1>1, EmptyShape DEF Init
  <2>6. QED
    BY <1>1, <2>2, <2>3, <2>4, <2>5 DEF Init, RouterTypes
<1>6. OneRequest
  <2>1. \A w \in Workers : At(<<"remove", w>>, "out")
    BY <1>2, EveryId DEF At
  <2>2. asleep = Nobody
    BY <1>1 DEF Init
  <2>3. QED
    BY <1>2, <2>1, <2>2 DEF OneRequest, At
<1>7. CountsAreTrue
  <2>1. Counted(call) = {}
    BY <1>2 DEF Counted
  <2>2. \A w : Load(call, w) = 0
    BY <2>1, FS_EmptySet DEF Load, Carried
  <2>3. \A i, j \in DOMAIN FirstWorkers : FirstWorkers[i] = FirstWorkers[j] => i = j
    BY RouterAssumption DEF IsInjective
  <2>4. \A w \in Workers : left[w] = 0
    BY <1>1 DEF Init
  <2>5. \A i \in DOMAIN worker_urls :
          worker_urls[i].count = Load(call, worker_urls[i].url) + left[worker_urls[i].url]
    BY <1>3, <1>4, <2>2, <2>4
  <2>6. ASSUME NEW w \in Workers, server[w] = "starting" PROVE w \notin Urls
    <3>1. w \notin Range(FirstWorkers)
      BY <1>1, <2>6 DEF Init
    <3>2. QED
      BY <1>3, <1>4, <3>1 DEF Urls, Range
  <2>7. \A i, j \in DOMAIN worker_urls : worker_urls[i].url = worker_urls[j].url => i = j
    BY <1>3, <1>4, <2>3
  <2>8. QED
    BY <2>1, <2>4, <2>5, <2>6, <2>7 DEF CountsAreTrue
<1>8. Spelling
  <2>1. Kept(trie, inserted)
    BY <1>1 DEF Init, EmptyTrie, Kept
  <2>2. QED
    BY <1>2, <2>1, NoReplySpells DEF Spelling
<1>9. QED
  BY <1>5, <1>6, <1>7, <1>8 DEF RouterInv

LEMMA StepRouter == RouterInv /\ [Next]_vars => RouterInv'
<1>1. SUFFICES ASSUME RouterInv, [Next]_vars PROVE RouterInv'
  OBVIOUS
<1>2. RouterTypes /\ OneRequest /\ CountsAreTrue /\ Spelling
  BY <1>1 DEF RouterInv
<1>3. ASSUME NEW p \in Posts, Send(p) PROVE RouterInv'
  BY <1>2, <1>3, SendTypes, SendKeepsOne, ClientsKeepCounts, OthersKeepSpelling DEF RouterInv
<1>4. ASSUME NEW p \in Posts, PosterDies(p) PROVE RouterInv'
  BY <1>2, <1>4, PosterDiesTypes, PosterDiesKeepsOne, ClientsKeepCounts, OthersKeepSpelling
  DEF RouterInv
<1>5. ASSUME NEW w \in Workers, AddWorker(w) PROVE RouterInv'
  BY <1>2, <1>5, AddWorkerTypes, ServersKeepOne, AddWorkerKeepsCounts, OthersKeepSpelling
  DEF RouterInv
<1>6. ASSUME NEW w \in Workers, Shutdown(w) PROVE RouterInv'
  BY <1>2, <1>6, ShutdownTypes, ShutdownKeepsOne, ClientsKeepCounts, OthersKeepSpelling
  DEF RouterInv
<1>7. ASSUME NEW w \in Workers, Abort(w) PROVE RouterInv'
  BY <1>2, <1>7, AbortTypes, ServersKeepOne, ClientsKeepCounts, OthersKeepSpelling DEF RouterInv
<1>8. ASSUME NEW w \in Workers, Fault(w) PROVE RouterInv'
  BY <1>2, <1>8, FaultTypes, ServersKeepOne, ClientsKeepCounts, OthersKeepSpelling DEF RouterInv
<1>9. ASSUME NEW c \in Ids, Serving(c) PROVE RouterInv'
  BY <1>2, <1>9, ServingTypes, ServersKeepOne, ClientsKeepCounts, OthersKeepSpelling DEF RouterInv
<1>10. ASSUME NEW c \in Ids, Proxying(c) PROVE RouterInv'
  <2>1. RouterTypes'
    BY <1>2, <1>10, DispatchTypes, UseUrlTypes, ReadBodyTypes, FinishUrlTypes, InspectTypes, WakeTypes
    DEF Proxying
  <2>2. QED
    BY <1>2, <1>10, <2>1, ProxyingKeepsOne, ProxyingKeepsCounts, ProxyingKeepsSpelling DEF RouterInv
<1>11. CASE UNCHANGED vars
  <2>1. UNCHANGED <<options, server, post, call, worker_urls, trie, inserted, asleep, left, shutdown>>
    BY <1>11 DEF vars, routerVars
  <2>2. RouterTypes'
    BY <1>2, <2>1 DEF RouterTypes, Shape
  <2>3. OneRequest'
    BY <1>2, <2>1, QuietKeepsOne
  <2>4. CountsAreTrue'
    BY <1>2, <2>1, StayKeepsCounts DEF Stay
  <2>5. Spelling'
    BY <1>2, <2>1, RepliesKeepSpelling
  <2>6. QED
    BY <2>2, <2>3, <2>4, <2>5 DEF RouterInv
<1>12. QED
  BY <1>1, <1>3, <1>4, <1>5, <1>6, <1>7, <1>8, <1>9, <1>10, <1>11 DEF Next, Faults

\* The types of the router's state, one request a post, counts that are true and texts that
\* are spelled: what every step of the clients, the event loop and the servers keeps.
THEOREM RouterSafety == Spec => []RouterInv
<1>1. QED
  BY InitRouter, StepRouter, PTL DEF Spec

\* No two requests of one post have answers that somebody waits for.
OneAwaited ==
  \A c, d \in Ids :
    (/\ IsGenerate(c) /\ ~At(c, "out") /\ call[c].heard
     /\ IsGenerate(d) /\ ~At(d, "out") /\ call[d].heard /\ c[2] = d[2]) => c = d

\* A post that is retried, or sent again by the caller when its actor died, never has two
\* requests in the router whose answers somebody waits for (_post, post, _distributed_post).
THEOREM PostsHaveOneRequest == Spec => []OneAwaited
<1>1. RouterInv => OneAwaited
  <2>1. SUFFICES ASSUME OneRequest, NEW c \in Ids, NEW d \in Ids, c[2] = d[2],
                        IsGenerate(c), ~At(c, "out"), call[c].heard,
                        IsGenerate(d), ~At(d, "out"), call[d].heard
                 PROVE  c = d
    BY DEF RouterInv, OneAwaited
  <2>2. c[1] = d[1]
    BY <2>1 DEF OneRequest
  <2>3. c = <<c[1], c[2]>> /\ d = <<d[1], d[2]>>
    BY <2>1, IdIs
  <2>4. QED
    BY <2>1, <2>2, <2>3
<1>2. QED
  BY <1>1, RouterSafety, PTL

\* The count of a server is that of its requests under way and of those whose client went
\* away in body(): _finish_url takes back each that _use_url added but those.
THEOREM CountsHold == Spec => []CountsAreTrue
<1>1. RouterInv => CountsAreTrue
  BY DEF RouterInv
<1>2. QED
  BY <1>1, RouterSafety, PTL

\* What is retrieved for a text the trie was told spells that text (retrieve_from_text), if
\* the tokens of texts that begin alike do.
THEOREM TokensAlwaysSpell == Spec => []TokensSpellTheText
<1>1. RouterInv => TokensSpellTheText
  <2>1. SUFFICES ASSUME RouterInv, AlikeFromTheStart, NEW x \in inserted, NEW path \in DOMAIN trie,
                        last_node(trie, x.text, path)
                 PROVE  Spelled(Retrieved(trie, path, x.text)) = x.text
    BY DEF TokensSpellTheText
  <2>2. Shape(trie) /\ inserted \in SUBSET Told /\ x.text \in Text
    BY <2>1 DEF RouterInv, RouterTypes, Told
  <2>3. Kept(trie, inserted)
    BY <2>1 DEF RouterInv, Spelling, AlikeFromTheStart, Alike
  <2>4. QED
    BY <2>1, <2>2, <2>3, RetrievedSpells
<1>2. QED
  BY <1>1, RouterSafety, PTL

LEMMA UnderWayIs == \A w : UnderWay(w) = Load(call, w)
<1>1. ASSUME NEW w
      PROVE  {c \in Ids : call[c].url = w /\ call[c].at \in {"body", "proxied", "returned"}}
               = Carried(call, w)
  BY DEF Carried, Counted
<1>2. QED
  BY <1>1 DEF UnderWay, Load

\* Only _use_url sends a request to a server.
LEMMA SentByUseUrl ==
  ASSUME RouterInv, Next, NEW c \in Ids, At(c, "routing"), call'[c].at \in {"body", "proxied"}
  PROVE  UseUrl(c)
<1>1. RouterTypes /\ OneRequest
  BY DEF RouterInv
<1>2. call'[c] # call[c] /\ call[c].at = "routing"
  BY DEF At
<1>3. ASSUME NEW p \in Posts, Send(p) PROVE FALSE
  BY <1>1, <1>2, <1>3, SendMoves, ArrivedType DEF Moves
<1>4. ASSUME NEW p \in Posts, PosterDies(p) PROVE FALSE
  BY <1>1, <1>2, <1>4, PosterDiesMoves DEF Moves
<1>5. ASSUME NEW w \in Workers, AddWorker(w) \/ Fault(w) PROVE FALSE
  BY <1>2, <1>5 DEF AddWorker, Fault
<1>6. ASSUME NEW w \in Workers, Shutdown(w) PROVE FALSE
  BY <1>1, <1>2, <1>6, EveryId, ShutdownMoves, ArrivedType DEF Moves
<1>7. ASSUME NEW w \in Workers, Abort(w) PROVE FALSE
  BY <1>1, <1>2, <1>7, AbortMoves DEF At
<1>8. ASSUME NEW d \in Ids, Serving(d) PROVE FALSE
  BY <1>1, <1>2, <1>8, ServingMoves DEF Moves, At
<1>9. ASSUME NEW d \in Ids, Proxying(d), ~UseUrl(d) PROVE FALSE
  <2>1. ~At(d, "routing")
    <3>1. Wake(d) => At(d, "replied")
      <4>1. d # Nobody
        BY DEF Ids, Nobody
      <4>2. QED
        BY <1>1, <4>1 DEF OneRequest, Wake
    <3>2. QED
      BY <1>9, <3>1 DEF Proxying, ReadBody, FinishUrl, Inspect, Dispatch, At
  <2>2. Moves(d) \/ UNCHANGED call
    <3>1. Dispatch(d) => (At(d, "arrived") => Caches(d))
      BY <1>1 DEF OneRequest
    <3>2. QED
      BY <1>1, <1>9, <3>1, DispatchMoves, ReadBodyMoves, FinishUrlMoves, WakeMoves, AnswerMoves
      DEF Proxying, Inspect
  <2>3. d # c
    BY <1>2, <2>1 DEF At
  <2>4. QED
    BY <1>2, <2>2, <2>3 DEF Moves
<1>10. ASSUME NEW d \in Ids, UseUrl(d) PROVE d = c
  BY <1>1, <1>2, <1>10, UseUrlMoves DEF Moves
<1>11. QED
  BY <1>3, <1>4, <1>5, <1>6, <1>7, <1>8, <1>9, <1>10 DEF Next, Faults, Proxying

\* _use_url sends a request to a server that has no more under way than any other, counting
\* those that were left in body().
THEOREM AlwaysLeastLoaded == Spec => LeastLoaded
<1> DEFINE Sent(c) == call[c].at = "routing" /\ call'[c].at \in {"body", "proxied"}
           Least(c) == \A w \in Urls :
                         UnderWay(call'[c].url) + left[call'[c].url] <= UnderWay(w) + left[w]
<1>1. ASSUME RouterInv, Next, NEW c \in Ids, Sent(c) PROVE Least(c)
  <2>1. UseUrl(c)
    BY <1>1, SentByUseUrl DEF At
  <2>2. RouterTypes /\ CountsAreTrue
    BY <1>1 DEF RouterInv
  <2>3. worker_urls # <<>> /\ call'[c].url = worker_urls[Chosen].url
    BY <1>1, <2>1, <2>2, UseUrlMoves
  <2>4. /\ Chosen \in DOMAIN worker_urls
        /\ \A j \in DOMAIN worker_urls : worker_urls[Chosen].count <= worker_urls[j].count
    BY <2>2, <2>3, ChosenIsLowest DEF RouterTypes
  <2>5. \A j \in DOMAIN worker_urls :
          worker_urls[j].count = UnderWay(worker_urls[j].url) + left[worker_urls[j].url]
    BY <2>2, UnderWayIs DEF CountsAreTrue
  <2>6. QED
    BY <2>3, <2>4, <2>5 DEF Urls
<1>2. RouterInv /\ [Next]_vars => [\A c \in Ids : Sent(c) => Least(c)]_vars
  BY <1>1
<1>3. Spec => [][\A c \in Ids : Sent(c) => Least(c)]_vars
  BY <1>2, RouterSafety, PTL DEF Spec
<1>4. QED
  BY <1>3 DEF LeastLoaded
=============================================================================
