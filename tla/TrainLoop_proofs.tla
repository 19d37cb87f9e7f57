-------------------------- MODULE TrainLoop_proofs --------------------------
(***************************************************************************)
(* Proofs about TrainLoop: in which order, how far off-policy and on which *)
(* groups both drivers train, for every job and through every crash.       *)
(***************************************************************************)
EXTENDS TrainLoop, SequenceTheorems, TLAPS

(* The calls a driver makes *)
Gen(r) == [op |-> "generate", id |-> r]
Evl(r) == [op |-> "eval", id |-> r]
Sav(r) == [op |-> "save", id |-> r]

CallTypes == [op : {"generate", "eval", "save"}, id : Rollouts]
Data == [batch : Int, versions : SUBSET Int]
Step == [rollout : Int, source : Int, batch : Int, versions : SUBSET Int]

\* The iterations of the loop, before and after the training of theirs.
Before == {"fetch", "await", "train"}
Trained == {"saveModel", "saveData", "sync", "push"}
Settled == {"eval", "evalWait", "next"}
Outside == {"load", "firstPush", "launch", "done"}

TypeOK ==
  /\ job \in Jobs
  /\ pc \in Before \cup Trained \cup Settled \cup Outside
  /\ rollout \in Rollouts /\ (pc \notin Outside => rollout < NumRollouts)
  /\ future \in Rollouts \cup {None} /\ current \in Rollouts \cup {None}
  /\ pushing \in BOOLEAN
  /\ calls \in Seq(CallTypes) /\ serving \in Int
  /\ results \in [Rollouts -> Data]
  /\ \A r \in Rollouts : results[r] # NoData => results[r].batch \in Nat
  /\ position \in Nat /\ buffer \in Seq(Nat)
  /\ model \in Seq(Step) /\ served \in Int
  /\ saved \in Seq(Step) /\ Len(saved) <= NumRollouts
  /\ savedData \in [Rollouts -> Nat \cup {None}]
  /\ crashes \in Nat /\ torn \in BOOLEAN
-----------------------------------------------------------------------------
(* The driver: which calls are out, and where the data of a rollout is. *)

\* The early launched generation may be under way or over.
MayRun == {<<>>} \cup {<<Gen(r)>> : r \in {future} \ {None}}

CallsInv ==
  /\ pc \in {"load", "firstPush", "launch", "push"} => calls = <<>>
  /\ pc = "await" => calls \in {<<>>, <<Gen(rollout)>>, <<Evl(0), Gen(rollout)>>}
  /\ pc \in {"fetch", "train", "saveModel", "sync", "eval", "next", "done"} => calls \in MayRun
  /\ pc = "saveData" => calls \in MayRun \cup {Append(c, Sav(rollout)) : c \in MayRun}
  /\ pc = "evalWait" => calls \in MayRun \cup {Append(c, Evl(rollout)) : c \in MayRun}

\* update_weights runs only when nothing is called; a call that is served began
\* with the weights the engines have.
PushInv ==
  /\ pushing => pc \in {"firstPush", "push"}
  /\ serving # None =>
       calls # <<>> /\ Head(calls).op # "save" /\ serving = served /\ served # None
  /\ pc \in {"load", "firstPush"} \/ served \in Nat

\* The data of rollout r is there, or will be.
Covered(r) == future = r \/ (future = None /\ current = r /\ Ready(r))

\* Up to which rollout data may have been generated.
Reach ==
  IF pc \in {"load", "firstPush", "launch"} THEN None
  ELSE IF Async THEN IF pc = "fetch" THEN rollout ELSE rollout + 1
  ELSE IF pc = "fetch" THEN rollout - 1 ELSE rollout

DriverInv ==
  /\ pc \in {"launch", "sync"} => Async
  /\ pc = "await" => ~Async
  /\ pc \in {"load", "firstPush", "launch"} => future = None /\ current = None
  /\ ~Async => future = None
  /\ pc = "train" => current = rollout /\ Ready(rollout)
  /\ Async /\ pc = "fetch" => Covered(rollout)
  /\ Async /\ pc \in {"train", "saveModel", "saveData", "sync"} /\ rollout + 1 < NumRollouts =>
       future = rollout + 1
  /\ Async /\ pc \in {"push"} \cup Settled /\ rollout + 1 < NumRollouts => Covered(rollout + 1)
  /\ pc = "push" => future = None

\* Data is there only for rollouts that were asked for, and not while the call
\* that generates it is still out.
ResultsInv ==
  /\ \A r \in Rollouts : results[r] # NoData /\ pc # "done" => r <= Reach
  /\ \A i \in 1 .. Len(calls) : calls[i].op = "generate" => results[calls[i].id] = NoData
  /\ pc = "await" /\ calls = <<>> => Ready(rollout)
-----------------------------------------------------------------------------
(* The models: each is trained on the rollouts before it, one after the other. *)

Ordered(m) == \A k \in 1 .. Len(m) : m[k].rollout = k - 1 /\ m[k].source = k - 1
Fresh(m) == \A k \in 1 .. Len(m) : \A v \in m[k].versions : k - 1 - v \in 0 .. Lag

ModelInv ==
  /\ pc = "load" => model = <<>>
  /\ pc \in {"firstPush", "launch"} \cup Before => Len(model) = rollout
  /\ pc \in Trained \cup Settled => Len(model) = rollout + 1
  /\ pc = "saveData" => saved = model

OrderInv == Ordered(model) /\ Ordered(saved)

\* How far the engines are behind the model.
Behind(n, v) == IF Async THEN n - v \in 0 .. n % UpdateInterval ELSE v = n
EnginesInv ==
  /\ pc = "launch" => served = rollout
  /\ pc \in Before \cup Trained => Behind(rollout, served)
  /\ pc \in Settled => Behind(rollout + 1, served)

FreshInv ==
  /\ Fresh(model) /\ Fresh(saved)
  /\ \A r \in Rollouts : \A v \in results[r].versions : r - v \in 0 .. Lag
  /\ \A i \in 1 .. Len(calls) : calls[i].op = "generate" => calls[i].id - served \in 0 .. Lag

LoopInv ==
  /\ TypeOK /\ CallsInv /\ PushInv /\ DriverInv /\ ResultsInv
  /\ ModelInv /\ OrderInv /\ EnginesInv /\ FreshInv
-----------------------------------------------------------------------------
(* The groups: whatever no crash has torn. *)

Different(s) == \A i, j \in 1 .. Len(s) : s[i] = s[j] => i = j
Batches(m) == {m[k].batch : k \in 1 .. Len(m)}
Once(m) == \A j, k \in 1 .. Len(m) : m[j].batch = m[k].batch => j = k

\* Data that no model was trained on yet.
Untrained == {r \in Rollouts : results[r] # NoData /\ r >= Len(model)}
Waiting == {results[r].batch : r \in Untrained}

GroupInv ==
  /\ Once(model) /\ Once(saved)
  /\ Different(buffer) /\ (pc = "load" => buffer = <<>>)
  /\ \A r, q \in Untrained : results[r].batch = results[q].batch => r = q
  /\ Batches(model) \cup Waiting \cup Elems(buffer) \subseteq 0 .. position - 1
  /\ Batches(model) \cap Waiting = {} /\ Batches(model) \cap Elems(buffer) = {}
  /\ Waiting \cap Elems(buffer) = {}

\* A checkpoint that is whole: its data position lies beyond what was trained on.
SavedInv ==
  /\ saved # <<>> /\ savedData[Len(saved) - 1] # None =>
       Batches(saved) \subseteq 0 .. savedData[Len(saved) - 1] - 1
  /\ pc = "load" => saved = <<>> \/ savedData[Len(saved) - 1] # None
  /\ \A r \in Rollouts : savedData[r] # None => r < Len(saved)
  /\ pc \in {"firstPush", "launch", "saveModel"} \cup Before => Len(saved) <= rollout
  /\ pc \in Trained \cup Settled => Len(saved) <= rollout + 1

OnceInv == torn \/ (GroupInv /\ SavedInv)
-----------------------------------------------------------------------------
(* Short queues, and division *)

LEMMA Pairs ==
  ASSUME NEW x, NEW y
  PROVE  Append(<<x>>, y) = <<x, y>> /\ <<x>> \o <<y>> = <<x, y>> /\ Tail(<<x, y>>) = <<y>>
<1> DEFINE S == {x, y}
           a == Append(<<x>>, y)
           b == <<x>> \o <<y>>
           c == <<x, y>>
<1>1. <<x>> \in Seq(S) /\ <<y>> \in Seq(S) /\ y \in S /\ Len(<<x>>) = 1 /\ Len(<<y>>) = 1
  OBVIOUS
<1>2. a \in Seq(S) /\ Len(a) = 2 /\ a[1] = x /\ a[2] = y
  BY <1>1, AppendProperties
<1>3. b \in Seq(S) /\ Len(b) = 2 /\ b[1] = x /\ b[2] = y
  BY <1>1, ConcatProperties
<1>4. c \in Seq(S) /\ Len(c) = 2 /\ c[1] = x /\ c[2] = y /\ Tail(c) = <<y>>
  OBVIOUS
<1> HIDE DEF a, b, c
<1>5. a = c
  BY <1>2, <1>4, SeqEqual
<1>6. b = c
  BY <1>3, <1>4, SeqEqual
<1>7. QED
  BY <1>4, <1>5, <1>6 DEF a, b, c

LEMMA Queue ==
  \A x, y : /\ Append(<<>>, x) = <<x>> /\ Append(<<x>>, y) = <<x, y>>
            /\ <<>> \o <<x>> = <<x>> /\ <<x>> \o <<y>> = <<x, y>>
            /\ Head(<<x>>) = x /\ Tail(<<x>>) = <<>>
            /\ Head(<<x, y>>) = x /\ Tail(<<x, y>>) = <<y>>
            /\ Len(<<>>) = 0 /\ Len(<<x>>) = 1 /\ Len(<<x, y>>) = 2
            /\ <<x>>[1] = x /\ <<x, y>>[1] = x /\ <<x, y>>[2] = y
            /\ <<x>> # <<>> /\ <<x, y>> # <<>>
<1> TAKE x, y
<1>1. Append(<<>>, x) = <<x>> /\ <<>> \o <<x>> = <<x>>
  OBVIOUS
<1>2. Head(<<x>>) = x /\ Tail(<<x>>) = <<>> /\ Head(<<x, y>>) = x
  OBVIOUS
<1>3. Len(<<>>) = 0 /\ Len(<<x>>) = 1 /\ Len(<<x, y>>) = 2 /\ <<x>> # <<>> /\ <<x, y>> # <<>>
  OBVIOUS
<1>4. <<x>>[1] = x /\ <<x, y>>[1] = x /\ <<x, y>>[2] = y
  OBVIOUS
<1>5. QED
  BY <1>1, <1>2, <1>3, <1>4, Pairs

LEMMA Division ==
  ASSUME NEW n \in Nat, NEW k \in Nat \ {0}
  PROVE  n = k * (n \div k) + (n % k) /\ n % k \in 0 .. k - 1 /\ n \div k \in Nat
<1>1. n = k * (n \div k) + (n % k)
  OBVIOUS
<1>2. n % k \in 0 .. k - 1
  OBVIOUS
<1>3. n \div k \in Nat
  OBVIOUS
<1>4. QED
  BY <1>1, <1>2, <1>3

LEMMA DivisionUnique ==
  ASSUME NEW k \in Nat \ {0}, NEW p \in Int, NEW q \in Int,
         NEW r \in 0 .. k - 1, NEW s \in 0 .. k - 1, k * p + r = k * q + s
  PROVE  p = q /\ r = s
<1>1. \A d \in Int : d > 0 => k * d >= k
  OBVIOUS
<1>2. k * (p - q) = s - r /\ p - q \in Int /\ k * (q - p) = r - s /\ q - p \in Int
  OBVIOUS
<1>3. p = q
  BY <1>1, <1>2
<1>4. QED
  BY <1>3

\* The remainder of the next number.
LEMMA NextRemainder ==
  ASSUME NEW a \in Nat, NEW u \in Nat \ {0}
  PROVE  IF (a + 1) % u = 0 THEN a % u = u - 1 ELSE (a + 1) % u = (a % u) + 1
<1> DEFINE p == a \div u
           r == a % u
           q == (a + 1) \div u
           s == (a + 1) % u
<1>1. a = u * p + r /\ r \in 0 .. u - 1 /\ p \in Nat
  BY Division
<1>2. a + 1 = u * q + s /\ s \in 0 .. u - 1 /\ q \in Nat
  BY Division, a + 1 \in Nat
<1> HIDE DEF p, q, r, s
<1>3. CASE r + 1 < u
  <2>1. u * p + (r + 1) = u * q + s
    BY <1>1, <1>2
  <2>2. r + 1 = s
    BY <2>1, <1>1, <1>2, <1>3, DivisionUnique
  <2>3. QED
    BY <2>2, <1>1 DEF r, s
<1>4. CASE r + 1 = u
  <2>1. u * (p + 1) + 0 = u * q + s
    BY <1>1, <1>2, <1>4
  <2>2. 0 = s
    BY <2>1, <1>1, <1>2, p + 1 \in Int, 0 \in 0 .. u - 1, DivisionUnique
  <2>3. QED
    BY <2>2, <1>1, <1>4 DEF r, s
<1>5. QED
  BY <1>1, <1>3, <1>4

LEMMA Remainder == \A u \in Nat \ {0} : \A a \in Nat : a % u \in 0 .. u - 1
BY Division

-----------------------------------------------------------------------------
(* What the first call is, and what the queue is without it *)

LEMMA FirstCall ==
  ASSUME LoopInv, calls # <<>>
  PROVE  \/ \E r \in Rollouts :
              /\ Head(calls) = Gen(r) /\ r = (IF pc = "await" THEN rollout ELSE future)
              /\ pc \in {"await", "fetch", "train", "saveModel", "sync", "eval", "next", "done",
                         "saveData", "evalWait"}
              /\ \/ calls = <<Gen(r)>>
                 \/ pc = "saveData" /\ calls = <<Gen(r), Sav(rollout)>>
                 \/ pc = "evalWait" /\ calls = <<Gen(r), Evl(rollout)>>
         \/ pc = "await" /\ calls = <<Evl(0), Gen(rollout)>>
         \/ pc = "evalWait" /\ calls = <<Evl(rollout)>>
         \/ pc = "saveData" /\ calls = <<Sav(rollout)>>
<1>1. ASSUME calls \in MayRun
      PROVE  calls = <<Gen(future)>> /\ future \in Rollouts
  BY <1>1 DEF MayRun, LoopInv, TypeOK
<1>2. CASE pc \in {"fetch", "train", "saveModel", "sync", "eval", "next", "done"}
  BY <1>1, <1>2, Queue DEF LoopInv, CallsInv
<1>3. CASE pc = "await"
  <2>1. calls = <<Gen(rollout)>> \/ calls = <<Evl(0), Gen(rollout)>>
    BY <1>3 DEF LoopInv, CallsInv
  <2>2. rollout \in Rollouts
    BY DEF LoopInv, TypeOK
  <2>3. QED
    BY <1>3, <2>1, <2>2, Queue
<1>4. ASSUME NEW x, \E c \in MayRun : calls = Append(c, x)
      PROVE  \/ calls = <<x>>
             \/ calls = <<Gen(future), x>> /\ future \in Rollouts
  <2>1. PICK c \in MayRun : calls = Append(c, x)
    BY <1>4
  <2>2. c = <<>> \/ (c = <<Gen(future)>> /\ future \in Rollouts)
    BY <2>1 DEF MayRun, LoopInv, TypeOK
  <2>3. QED
    BY <2>1, <2>2, Queue, ZenonT(40)
<1>5. CASE pc = "saveData"
  <2>1. calls \in MayRun \/ \E c \in MayRun : calls = Append(c, Sav(rollout))
    BY <1>5 DEF LoopInv, CallsInv
  <2>2. QED
    BY <1>1, <1>4, <1>5, <2>1, Queue
<1>6. CASE pc = "evalWait"
  <2>1. calls \in MayRun \/ \E c \in MayRun : calls = Append(c, Evl(rollout))
    BY <1>6 DEF LoopInv, CallsInv
  <2>2. QED
    BY <1>1, <1>4, <1>6, <2>1, Queue
<1>7. QED
  BY <1>2, <1>3, <1>5, <1>6 DEF LoopInv, CallsInv, TypeOK, Before, Trained, Settled, Outside

\* The calls a step may leave.
LEMMA KnownCalls ==
  ASSUME NEW r \in Rollouts, NEW q \in Rollouts
  PROVE  /\ Gen(r) \in CallTypes /\ Evl(r) \in CallTypes /\ Sav(r) \in CallTypes
         /\ <<>> \in Seq(CallTypes) /\ <<Gen(r)>> \in Seq(CallTypes)
         /\ <<Evl(r)>> \in Seq(CallTypes) /\ <<Sav(r)>> \in Seq(CallTypes)
         /\ <<Evl(q), Gen(r)>> \in Seq(CallTypes) /\ <<Gen(q), Sav(r)>> \in Seq(CallTypes)
         /\ <<Gen(q), Evl(r)>> \in Seq(CallTypes)
<1>1. Gen(r) \in CallTypes /\ Evl(r) \in CallTypes /\ Sav(r) \in CallTypes
  BY DEF Gen, Evl, Sav, CallTypes
<1>2. Gen(q) \in CallTypes /\ Evl(q) \in CallTypes
  BY DEF Gen, Evl, CallTypes
<1>3. \A x, y \in CallTypes : <<x>> \in Seq(CallTypes) /\ <<x, y>> \in Seq(CallTypes)
  OBVIOUS
<1>4. QED
  BY <1>1, <1>2, <1>3

\* A queue with no generation in it, and one with a single one.
Asks(queue, r) ==
  \A i \in 1 .. Len(queue) : queue[i].op = "generate" => queue[i].id = r
LEMMA Asked ==
  ASSUME NEW r, NEW q
  PROVE  /\ \A i \in 1 .. Len(<<>>) : <<>>[i].op # "generate"
         /\ \A i \in 1 .. Len(<<Evl(q)>>) : <<Evl(q)>>[i].op # "generate"
         /\ \A i \in 1 .. Len(<<Sav(q)>>) : <<Sav(q)>>[i].op # "generate"
         /\ Asks(<<>>, r) /\ Asks(<<Gen(r)>>, r) /\ Asks(<<Evl(q), Gen(r)>>, r)
         /\ Asks(<<Gen(r), Sav(q)>>, r) /\ Asks(<<Gen(r), Evl(q)>>, r)
<1>1. Gen(r).id = r /\ Evl(q).op # "generate" /\ Sav(q).op # "generate"
  BY DEF Gen, Evl, Sav
<1>2. \A i \in 1 .. 1 : i = 1
  OBVIOUS
<1>3. \A i \in 1 .. 2 : i = 1 \/ i = 2
  OBVIOUS
<1>4. QED
  BY <1>1, <1>2, <1>3, Queue DEF Asks
-----------------------------------------------------------------------------
(* What a rollout draws: parts of sequences whose elements all differ *)

LEMMA PartOf ==
  ASSUME NEW s \in Seq(Nat), NEW m \in Nat \ {0}, NEW n \in Nat, m <= n + 1, n <= Len(s)
  PROVE  /\ SubSeq(s, m, n) \in Seq(Nat)
         /\ Elems(SubSeq(s, m, n)) = {s[i] : i \in m .. n}
         /\ Different(s) => Different(SubSeq(s, m, n))
<1> DEFINE t == SubSeq(s, m, n)
<1>1. t \in Seq(Nat) /\ Len(t) = n - m + 1 /\ \A i \in 1 .. Len(t) : t[i] = s[m + i - 1]
  <2>1. t \in Seq(Nat) /\ Len(t) = IF m <= n THEN n - m + 1 ELSE 0
    BY SubSeqProperties
  <2>2. \A i \in 1 .. n - m + 1 : t[i] = s[m + i - 1]
    BY SubSeqProperties
  <2>3. QED
    BY <2>1, <2>2
<1> HIDE DEF t
<1>2. Elems(t) = {s[i] : i \in m .. n}
  <2>1. \A i \in 1 .. Len(t) : m + i - 1 \in m .. n
    BY <1>1
  <2>2. \A i \in m .. n : i - m + 1 \in 1 .. Len(t) /\ t[i - m + 1] = s[i]
    BY <1>1
  <2>3. Elems(t) \subseteq {s[i] : i \in m .. n}
    <3>1. \A i \in 1 .. Len(t) : t[i] = s[m + i - 1] /\ m + i - 1 \in m .. n
      BY <1>1, <2>1
    <3>2. QED
      BY <3>1 DEF Elems
  <2>4. {s[i] : i \in m .. n} \subseteq Elems(t)
    BY <2>2 DEF Elems
  <2>5. QED
    BY <2>3, <2>4
<1>3. Different(s) => Different(t)
  <2>1. \A i \in 1 .. Len(t) : m + i - 1 \in 1 .. Len(s) /\ i \in Int
    BY <1>1
  <2>2. \A i, j \in Int : m + i - 1 = m + j - 1 => i = j
    OBVIOUS
  <2>3. ASSUME Different(s), NEW i \in 1 .. Len(t), NEW j \in 1 .. Len(t), t[i] = t[j]
        PROVE  i = j
    <3>1. s[m + i - 1] = s[m + j - 1]
      BY <1>1, <2>3
    <3>2. m + i - 1 = m + j - 1
      BY <2>1, <2>3, <3>1 DEF Different
    <3>3. QED
      BY <2>1, <2>2, <3>2
  <2>4. QED
    BY <2>3 DEF Different
<1>4. QED
  BY <1>1, <1>2, <1>3 DEF t

LEMMA JoinedBuffers ==
  ASSUME NEW s \in Seq(Nat), NEW t \in Seq(Nat)
  PROVE  /\ s \o t \in Seq(Nat)
         /\ Elems(s \o t) = Elems(s) \cup Elems(t)
         /\ Different(s) /\ Different(t) /\ Elems(s) \cap Elems(t) = {} => Different(s \o t)
<1> DEFINE u == s \o t
<1>1. /\ u \in Seq(Nat) /\ Len(u) = Len(s) + Len(t)
      /\ \A i \in 1 .. Len(u) : u[i] = IF i <= Len(s) THEN s[i] ELSE t[i - Len(s)]
  BY ConcatProperties
<1> HIDE DEF u
<1>2. Len(s) \in Nat /\ Len(t) \in Nat
  OBVIOUS
<1>3. \A i \in 1 .. Len(u) : \/ (i \in 1 .. Len(s) /\ u[i] = s[i])
                            \/ (i - Len(s) \in 1 .. Len(t) /\ u[i] = t[i - Len(s)] /\ ~(i <= Len(s)))
  <2> TAKE i \in 1 .. Len(u)
  <2>1. CASE i <= Len(s)
    <3>1. i \in 1 .. Len(s)
      BY <1>1, <1>2, <2>1
    <3>2. u[i] = s[i]
      BY <1>1, <2>1
    <3>3. QED
      BY <3>1, <3>2
  <2>2. CASE ~(i <= Len(s))
    <3>1. i - Len(s) \in 1 .. Len(t)
      BY <1>1, <1>2, <2>2
    <3>2. QED
      BY <1>1, <2>2, <3>1
  <2>3. QED
    BY <2>1, <2>2
<1>4. Elems(u) = Elems(s) \cup Elems(t)
  <2>1. \A i \in 1 .. Len(s) : i \in 1 .. Len(u) /\ u[i] = s[i]
    BY <1>1, <1>2
  <2>2. \A i \in 1 .. Len(t) : i + Len(s) \in 1 .. Len(u) /\ u[i + Len(s)] = t[i]
    <3> TAKE i \in 1 .. Len(t)
    <3>1. i + Len(s) \in 1 .. Len(u) /\ ~(i + Len(s) <= Len(s)) /\ i + Len(s) - Len(s) = i
      BY <1>1, <1>2
    <3>2. QED
      BY <1>1, <3>1, SMTT(30)
  <2>3. Elems(u) \subseteq Elems(s) \cup Elems(t)
    BY <1>3 DEF Elems
  <2>4. Elems(s) \subseteq Elems(u)
    BY <2>1 DEF Elems
  <2>5. Elems(t) \subseteq Elems(u)
    BY <2>2 DEF Elems
  <2>6. QED
    BY <2>3, <2>4, <2>5
<1>5. ASSUME Different(s), Different(t), Elems(s) \cap Elems(t) = {}
      PROVE  Different(u)
  <2> SUFFICES ASSUME NEW i \in 1 .. Len(u), NEW j \in 1 .. Len(u), u[i] = u[j]
               PROVE  i = j
    BY DEF Different
  <2>1. /\ \/ (i \in 1 .. Len(s) /\ u[i] = s[i])
           \/ (i - Len(s) \in 1 .. Len(t) /\ u[i] = t[i - Len(s)] /\ ~(i <= Len(s)))
        /\ \/ (j \in 1 .. Len(s) /\ u[j] = s[j])
           \/ (j - Len(s) \in 1 .. Len(t) /\ u[j] = t[j - Len(s)] /\ ~(j <= Len(s)))
    BY <1>3
  <2>2. \A k \in 1 .. Len(s) : \A l \in 1 .. Len(t) : s[k] # t[l]
    BY <1>5 DEF Elems
  <2>3. CASE i \in 1 .. Len(s) /\ u[i] = s[i]
    <3>1. j \in 1 .. Len(s) /\ u[j] = s[j]
      BY <2>1, <2>2, <2>3
    <3>2. QED
      BY <1>5, <2>3, <3>1 DEF Different
  <2>4. CASE i - Len(s) \in 1 .. Len(t) /\ u[i] = t[i - Len(s)]
    <3>1. j - Len(s) \in 1 .. Len(t) /\ u[j] = t[j - Len(s)]
      BY <2>1, <2>2, <2>4
    <3>2. i - Len(s) = j - Len(s)
      BY <1>5, <2>4, <3>1 DEF Different
    <3>3. QED
      BY <3>2, <1>2
  <2>5. QED
    BY <2>1, <2>3, <2>4
<1>6. QED
  BY <1>1, <1>4, <1>5 DEF u

\* The groups given back are not the batch, and no group comes twice.
LEMMA Drawn ==
  ASSUME position \in Nat, buffer \in Seq(Nat), EndGenerate
  PROVE  \E b \in Nat :
           /\ results' = [results EXCEPT ![Head(calls).id] = [batch |-> b, versions |-> {serving, served}]]
           /\ position' \in Nat /\ position <= position' /\ buffer' \in Seq(Nat)
           /\ Elems(buffer') \cup {b} \subseteq Elems(buffer) \cup position .. position' - 1
           /\ Different(buffer) /\ Elems(buffer) \subseteq 0 .. position - 1 =>
                Different(buffer') /\ b \notin Elems(buffer')
<1>1. PICK surplus \in 0 .. MaxSurplus :
       LET n      == surplus + 1
           reused == IF n < Len(buffer) THEN n ELSE Len(buffer)
           drawn  == SubSeq(buffer, 1, reused)
                       \o [i \in 1 .. n - reused |-> position + i - 1]
           left   == SubSeq(buffer, reused + 1, Len(buffer))
       IN /\ position' = position + n - reused
          /\ \E b \in 1 .. n :
               /\ results' = [results EXCEPT ![Head(calls).id] =
                                [batch |-> drawn[b], versions |-> {serving, served}]]
               /\ buffer' = IF Recycle
                            THEN left \o SubSeq(drawn, 1, b - 1) \o SubSeq(drawn, b + 1, n)
                            ELSE left
  BY DEF EndGenerate
<1> DEFINE n      == surplus + 1
           reused == IF n < Len(buffer) THEN n ELSE Len(buffer)
           first  == SubSeq(buffer, 1, reused)
           fresh  == [i \in 1 .. n - reused |-> position + i - 1]
           drawn  == first \o fresh
           left   == SubSeq(buffer, reused + 1, Len(buffer))
<1>2. /\ n \in Nat \ {0} /\ reused \in Nat /\ reused <= n /\ reused <= Len(buffer) /\ Len(buffer) \in Nat
  BY TrainAssumption
<1>3. PICK b \in 1 .. n :
               /\ position' = position + n - reused
               /\ results' = [results EXCEPT ![Head(calls).id] =
                                [batch |-> drawn[b], versions |-> {serving, served}]]
               /\ buffer' = IF Recycle
                            THEN left \o SubSeq(drawn, 1, b - 1) \o SubSeq(drawn, b + 1, n)
                            ELSE left
  BY <1>1
<1> HIDE DEF n, reused
<1>4. /\ first \in Seq(Nat) /\ Len(first) = reused /\ Elems(first) = {buffer[i] : i \in 1 .. reused}
      /\ Different(buffer) => Different(first)
  <2>1. 1 \in Nat \ {0} /\ 1 <= reused + 1
    BY <1>2
  <2>2. Len(first) = reused
    BY <1>2
  <2>3. QED
    BY <1>2, <2>1, <2>2, PartOf
<1>5. /\ left \in Seq(Nat) /\ Elems(left) = {buffer[i] : i \in reused + 1 .. Len(buffer)}
      /\ Different(buffer) => Different(left)
  <2>1. reused + 1 \in Nat \ {0} /\ reused + 1 <= Len(buffer) + 1 /\ Len(buffer) <= Len(buffer)
    BY <1>2
  <2>2. QED
    BY <1>2, <2>1, PartOf
<1>6. /\ fresh \in Seq(Nat) /\ Len(fresh) = n - reused /\ Elems(fresh) \subseteq position .. position' - 1
      /\ Different(fresh)
  <2>1. n - reused \in Nat
    BY <1>2
  <2>2. \A i \in 1 .. n - reused : position + i - 1 \in Nat /\ position + i - 1 \in position .. position' - 1
    BY <1>2, <1>3, <2>1
  <2>3. fresh \in Seq(Nat) /\ Len(fresh) = n - reused
    BY <2>1, <2>2
  <2>4. \A i \in 1 .. n - reused : fresh[i] = position + i - 1
    OBVIOUS
  <2>5. Elems(fresh) \subseteq position .. position' - 1
    BY <2>2, <2>3, <2>4 DEF Elems
  <2>6. Different(fresh)
    BY <2>3, <2>4, <2>1 DEF Different
  <2>7. QED
    BY <2>3, <2>5, <2>6
<1> HIDE DEF first, fresh, left
<1>7. /\ drawn \in Seq(Nat) /\ Len(drawn) = n
      /\ Elems(drawn) = Elems(first) \cup Elems(fresh)
      /\ Different(first) /\ Elems(first) \cap Elems(fresh) = {} => Different(drawn)
  <2>1. Len(first \o fresh) = Len(first) + Len(fresh)
    BY <1>4, <1>6, ConcatProperties
  <2>2. QED
    BY <1>2, <1>4, <1>6, <2>1, JoinedBuffers
<1> HIDE DEF drawn
<1> DEFINE before == SubSeq(drawn, 1, b - 1)
           after  == SubSeq(drawn, b + 1, n)
<1>8. /\ before \in Seq(Nat) /\ Elems(before) = {drawn[i] : i \in 1 .. b - 1}
      /\ Different(drawn) => Different(before)
  BY <1>2, <1>7, b - 1 \in Nat, b - 1 <= n, PartOf
<1>9. /\ after \in Seq(Nat) /\ Elems(after) = {drawn[i] : i \in b + 1 .. n}
      /\ Different(drawn) => Different(after)
  BY <1>2, <1>7, b + 1 \in Nat \ {0}, b + 1 <= n + 1, PartOf
<1>10. buffer' = left \/ buffer' = left \o before \o after
  BY <1>3
<1> HIDE DEF before, after
<1>11. /\ left \o before \in Seq(Nat)
       /\ Elems(left \o before) = Elems(left) \cup Elems(before)
       /\ Different(left) /\ Different(before) /\ Elems(left) \cap Elems(before) = {}
            => Different(left \o before)
  BY <1>5, <1>8, JoinedBuffers
<1>12. /\ left \o before \o after \in Seq(Nat)
       /\ Elems(left \o before \o after) = Elems(left) \cup Elems(before) \cup Elems(after)
       /\ (/\ Different(left \o before) /\ Different(after)
           /\ (Elems(left) \cup Elems(before)) \cap Elems(after) = {})
            => Different(left \o before \o after)
  <2> DEFINE u == left \o before
  <2>1. u \in Seq(Nat) /\ Elems(u) = Elems(left) \cup Elems(before)
    BY <1>11
  <2> HIDE DEF u
  <2>2. /\ u \o after \in Seq(Nat) /\ Elems(u \o after) = Elems(u) \cup Elems(after)
        /\ Different(u) /\ Different(after) /\ Elems(u) \cap Elems(after) = {} => Different(u \o after)
    BY <1>9, <2>1, JoinedBuffers
  <2>3. /\ Elems(u \o after) = Elems(left) \cup Elems(before) \cup Elems(after)
        /\ u \o after \in Seq(Nat)
    BY <2>1, <2>2
  <2>4. /\ Different(u) /\ Different(after) /\ (Elems(left) \cup Elems(before)) \cap Elems(after) = {}
           => Different(u \o after)
    BY <2>1, <2>2
  <2>5. QED
    BY <2>3, <2>4 DEF u
<1>13. drawn[b] \in Nat /\ drawn[b] \in Elems(drawn)
  BY <1>7 DEF Elems
<1>14. Elems(first) \subseteq Elems(buffer) /\ Elems(left) \subseteq Elems(buffer)
  <2>1. 1 .. reused \subseteq 1 .. Len(buffer) /\ reused + 1 .. Len(buffer) \subseteq 1 .. Len(buffer)
    BY <1>2
  <2>2. Elems(buffer) = {buffer[i] : i \in 1 .. Len(buffer)}
    BY DEF Elems
  <2>3. QED
    BY <1>4, <1>5, <2>1, <2>2
<1>15. Elems(before) \subseteq Elems(drawn) /\ Elems(after) \subseteq Elems(drawn)
  <2>1. 1 .. b - 1 \subseteq 1 .. n /\ b + 1 .. n \subseteq 1 .. n
    BY <1>2
  <2>2. Elems(drawn) = {drawn[i] : i \in 1 .. n}
    BY <1>7 DEF Elems
  <2>3. QED
    BY <1>8, <1>9, <2>1, <2>2
<1>16. position' \in Nat /\ position <= position'
  BY <1>2, <1>3
<1>17. Elems(buffer') \cup {drawn[b]} \subseteq Elems(buffer) \cup position .. position' - 1
  BY <1>6, <1>7, <1>10, <1>12, <1>13, <1>14, <1>15
<1>18. ASSUME Different(buffer), Elems(buffer) \subseteq 0 .. position - 1
       PROVE  Different(buffer') /\ drawn[b] \notin Elems(buffer')
  <2>1. Elems(first) \cap Elems(fresh) = {} /\ Elems(left) \cap Elems(fresh) = {}
    BY <1>6, <1>14, <1>16, <1>18
  <2>2. Elems(first) \cap Elems(left) = {}
    BY <1>2, <1>4, <1>5, <1>18, SMTT(30) DEF Different
  <2>3. Different(drawn) /\ Elems(left) \cap Elems(drawn) = {}
    BY <1>4, <1>7, <1>18, <2>1, <2>2
  <2>4. /\ Elems(before) \cap Elems(after) = {}
        /\ drawn[b] \notin Elems(before) /\ drawn[b] \notin Elems(after)
    BY <1>2, <1>7, <1>8, <1>9, <2>3 DEF Different
  <2>5. Different(left \o before)
    BY <1>5, <1>8, <1>11, <1>15, <1>18, <2>3
  <2>6. Different(left \o before \o after)
    BY <1>9, <1>12, <1>15, <2>3, <2>4, <2>5
  <2>7. drawn[b] \notin Elems(left)
    BY <1>13, <2>3
  <2>8. QED
    BY <1>5, <1>10, <1>12, <1>18, <2>4, <2>6, <2>7
<1>19. QED
  BY <1>3, <1>5, <1>10, <1>12, <1>13, <1>16, <1>17, <1>18
-----------------------------------------------------------------------------
(* How far behind engines may be *)

LEMMA Interval == job \in Jobs => UpdateInterval \in Nat \ {0}
BY TrainAssumption DEF UpdateInterval

LEMMA UpToDate ==
  ASSUME job \in Jobs, NEW n \in Nat
  PROVE  Behind(n, n)
<1>1. n % UpdateInterval \in 0 .. UpdateInterval - 1
  BY Interval, Remainder
<1>2. n - n = 0 /\ 0 \in 0 .. n % UpdateInterval
  BY <1>1, Interval
<1>3. QED
  BY <1>2 DEF Behind

\* The rollout launched next is at most an interval ahead of the engines.
LEMMA WithinLag ==
  ASSUME job \in Jobs, NEW n \in Nat, NEW v \in Int, Behind(n, v)
  PROVE  /\ n - v \in 0 .. Lag
         /\ Async => n + 1 - v \in 0 .. Lag
<1>1. n % UpdateInterval \in 0 .. UpdateInterval - 1
  BY Interval, Remainder
<1>2. QED
  BY <1>1, Interval DEF Behind, Lag

\* Without an update, after a rollout that none was due for.
LEMMA StillBehind ==
  ASSUME job \in Jobs, NEW n \in Nat, NEW v \in Int, Behind(n, v),
         Async, (n + 1) % UpdateInterval # 0
  PROVE  Behind(n + 1, v)
<1>1. n % UpdateInterval \in 0 .. UpdateInterval - 1
  BY Interval, Remainder
<1>2. (n + 1) % UpdateInterval = (n % UpdateInterval) + 1
  BY Interval, NextRemainder
<1>3. QED
  BY <1>1, <1>2, Interval DEF Behind
-----------------------------------------------------------------------------
(* Every step keeps the invariant. *)

LEMMA LoadKeepsLoop == LoopInv /\ Load => LoopInv'
<1> SUFFICES ASSUME LoopInv, Load
             PROVE  LoopInv'
  OBVIOUS
<1>0. rollout' \in Rollouts /\ rollout' = Len(saved)
  <2>1. Len(saved) \in Nat /\ Len(saved) <= NumRollouts /\ (saved = <<>> => Len(saved) = 0)
    BY DEF LoopInv, TypeOK
  <2>2. QED
    BY <2>1, TrainAssumption DEF Load, Resumed, Rollouts
<1>1. TypeOK'
  <2>1. position' \in Nat
    <3>1. CASE rollout' > 0 /\ savedData[rollout' - 1] # None
      <4>1. rollout' - 1 \in Rollouts
        BY <1>0, <3>1, TrainAssumption DEF Rollouts
      <4>2. position' = savedData[rollout' - 1]
        BY <3>1 DEF Load, Loaded
      <4>3. QED
        BY <3>1, <4>1, <4>2 DEF LoopInv, TypeOK
    <3>2. CASE ~(rollout' > 0 /\ savedData[rollout' - 1] # None)
      BY <3>2 DEF Load, Loaded
    <3>3. QED
      BY <3>1, <3>2
  <2>2. QED
    BY <1>0, <2>1 DEF LoopInv, TypeOK, Load, Before, Trained, Settled, Outside, diskVars
<1>2. CallsInv'
   BY TrainAssumption DEF LoopInv, TypeOK, CallsInv, MayRun, Gen, Evl, Sav, Load, Loaded,
       Resumed, Async, Before, Trained, Settled, Outside, driverVars, managerVars, diskVars,
       Rollouts, None, NoData, Data
<1>3. PushInv'
   BY TrainAssumption DEF LoopInv, TypeOK, PushInv, CallsInv, Load, Loaded, Resumed, Async,
       Before, Trained, Settled, Outside, driverVars, managerVars, diskVars, Rollouts, None,
       NoData, Data
<1>4. DriverInv'
   BY TrainAssumption DEF LoopInv, TypeOK, DriverInv, Covered, Ready, Load, Loaded, Resumed,
       Async, Before, Trained, Settled, Outside, driverVars, managerVars, diskVars, Rollouts,
       None, NoData, Data
<1>5. ResultsInv'
   BY TrainAssumption DEF LoopInv, TypeOK, ResultsInv, Reach, DriverInv, CallsInv, MayRun, Gen,
       Evl, Sav, Ready, Covered, NoData, Load, Loaded, Resumed, Async, Before, Trained, Settled,
       Outside, driverVars, managerVars, diskVars, Rollouts, None, Data
<1>6. ModelInv'
   BY TrainAssumption DEF LoopInv, TypeOK, ModelInv, Load, Loaded, Resumed, Async, Before,
       Trained, Settled, Outside, driverVars, managerVars, diskVars, Rollouts, None, NoData, Data
<1>7. OrderInv'
   BY TrainAssumption DEF LoopInv, TypeOK, OrderInv, Ordered, ModelInv, DriverInv, Load, Loaded,
       Resumed, Async, Before, Trained, Settled, Outside, driverVars, managerVars, diskVars,
       Rollouts, None, NoData, Data
<1>8. EnginesInv'
   BY TrainAssumption DEF LoopInv, TypeOK, EnginesInv, Behind, UpdateInterval, ModelInv, Load,
       Loaded, Resumed, Async, Before, Trained, Settled, Outside, driverVars, managerVars,
       diskVars, Rollouts, None, NoData, Data
<1>9. FreshInv'
   BY TrainAssumption DEF LoopInv, TypeOK, FreshInv, Fresh, Lag, UpdateInterval, CallsInv,
       MayRun, Gen, Evl, Sav, Load, Loaded, Resumed, Async, Before, Trained, Settled, Outside,
       driverVars, managerVars, diskVars, Rollouts, None, NoData, Data
<1>10. QED
  BY <1>1, <1>2, <1>3, <1>4, <1>5, <1>6, <1>7, <1>8, <1>9 DEF LoopInv

LEMMA BeginPushKeepsLoop == LoopInv /\ BeginPush => LoopInv'
<1> SUFFICES ASSUME LoopInv, BeginPush
             PROVE  LoopInv'
  OBVIOUS
<1>1. TypeOK'
   BY TrainAssumption DEF LoopInv, TypeOK, Rollouts, None, Data, NoData, BeginPush, Async,
       Before, Trained, Settled, Outside, driverVars, managerVars, diskVars
<1>2. CallsInv'
   BY TrainAssumption DEF LoopInv, TypeOK, CallsInv, MayRun, Gen, Evl, Sav, BeginPush, Async,
       Before, Trained, Settled, Outside, driverVars, managerVars, diskVars, Rollouts, None
<1>3. PushInv'
   BY TrainAssumption DEF LoopInv, TypeOK, PushInv, CallsInv, BeginPush, Async, Before, Trained,
       Settled, Outside, driverVars, managerVars, diskVars, Rollouts, None
<1>4. DriverInv'
   BY TrainAssumption DEF LoopInv, TypeOK, DriverInv, Covered, Ready, BeginPush, Async, Before,
       Trained, Settled, Outside, driverVars, managerVars, diskVars, Rollouts, None
<1>5. ResultsInv'
   BY TrainAssumption DEF LoopInv, TypeOK, ResultsInv, Reach, DriverInv, CallsInv, MayRun, Gen,
       Evl, Sav, Ready, Covered, NoData, BeginPush, Async, Before, Trained, Settled, Outside,
       driverVars, managerVars, diskVars, Rollouts, None
<1>6. ModelInv'
   BY TrainAssumption DEF LoopInv, TypeOK, ModelInv, BeginPush, Async, Before, Trained, Settled,
       Outside, driverVars, managerVars, diskVars, Rollouts, None
<1>7. OrderInv'
   BY TrainAssumption DEF LoopInv, TypeOK, OrderInv, Ordered, ModelInv, DriverInv, BeginPush,
       Async, Before, Trained, Settled, Outside, driverVars, managerVars, diskVars, Rollouts,
       None
<1>8. EnginesInv'
   BY TrainAssumption DEF LoopInv, TypeOK, EnginesInv, Behind, UpdateInterval, ModelInv,
       BeginPush, Async, Before, Trained, Settled, Outside, driverVars, managerVars, diskVars,
       Rollouts, None
<1>9. FreshInv'
   BY TrainAssumption DEF LoopInv, TypeOK, FreshInv, Fresh, Lag, UpdateInterval, CallsInv,
       MayRun, Gen, Evl, Sav, BeginPush, Async, Before, Trained, Settled, Outside, driverVars,
       managerVars, diskVars, Rollouts, None
<1>10. QED
  BY <1>1, <1>2, <1>3, <1>4, <1>5, <1>6, <1>7, <1>8, <1>9 DEF LoopInv

LEMMA EndPushKeepsLoop == LoopInv /\ EndPush => LoopInv'
<1> SUFFICES ASSUME LoopInv, EndPush
             PROVE  LoopInv'
  OBVIOUS
<1>0. /\ pc \in {"firstPush", "push"} /\ calls = <<>> /\ serving = None
      /\ served' = Len(model) /\ Len(model) \in Nat /\ rollout \in Nat
      /\ UNCHANGED <<job, rollout, future, current, calls, serving, results, position, buffer, model,
                     saved, savedData, crashes, torn>>
  BY DEF LoopInv, TypeOK, PushInv, CallsInv, EndPush, managerVars, diskVars, Rollouts
<1>1. CASE pc = "push"
  <2>0. pc' = "eval" /\ pushing' = FALSE /\ rollout < NumRollouts
    BY <1>1 DEF EndPush, LoopInv, TypeOK, Outside
  <2>1. TypeOK'
    <3>1. pc' \in Before \cup Trained \cup Settled \cup Outside /\ (pc' \notin Outside => rollout < NumRollouts)
      BY <1>1, <2>0 DEF Before, Trained, Settled, Outside
    <3>2. served' \in Int
      BY <1>0
    <3>3. pushing' \in BOOLEAN
      BY <2>0
    <3>4. QED
      BY <1>0, <3>1, <3>2, <3>3 DEF TypeOK, LoopInv
  <2>2. CallsInv'
    BY <1>0, <1>1, <2>0, TrainAssumption, UpToDate, Queue DEF CallsInv, MayRun, LoopInv, EndPush, Async, Before, Trained, Settled, Outside
  <2>3. PushInv'
    BY <1>0, <1>1, <2>0, TrainAssumption, UpToDate, Queue DEF PushInv, LoopInv, EndPush, Async, Before, Trained, Settled, Outside
  <2>4. DriverInv'
    BY <1>0, <1>1, <2>0, TrainAssumption, UpToDate, Queue DEF DriverInv, Covered, Ready, TypeOK, LoopInv, EndPush, Async, Before, Trained, Settled, Outside
  <2>5. ResultsInv'
    BY <1>0, <1>1, <2>0, TrainAssumption, UpToDate, Queue DEF ResultsInv, Reach, DriverInv, TypeOK, Rollouts, None, LoopInv, EndPush, Async, Before, Trained, Settled, Outside
  <2>6. ModelInv'
    BY <1>0, <1>1, <2>0, TrainAssumption, UpToDate, Queue DEF ModelInv, LoopInv, EndPush, Async, Before, Trained, Settled, Outside
  <2>7. OrderInv'
    BY <1>0, <1>1, <2>0, TrainAssumption, UpToDate, Queue DEF OrderInv, Ordered, LoopInv, EndPush, Async, Before, Trained, Settled, Outside
  <2>8. EnginesInv'
    BY <1>0, <1>1, <2>0, TrainAssumption, UpToDate, Queue DEF EnginesInv, ModelInv, TypeOK, Behind, UpdateInterval, LoopInv, EndPush, Async, Before, Trained, Settled, Outside
  <2>9. FreshInv'
    BY <1>0, <1>1, <2>0, TrainAssumption, UpToDate, Queue DEF FreshInv, Fresh, Lag, UpdateInterval, LoopInv, EndPush, Async, Before, Trained, Settled, Outside
  <2>10. QED
    BY <2>1, <2>2, <2>3, <2>4, <2>5, <2>6, <2>7, <2>8, <2>9 DEF LoopInv
<1>2. CASE pc = "firstPush"
  <2>0. /\ pc' = IF Async THEN "launch" ELSE IF rollout < NumRollouts THEN "fetch" ELSE "done"
        /\ pushing' = FALSE
    BY <1>2 DEF EndPush, Top
  <2>1. TypeOK'
    <3>1. pc' \in Before \cup Trained \cup Settled \cup Outside /\ (pc' \notin Outside => rollout < NumRollouts)
      BY <1>2, <2>0 DEF Before, Trained, Settled, Outside
    <3>2. served' \in Int
      BY <1>0
    <3>3. pushing' \in BOOLEAN
      BY <2>0
    <3>4. QED
      BY <1>0, <3>1, <3>2, <3>3 DEF TypeOK, LoopInv
  <2>2. CallsInv'
    BY <1>0, <1>2, <2>0, TrainAssumption, UpToDate, Queue DEF CallsInv, MayRun, LoopInv, EndPush, Async, Before, Trained, Settled, Outside
  <2>3. PushInv'
    BY <1>0, <1>2, <2>0, TrainAssumption, UpToDate, Queue DEF PushInv, LoopInv, EndPush, Async, Before, Trained, Settled, Outside
  <2>4. DriverInv'
    BY <1>0, <1>2, <2>0, TrainAssumption, UpToDate, Queue DEF DriverInv, Covered, Ready, TypeOK, LoopInv, EndPush, Async, Before, Trained, Settled, Outside
  <2>5. ResultsInv'
    BY <1>0, <1>2, <2>0, TrainAssumption, UpToDate, Queue DEF ResultsInv, Reach, DriverInv, TypeOK, Rollouts, None, LoopInv, EndPush, Async, Before, Trained, Settled, Outside
  <2>6. ModelInv'
    BY <1>0, <1>2, <2>0, TrainAssumption, UpToDate, Queue DEF ModelInv, LoopInv, EndPush, Async, Before, Trained, Settled, Outside
  <2>7. OrderInv'
    BY <1>0, <1>2, <2>0, TrainAssumption, UpToDate, Queue DEF OrderInv, Ordered, LoopInv, EndPush, Async, Before, Trained, Settled, Outside
  <2>8. EnginesInv'
    BY <1>0, <1>2, <2>0, TrainAssumption, UpToDate, Queue DEF EnginesInv, ModelInv, TypeOK, Behind, UpdateInterval, LoopInv, EndPush, Async, Before, Trained, Settled, Outside
  <2>9. FreshInv'
    BY <1>0, <1>2, <2>0, TrainAssumption, UpToDate, Queue DEF FreshInv, Fresh, Lag, UpdateInterval, LoopInv, EndPush, Async, Before, Trained, Settled, Outside
  <2>10. QED
    BY <2>1, <2>2, <2>3, <2>4, <2>5, <2>6, <2>7, <2>8, <2>9 DEF LoopInv
<1>3. QED
  BY <1>0, <1>1, <1>2

LEMMA LaunchKeepsLoop == LoopInv /\ Launch => LoopInv'
<1> SUFFICES ASSUME LoopInv, Launch
             PROVE  LoopInv'
  OBVIOUS
<1>0. /\ calls = <<>> /\ calls' = <<Gen(rollout)>> /\ served = rollout /\ served' = served
      /\ rollout \in Rollouts /\ pc' \in {"fetch", "done"} /\ (pc' = "fetch" => rollout < NumRollouts)
      /\ results[rollout] = NoData /\ pc = "launch" /\ serving = None /\ serving' = None
      /\ Async /\ Async' /\ rollout \in Nat /\ results' = results /\ rollout' = rollout
  BY Queue DEF LoopInv, TypeOK, CallsInv, PushInv, EnginesInv, ResultsInv, DriverInv, Reach, Launch, Call, Top, Gen, Async, None, Rollouts
<1>1. TypeOK'
  <2>1. calls' \in Seq(CallTypes)
    BY <1>0, KnownCalls
  <2>2. future' \in Rollouts
    BY <1>0 DEF Launch
  <2>3. QED
    BY <1>0, <2>1, <2>2 DEF LoopInv, TypeOK, Launch, Before, Outside, diskVars
<1>2. CallsInv'
  BY <1>0 DEF CallsInv, MayRun, Launch, None, Rollouts
<1>3. PushInv'
  BY <1>0 DEF LoopInv, PushInv, Launch
<1>4. DriverInv'
   BY TrainAssumption DEF LoopInv, TypeOK, DriverInv, Covered, Ready, Launch, Call, Top, Async,
       Before, Trained, Settled, Outside, driverVars, managerVars, diskVars, Rollouts, None
<1>5. ResultsInv'
  <2>1. \A r \in Rollouts : results[r] = NoData
    BY <1>0 DEF LoopInv, ResultsInv, Reach, None, Rollouts
  <2>2. \A i \in 1 .. Len(calls') : calls'[i].op = "generate" => calls'[i].id = rollout
    <3>1. Asks(calls', rollout)
      BY <1>0, Asked
    <3>2. QED
      BY <3>1 DEF Asks
  <2>3. QED
    BY <1>0, <2>1, <2>2 DEF ResultsInv
<1>6. ModelInv'
   BY TrainAssumption DEF LoopInv, TypeOK, ModelInv, Launch, Call, Top, Async, Before, Trained,
       Settled, Outside, driverVars, managerVars, diskVars, Rollouts, None
<1>7. OrderInv'
   BY TrainAssumption DEF LoopInv, TypeOK, OrderInv, Ordered, ModelInv, DriverInv, Launch, Call,
       Top, Async, Before, Trained, Settled, Outside, driverVars, managerVars, diskVars,
       Rollouts, None
<1>8. EnginesInv'
  BY <1>0, UpToDate DEF LoopInv, TypeOK, EnginesInv, Behind, UpdateInterval, Launch, Before, Trained, Settled
<1>9. FreshInv'
  <2>1. \A i \in 1 .. Len(calls') : calls'[i].id - served \in 0 .. Lag
    BY <1>0, Queue, UpToDate, WithinLag DEF LoopInv, TypeOK, Gen
  <2>2. QED
    BY <1>0, <2>1 DEF LoopInv, FreshInv, Fresh, Lag, UpdateInterval, Async, Launch, diskVars
<1>10. QED
  BY <1>1, <1>2, <1>3, <1>4, <1>5, <1>6, <1>7, <1>8, <1>9 DEF LoopInv

LEMMA FetchSyncKeepsLoop == LoopInv /\ FetchSync => LoopInv'
<1> SUFFICES ASSUME LoopInv, FetchSync
             PROVE  LoopInv'
  OBVIOUS
<1>0. /\ pc = "fetch" /\ pc' = "await" /\ calls = <<>> /\ serving = None /\ serving' = None
      /\ calls' \in {<<Gen(rollout)>>, <<Evl(0), Gen(rollout)>>}
      /\ ~Async /\ ~Async' /\ future = None /\ rollout \in Rollouts /\ rollout \in Nat
      /\ results[rollout] = NoData /\ Behind(rollout, served) /\ 0 \in Rollouts
      /\ calls' # <<>>
      /\ UNCHANGED <<job, rollout, future, current, pushing, serving, results, position, buffer,
                     model, served, saved, savedData, crashes, torn>>
  <2>1. pc = "fetch" /\ ~Async /\ future = None /\ rollout \in Rollouts
    BY DEF LoopInv, TypeOK, DriverInv, FetchSync
  <2>2. calls = <<>>
    BY <2>1 DEF LoopInv, CallsInv, MayRun
  <2>3. calls' \in {<<Gen(rollout)>>, <<Evl(0), Gen(rollout)>>}
    BY Queue DEF FetchSync, Gen, Evl
  <2>4. results[rollout] = NoData
    BY <2>1, TrainAssumption DEF LoopInv, ResultsInv, Reach, Rollouts
  <2>5. Behind(rollout, served)
    BY <2>1 DEF LoopInv, EnginesInv, Before
  <2>6. QED
    BY <2>1, <2>2, <2>3, <2>4, <2>5, Queue, TrainAssumption
    DEF LoopInv, PushInv, FetchSync, Async, Rollouts, diskVars
<1>1. TypeOK'
  <2>1. calls' \in Seq(CallTypes)
    BY <1>0, KnownCalls
  <2>2. QED
    BY <1>0, <2>1 DEF LoopInv, TypeOK, Before, Outside
<1>2. CallsInv'
  BY <1>0 DEF CallsInv
<1>3. PushInv'
   BY TrainAssumption DEF LoopInv, TypeOK, PushInv, CallsInv, FetchSync, Async, Before, Trained,
       Settled, Outside, driverVars, managerVars, diskVars, Rollouts, None
<1>4. DriverInv'
  BY <1>0 DEF LoopInv, DriverInv, Trained, Settled
<1>5. ResultsInv'
  <2>1. \A r \in Rollouts : results[r] # NoData => r <= rollout
    BY <1>0 DEF LoopInv, ResultsInv, Reach, Rollouts
  <2>2. \A i \in 1 .. Len(calls') : calls'[i].op = "generate" => calls'[i].id = rollout
    <3>1. Asks(calls', rollout)
      BY <1>0, Asked
    <3>2. QED
      BY <3>1 DEF Asks
  <2>3. QED
    BY <1>0, <2>1, <2>2 DEF ResultsInv, Reach
<1>6. ModelInv'
   BY TrainAssumption DEF LoopInv, TypeOK, ModelInv, FetchSync, Async, Before, Trained, Settled,
       Outside, driverVars, managerVars, diskVars, Rollouts, None
<1>7. OrderInv'
   BY TrainAssumption DEF LoopInv, TypeOK, OrderInv, Ordered, ModelInv, DriverInv, FetchSync,
       Async, Before, Trained, Settled, Outside, driverVars, managerVars, diskVars, Rollouts,
       None
<1>8. EnginesInv'
   BY TrainAssumption DEF LoopInv, TypeOK, EnginesInv, Behind, UpdateInterval, ModelInv,
       FetchSync, Async, Before, Trained, Settled, Outside, driverVars, managerVars, diskVars,
       Rollouts, None
<1>9. FreshInv'
  <2>1. \A i \in 1 .. Len(calls') : calls'[i].op = "generate" => calls'[i].id = rollout
    <3>1. Asks(calls', rollout)
      BY <1>0, Asked
    <3>2. QED
      BY <3>1 DEF Asks
  <2>2. rollout - served \in 0 .. Lag
    BY <1>0, WithinLag DEF LoopInv, TypeOK
  <2>3. QED
    BY <1>0, <2>1, <2>2 DEF LoopInv, FreshInv, Fresh, Lag, UpdateInterval, Async
<1>10. QED
  BY <1>1, <1>2, <1>3, <1>4, <1>5, <1>6, <1>7, <1>8, <1>9 DEF LoopInv

LEMMA AwaitKeepsLoop == LoopInv /\ Await => LoopInv'
<1> SUFFICES ASSUME LoopInv, Await
             PROVE  LoopInv'
  OBVIOUS
<1>1. TypeOK'
   BY TrainAssumption DEF LoopInv, TypeOK, Rollouts, None, Data, NoData, Await, Idle, Async,
       Before, Trained, Settled, Outside, driverVars, managerVars, diskVars
<1>2. CallsInv'
   BY TrainAssumption DEF LoopInv, TypeOK, CallsInv, MayRun, Gen, Evl, Sav, Await, Idle, Async,
       Before, Trained, Settled, Outside, driverVars, managerVars, diskVars, Rollouts, None
<1>3. PushInv'
   BY TrainAssumption DEF LoopInv, TypeOK, PushInv, CallsInv, Await, Idle, Async, Before,
       Trained, Settled, Outside, driverVars, managerVars, diskVars, Rollouts, None
<1>4. DriverInv'
  <2>1. Ready(rollout) /\ ~Async
    BY DEF LoopInv, ResultsInv, DriverInv, Await, Idle
  <2>2. QED
    BY <2>1 DEF LoopInv, DriverInv, Await, Ready, Async, Trained, Settled, managerVars
<1>5. ResultsInv'
   BY TrainAssumption DEF LoopInv, TypeOK, ResultsInv, Reach, DriverInv, CallsInv, MayRun, Gen,
       Evl, Sav, Ready, Covered, NoData, Await, Idle, Async, Before, Trained, Settled, Outside,
       driverVars, managerVars, diskVars, Rollouts, None
<1>6. ModelInv'
   BY TrainAssumption DEF LoopInv, TypeOK, ModelInv, Await, Idle, Async, Before, Trained,
       Settled, Outside, driverVars, managerVars, diskVars, Rollouts, None
<1>7. OrderInv'
   BY TrainAssumption DEF LoopInv, TypeOK, OrderInv, Ordered, ModelInv, DriverInv, Await, Idle,
       Async, Before, Trained, Settled, Outside, driverVars, managerVars, diskVars, Rollouts,
       None
<1>8. EnginesInv'
   BY TrainAssumption DEF LoopInv, TypeOK, EnginesInv, Behind, UpdateInterval, ModelInv, Await,
       Idle, Async, Before, Trained, Settled, Outside, driverVars, managerVars, diskVars,
       Rollouts, None
<1>9. FreshInv'
   BY TrainAssumption DEF LoopInv, TypeOK, FreshInv, Fresh, Lag, UpdateInterval, CallsInv,
       MayRun, Gen, Evl, Sav, Await, Idle, Async, Before, Trained, Settled, Outside, driverVars,
       managerVars, diskVars, Rollouts, None
<1>10. QED
  BY <1>1, <1>2, <1>3, <1>4, <1>5, <1>6, <1>7, <1>8, <1>9 DEF LoopInv

LEMMA FetchAsyncKeepsLoop == LoopInv /\ FetchAsync => LoopInv'
<1> SUFFICES ASSUME LoopInv, FetchAsync
             PROVE  LoopInv'
  OBVIOUS
<1>0. /\ pc = "fetch" /\ pc' = "train" /\ calls = <<>> /\ serving = None /\ serving' = None
      /\ Async /\ Async' /\ current' = rollout /\ Ready(rollout)
      /\ rollout \in Rollouts /\ rollout \in Nat /\ rollout < NumRollouts /\ rollout + 1 \in Rollouts
      /\ IF rollout + 1 < NumRollouts THEN calls' = <<Gen(rollout + 1)>> /\ future' = rollout + 1
                                      ELSE calls' = <<>> /\ future' = future
      /\ results[rollout + 1] = NoData /\ Behind(rollout, served)
      /\ UNCHANGED <<job, rollout, pushing, serving, results, position, buffer,
                     model, served, saved, savedData, crashes, torn>>
  <2>1. pc = "fetch" /\ Async /\ rollout \in Rollouts /\ rollout < NumRollouts /\ Covered(rollout)
    BY DEF LoopInv, TypeOK, DriverInv, FetchAsync, Outside
  <2>2. current' = rollout /\ Ready(rollout) /\ (future # None => future = rollout)
    BY <2>1 DEF FetchAsync, TakeNext, Covered, Rollouts, None
  <2>3. calls = <<>>
    <3>1. CASE future = None
      BY <2>1, <3>1 DEF LoopInv, CallsInv, MayRun
    <3>2. CASE future = rollout
      <4>1. calls # <<Gen(rollout)>>
        BY <2>2, Queue, 1 \in 1 .. 1 DEF LoopInv, ResultsInv, Ready, Gen
      <4>2. QED
        BY <2>1, <3>2, <4>1 DEF LoopInv, CallsInv, MayRun
    <3>3. QED
      BY <2>2, <3>1, <3>2
  <2>4. /\ rollout \in Nat /\ rollout + 1 \in Rollouts /\ results[rollout + 1] = NoData
    BY <2>1, TrainAssumption DEF LoopInv, ResultsInv, Reach, Rollouts
  <2>5. Behind(rollout, served)
    BY <2>1 DEF LoopInv, EnginesInv, Before
  <2>6. Append(calls, [op |-> "generate", id |-> rollout + 1]) = <<Gen(rollout + 1)>>
    BY <2>3, Queue DEF Gen
  <2>7. QED
    BY <2>1, <2>2, <2>3, <2>4, <2>5, <2>6
    DEF LoopInv, PushInv, FetchAsync, Call, Async, diskVars
<1>1. TypeOK'
  <2>1. calls' \in Seq(CallTypes)
    BY <1>0, KnownCalls
  <2>2. future' \in Rollouts \cup {None} /\ current' \in Rollouts \cup {None}
    BY <1>0 DEF LoopInv, TypeOK
  <2>3. QED
    BY <1>0, <2>1, <2>2 DEF LoopInv, TypeOK, Before, Outside
<1>2. CallsInv'
  <2>1. calls' \in MayRun'
    BY <1>0 DEF MayRun, None
  <2>2. QED
    BY <1>0, <2>1 DEF CallsInv
<1>3. PushInv'
  BY <1>0 DEF LoopInv, PushInv
<1>4. DriverInv'
  BY <1>0 DEF LoopInv, DriverInv, Ready, Trained, Settled
<1>5. ResultsInv'
  <2>1. \A r \in Rollouts : results[r] # NoData => r <= rollout + 1
    BY <1>0 DEF LoopInv, ResultsInv, Reach, Rollouts
  <2>2. \A i \in 1 .. Len(calls') : calls'[i].op = "generate" => calls'[i].id = rollout + 1
    <3>1. Asks(calls', rollout + 1)
      BY <1>0, Asked
    <3>2. QED
      BY <3>1 DEF Asks
  <2>3. QED
    BY <1>0, <2>1, <2>2 DEF ResultsInv, Reach
<1>6. ModelInv'
   BY TrainAssumption DEF LoopInv, TypeOK, ModelInv, FetchAsync, Call, TakeNext, Ready, Async,
       Before, Trained, Settled, Outside, driverVars, managerVars, diskVars, Rollouts, None
<1>7. OrderInv'
   BY TrainAssumption DEF LoopInv, TypeOK, OrderInv, Ordered, ModelInv, DriverInv, FetchAsync,
       Call, TakeNext, Ready, Async, Before, Trained, Settled, Outside, driverVars, managerVars,
       diskVars, Rollouts, None
<1>8. EnginesInv'
   BY TrainAssumption DEF LoopInv, TypeOK, EnginesInv, Behind, UpdateInterval, ModelInv,
       FetchAsync, Call, TakeNext, Ready, Async, Before, Trained, Settled, Outside, driverVars,
       managerVars, diskVars, Rollouts, None
<1>9. FreshInv'
  <2>1. \A i \in 1 .. Len(calls') : calls'[i].op = "generate" => calls'[i].id = rollout + 1
    <3>1. Asks(calls', rollout + 1)
      BY <1>0, Asked
    <3>2. QED
      BY <3>1 DEF Asks
  <2>2. (rollout + 1) - served \in 0 .. Lag
    BY <1>0, WithinLag DEF LoopInv, TypeOK
  <2>3. Lag' = Lag /\ served' = served
    BY <1>0 DEF Lag, UpdateInterval, Async
  <2>4. \A i \in 1 .. Len(calls') : calls'[i].op = "generate" => calls'[i].id - served' \in 0 .. Lag'
    <3> TAKE i \in 1 .. Len(calls')
    <3> HAVE calls'[i].op = "generate"
    <3>1. calls'[i].id = rollout + 1
      BY <2>1
    <3>2. (rollout + 1) - served' \in 0 .. Lag'
      BY <2>2, <2>3
    <3>3. QED
      BY <3>1, <3>2, Zenon
  <2>5. QED
    BY <1>0, <2>3, <2>4 DEF LoopInv, FreshInv, Fresh
<1>10. QED
  BY <1>1, <1>2, <1>3, <1>4, <1>5, <1>6, <1>7, <1>8, <1>9 DEF LoopInv

LEMMA TrainKeepsLoop == LoopInv /\ Train => LoopInv'
<1> SUFFICES ASSUME LoopInv, Train
             PROVE  LoopInv'
  OBVIOUS
<1>0. /\ pc = "train" /\ rollout \in Nat /\ rollout < NumRollouts /\ current = rollout
      /\ rollout \in Rollouts /\ Len(model) = rollout /\ calls \in MayRun /\ serving \in Int
      /\ pc' \in {"saveModel", "eval", "sync", "push"}
      /\ (pc' = "push" => ~Async) /\ (pc' = "sync" => Async)
      /\ (pc' = "eval" => Async /\ (rollout + 1) % UpdateInterval # 0)
      /\ UNCHANGED <<job, rollout, future, current, pushing, calls, serving, results, position, buffer,
                     served, saved, savedData, crashes, torn>>
  BY TrainAssumption DEF LoopInv, TypeOK, DriverInv, CallsInv, ModelInv, Train, AfterSave, UpdateDue, Async,
     Rollouts, Before, Outside, managerVars, diskVars
<1> DEFINE step == [rollout |-> rollout, source |-> current, batch |-> results[current].batch,
                    versions |-> results[current].versions]
<1>a. /\ model' = Append(model, step) /\ step \in Step
      /\ step.rollout = rollout /\ step.source = rollout /\ step.versions = results[rollout].versions
  <2>1. results[rollout] \in Data
    BY <1>0 DEF LoopInv, TypeOK
  <2>2. step \in Step
    BY <1>0, <2>1 DEF Step, Data
  <2>3. QED
    BY <1>0, <2>2 DEF Train
<1> HIDE DEF step
<1>b. /\ model' \in Seq(Step) /\ Len(model') = rollout + 1
      /\ \A k \in 1 .. rollout : model'[k] = model[k]
      /\ model'[rollout + 1] = step
  BY <1>0, <1>a, AppendProperties DEF LoopInv, TypeOK
<1>1. TypeOK'
  BY <1>0, <1>b DEF LoopInv, TypeOK, Trained, Settled, Outside
<1>2. CallsInv'
  <2>1. pc' = "push" => calls = <<>>
    BY <1>0 DEF LoopInv, DriverInv, MayRun
  <2>2. QED
    BY <1>0, <2>1 DEF CallsInv, MayRun
<1>3. PushInv'
  BY <1>0 DEF LoopInv, PushInv
<1>4. DriverInv'
  <2>1. Async /\ rollout + 1 < NumRollouts => future = rollout + 1
    BY <1>0 DEF LoopInv, DriverInv
  <2>2. QED
    BY <1>0, <2>1 DEF LoopInv, DriverInv, Covered, Async, Settled
<1>5. ResultsInv'
  BY <1>0 DEF LoopInv, ResultsInv, Reach, Async
<1>6. ModelInv'
  BY <1>0, <1>b DEF ModelInv, Before, Trained, Settled
<1>7. OrderInv'
  BY <1>0, <1>a, <1>b DEF LoopInv, OrderInv, Ordered
<1>8. EnginesInv'
  <2>1. Behind(rollout, served)
    BY <1>0 DEF LoopInv, EnginesInv, Before
  <2>2. pc' = "eval" => Behind(rollout + 1, served)
    BY <1>0, <2>1, StillBehind DEF LoopInv, TypeOK
  <2>3. QED
    BY <1>0, <2>1, <2>2 DEF EnginesInv, Behind, UpdateInterval, Async, Before, Trained, Settled
<1>9. FreshInv'
  <2>1. \A v \in step.versions : rollout - v \in 0 .. Lag
    BY <1>0, <1>a DEF LoopInv, FreshInv
  <2>2. Lag' = Lag
    BY <1>0 DEF Lag, Async, UpdateInterval
  <2>3. Fresh(model)'
    <3> SUFFICES ASSUME NEW k \in 1 .. rollout + 1, NEW v \in model'[k].versions
                 PROVE  k - 1 - v \in 0 .. Lag
      BY <1>0, <1>b, <2>2 DEF Fresh
    <3>1. CASE k = rollout + 1
      BY <1>0, <1>b, <2>1, <3>1
    <3>2. CASE k \in 1 .. rollout
      BY <1>0, <1>b, <3>2 DEF LoopInv, FreshInv, Fresh
    <3>3. QED
      BY <1>0, <3>1, <3>2
  <2>4. QED
    BY <1>0, <2>2, <2>3 DEF LoopInv, FreshInv, Fresh
<1>10. QED
  BY <1>1, <1>2, <1>3, <1>4, <1>5, <1>6, <1>7, <1>8, <1>9 DEF LoopInv

LEMMA SaveModelKeepsLoop == LoopInv /\ SaveModel => LoopInv'
<1> SUFFICES ASSUME LoopInv, SaveModel
             PROVE  LoopInv'
  OBVIOUS
<1>0. /\ pc = "saveModel" /\ pc' = "saveData" /\ rollout \in Nat /\ rollout < NumRollouts
      /\ rollout \in Rollouts /\ Len(model) = rollout + 1 /\ saved' = model
      /\ calls \in MayRun /\ calls' = Append(calls, Sav(rollout))
      /\ UNCHANGED <<job, rollout, future, current, pushing, serving, results, position, buffer,
                     model, served, savedData, crashes, torn>>
  BY TrainAssumption DEF LoopInv, TypeOK, CallsInv, ModelInv, SaveModel, Call, Sav, Rollouts, Trained, Outside
<1>a. \/ calls = <<>> /\ calls' = <<Sav(rollout)>>
      \/ calls = <<Gen(future)>> /\ calls' = <<Gen(future), Sav(rollout)>> /\ future \in Rollouts
  <2>1. calls = <<>> \/ (calls = <<Gen(future)>> /\ future \in Rollouts)
    BY <1>0 DEF MayRun, LoopInv, TypeOK
  <2>2. QED
    BY <1>0, <2>1, Queue, ZenonT(40)
<1>b. calls' # <<>>
  BY <1>a, Queue
<1>1. TypeOK'
  <2>1. calls' \in Seq(CallTypes)
    BY <1>0, <1>a, KnownCalls
  <2>2. saved' \in Seq(Step) /\ Len(saved') <= NumRollouts
    BY <1>0, TrainAssumption DEF LoopInv, TypeOK, Rollouts
  <2>3. pushing' \in BOOLEAN /\ torn' \in BOOLEAN
    BY <1>0 DEF LoopInv, TypeOK
  <2>4. QED
    BY <1>0, <2>1, <2>2, <2>3 DEF LoopInv, TypeOK, Trained, Outside
<1>2. CallsInv'
  BY <1>0 DEF CallsInv, MayRun
<1>3. PushInv'
  <2>1. calls # <<>> => Head(calls') = Head(calls)
    BY <1>a, Queue
  <2>2. QED
    BY <1>0, <1>b, <2>1 DEF LoopInv, PushInv
<1>4. DriverInv'
   BY TrainAssumption DEF LoopInv, TypeOK, DriverInv, Covered, Ready, SaveModel, Call, Async,
       Before, Trained, Settled, Outside, driverVars, managerVars, diskVars, Rollouts, None
<1>5. ResultsInv'
  <2>1. \A i \in 1 .. Len(calls') : calls'[i].op = "generate" =>
          calls'[i].id = future /\ calls = <<Gen(future)>>
    <3>1. CASE calls' = <<Sav(rollout)>>
      BY <3>1, Asked
    <3>2. CASE calls = <<Gen(future)>> /\ calls' = <<Gen(future), Sav(rollout)>>
      <4>1. Asks(calls', future)
        BY <3>2, Asked
      <4>2. QED
        BY <3>2, <4>1 DEF Asks
    <3>3. QED
      BY <1>a, <3>1, <3>2
  <2>2. calls = <<Gen(future)>> => results[future] = NoData
    BY Queue, 1 \in 1 .. 1 DEF LoopInv, ResultsInv, Gen
  <2>3. QED
    BY <1>0, <2>1, <2>2 DEF LoopInv, ResultsInv, Reach, Async
<1>6. ModelInv'
   BY TrainAssumption DEF LoopInv, TypeOK, ModelInv, SaveModel, Call, Async, Before, Trained,
       Settled, Outside, driverVars, managerVars, diskVars, Rollouts, None
<1>7. OrderInv'
   BY TrainAssumption DEF LoopInv, TypeOK, OrderInv, Ordered, ModelInv, DriverInv, SaveModel,
       Call, Async, Before, Trained, Settled, Outside, driverVars, managerVars, diskVars,
       Rollouts, None
<1>8. EnginesInv'
   BY TrainAssumption DEF LoopInv, TypeOK, EnginesInv, Behind, UpdateInterval, ModelInv,
       SaveModel, Call, Async, Before, Trained, Settled, Outside, driverVars, managerVars,
       diskVars, Rollouts, None
<1>9. FreshInv'
  <2>1. \A i \in 1 .. Len(calls') : calls'[i].op = "generate" =>
          calls'[i].id = future /\ calls = <<Gen(future)>>
    <3>1. CASE calls' = <<Sav(rollout)>>
      BY <3>1, Asked
    <3>2. CASE calls = <<Gen(future)>> /\ calls' = <<Gen(future), Sav(rollout)>>
      <4>1. Asks(calls', future)
        BY <3>2, Asked
      <4>2. QED
        BY <3>2, <4>1 DEF Asks
    <3>3. QED
      BY <1>a, <3>1, <3>2
  <2>2. calls = <<Gen(future)>> => future - served \in 0 .. Lag
    BY Queue, 1 \in 1 .. 1 DEF LoopInv, FreshInv, Gen
  <2>3. Lag' = Lag
    BY <1>0 DEF Lag, UpdateInterval, Async
  <2>4. QED
    BY <1>0, <2>1, <2>2, <2>3 DEF LoopInv, FreshInv, Fresh
<1>10. QED
  BY <1>1, <1>2, <1>3, <1>4, <1>5, <1>6, <1>7, <1>8, <1>9 DEF LoopInv

LEMMA SavedKeepsLoop == LoopInv /\ Saved => LoopInv'
<1> SUFFICES ASSUME LoopInv, Saved
             PROVE  LoopInv'
  OBVIOUS
<1>1. TypeOK'
   BY TrainAssumption DEF LoopInv, TypeOK, Rollouts, None, Data, NoData, Saved, AfterSave,
       UpdateDue, UpdateInterval, Idle, Async, Before, Trained, Settled, Outside, driverVars,
       managerVars, diskVars
<1>2. CallsInv'
   BY TrainAssumption DEF LoopInv, TypeOK, CallsInv, MayRun, Gen, Evl, Sav, Saved, AfterSave,
       UpdateDue, UpdateInterval, Idle, Async, Before, Trained, Settled, Outside, driverVars,
       managerVars, diskVars, Rollouts, None
<1>3. PushInv'
   BY TrainAssumption DEF LoopInv, TypeOK, PushInv, CallsInv, Saved, AfterSave, UpdateDue,
       UpdateInterval, Idle, Async, Before, Trained, Settled, Outside, driverVars, managerVars,
       diskVars, Rollouts, None
<1>4. DriverInv'
   BY TrainAssumption DEF LoopInv, TypeOK, DriverInv, Covered, Ready, Saved, AfterSave,
       UpdateDue, UpdateInterval, Idle, Async, Before, Trained, Settled, Outside, driverVars,
       managerVars, diskVars, Rollouts, None
<1>5. ResultsInv'
   BY TrainAssumption DEF LoopInv, TypeOK, ResultsInv, Reach, DriverInv, CallsInv, MayRun, Gen,
       Evl, Sav, Ready, Covered, NoData, Saved, AfterSave, UpdateDue, UpdateInterval, Idle,
       Async, Before, Trained, Settled, Outside, driverVars, managerVars, diskVars, Rollouts,
       None
<1>6. ModelInv'
   BY TrainAssumption DEF LoopInv, TypeOK, ModelInv, Saved, AfterSave, UpdateDue, UpdateInterval,
       Idle, Async, Before, Trained, Settled, Outside, driverVars, managerVars, diskVars,
       Rollouts, None
<1>7. OrderInv'
   BY TrainAssumption DEF LoopInv, TypeOK, OrderInv, Ordered, ModelInv, DriverInv, Saved,
       AfterSave, UpdateDue, UpdateInterval, Idle, Async, Before, Trained, Settled, Outside,
       driverVars, managerVars, diskVars, Rollouts, None
<1>8. EnginesInv'
  <2>1. pc = "saveData" /\ rollout \in Nat /\ Behind(rollout, served)
    BY DEF LoopInv, TypeOK, EnginesInv, Saved, Rollouts, Trained
  <2>2. pc' = "eval" => Async /\ (rollout + 1) % UpdateInterval # 0
    BY DEF Saved, AfterSave, UpdateDue
  <2>3. pc' = "eval" => Behind(rollout + 1, served)
    BY <2>1, <2>2, StillBehind DEF LoopInv, TypeOK
  <2>4. pc' \in {"eval", "sync", "push"}
    BY DEF Saved, AfterSave
  <2>5. QED
    BY <2>1, <2>3, <2>4 DEF Saved, EnginesInv, Behind, UpdateInterval, Async, Before, Trained, Settled
<1>9. FreshInv'
   BY TrainAssumption DEF LoopInv, TypeOK, FreshInv, Fresh, Lag, UpdateInterval, CallsInv,
       MayRun, Gen, Evl, Sav, Saved, AfterSave, UpdateDue, Idle, Async, Before, Trained, Settled,
       Outside, driverVars, managerVars, diskVars, Rollouts, None
<1>10. QED
  BY <1>1, <1>2, <1>3, <1>4, <1>5, <1>6, <1>7, <1>8, <1>9 DEF LoopInv

LEMMA SyncKeepsLoop == LoopInv /\ Sync => LoopInv'
<1> SUFFICES ASSUME LoopInv, Sync
             PROVE  LoopInv'
  OBVIOUS
<1>0. calls = <<>>
  <2>1. calls \in MayRun
    BY DEF LoopInv, CallsInv, Sync
  <2>2. future # None => calls # <<Gen(future)>>
    BY Queue, 1 \in 1 .. 1 DEF LoopInv, ResultsInv, Sync, Synced, Ready, Gen
  <2>3. QED
    BY <2>1, <2>2 DEF MayRun
<1>1. TypeOK'
   BY TrainAssumption DEF LoopInv, TypeOK, Rollouts, None, Data, NoData, Sync, Synced, Ready,
       Async, Before, Trained, Settled, Outside, driverVars, managerVars, diskVars
<1>2. CallsInv'
  BY <1>0 DEF CallsInv, Sync, managerVars
<1>3. PushInv'
   BY TrainAssumption DEF LoopInv, TypeOK, PushInv, CallsInv, Sync, Synced, Ready, Async, Before,
       Trained, Settled, Outside, driverVars, managerVars, diskVars, Rollouts, None
<1>4. DriverInv'
   BY TrainAssumption DEF LoopInv, TypeOK, DriverInv, Covered, Ready, Sync, Synced, Async,
       Before, Trained, Settled, Outside, driverVars, managerVars, diskVars, Rollouts, None
<1>5. ResultsInv'
   BY TrainAssumption DEF LoopInv, TypeOK, ResultsInv, Reach, DriverInv, CallsInv, MayRun, Gen,
       Evl, Sav, Ready, Covered, NoData, Sync, Synced, Async, Before, Trained, Settled, Outside,
       driverVars, managerVars, diskVars, Rollouts, None
<1>6. ModelInv'
   BY TrainAssumption DEF LoopInv, TypeOK, ModelInv, Sync, Synced, Ready, Async, Before, Trained,
       Settled, Outside, driverVars, managerVars, diskVars, Rollouts, None
<1>7. OrderInv'
   BY TrainAssumption DEF LoopInv, TypeOK, OrderInv, Ordered, ModelInv, DriverInv, Sync, Synced,
       Ready, Async, Before, Trained, Settled, Outside, driverVars, managerVars, diskVars,
       Rollouts, None
<1>8. EnginesInv'
   BY TrainAssumption DEF LoopInv, TypeOK, EnginesInv, Behind, UpdateInterval, ModelInv, Sync,
       Synced, Ready, Async, Before, Trained, Settled, Outside, driverVars, managerVars,
       diskVars, Rollouts, None
<1>9. FreshInv'
   BY TrainAssumption DEF LoopInv, TypeOK, FreshInv, Fresh, Lag, UpdateInterval, CallsInv,
       MayRun, Gen, Evl, Sav, Sync, Synced, Ready, Async, Before, Trained, Settled, Outside,
       driverVars, managerVars, diskVars, Rollouts, None
<1>10. QED
  BY <1>1, <1>2, <1>3, <1>4, <1>5, <1>6, <1>7, <1>8, <1>9 DEF LoopInv

LEMMA EvalKeepsLoop == LoopInv /\ Eval => LoopInv'
<1> SUFFICES ASSUME LoopInv, Eval
             PROVE  LoopInv'
  OBVIOUS
<1>0. /\ pc = "eval" /\ pc' \in {"evalWait", "next"} /\ rollout \in Rollouts /\ rollout < NumRollouts
      /\ calls \in MayRun
      /\ (pc' = "evalWait" => calls' = Append(calls, Evl(rollout)))
      /\ (pc' = "next" => calls' = calls)
      /\ UNCHANGED <<job, rollout, future, current, pushing, serving, results, position, buffer,
                     model, served, saved, savedData, crashes, torn>>
  BY DEF LoopInv, TypeOK, CallsInv, Eval, Call, Evl, Settled, Outside, diskVars
<1>a. pc' = "evalWait" =>
        \/ calls = <<>> /\ calls' = <<Evl(rollout)>>
        \/ calls = <<Gen(future)>> /\ calls' = <<Gen(future), Evl(rollout)>> /\ future \in Rollouts
  <2>1. calls = <<>> \/ (calls = <<Gen(future)>> /\ future \in Rollouts)
    BY <1>0 DEF MayRun, LoopInv, TypeOK
  <2>2. QED
    BY <1>0, <2>1, Queue
<1>b. serving # None => calls' # <<>>
  BY <1>0, <1>a, Queue DEF LoopInv, PushInv
<1>1. TypeOK'
  <2>1. calls' \in Seq(CallTypes)
    BY <1>0, <1>a, KnownCalls DEF LoopInv, TypeOK
  <2>2. QED
    BY <1>0, <2>1 DEF LoopInv, TypeOK, Settled, Outside
<1>2. CallsInv'
  BY <1>0 DEF CallsInv, MayRun
<1>3. PushInv'
  <2>1. serving # None => Head(calls') = Head(calls)
    BY <1>0, <1>a, Queue DEF LoopInv, PushInv
  <2>2. QED
    BY <1>0, <1>b, <2>1 DEF LoopInv, PushInv
<1>4. DriverInv'
   BY TrainAssumption DEF LoopInv, TypeOK, DriverInv, Covered, Ready, Eval, Call, Async, Before,
       Trained, Settled, Outside, driverVars, managerVars, diskVars, Rollouts, None
<1>5. ResultsInv'
  <2>1. pc' = "evalWait" => \A i \in 1 .. Len(calls') : calls'[i].op = "generate" =>
          calls'[i].id = future /\ calls = <<Gen(future)>>
    <3>1. CASE pc' = "evalWait" /\ calls' = <<Evl(rollout)>>
      BY <3>1, Asked
    <3>2. CASE pc' = "evalWait" /\ calls = <<Gen(future)>> /\ calls' = <<Gen(future), Evl(rollout)>>
      <4>1. Asks(calls', future)
        BY <3>2, Asked
      <4>2. QED
        BY <3>2, <4>1 DEF Asks
    <3>3. QED
      BY <1>a, <3>1, <3>2
  <2>2. calls = <<Gen(future)>> => results[future] = NoData
    BY Queue, 1 \in 1 .. 1 DEF LoopInv, ResultsInv, Gen
  <2>3. CASE pc' = "evalWait"
    BY <1>0, <2>1, <2>2, <2>3 DEF LoopInv, ResultsInv, Reach, Async
  <2>4. CASE pc' = "next"
    BY <1>0, <2>4 DEF LoopInv, ResultsInv, Reach, Async
  <2>5. QED
    BY <1>0, <2>3, <2>4
<1>6. ModelInv'
   BY TrainAssumption DEF LoopInv, TypeOK, ModelInv, Eval, Call, Async, Before, Trained, Settled,
       Outside, driverVars, managerVars, diskVars, Rollouts, None
<1>7. OrderInv'
   BY TrainAssumption DEF LoopInv, TypeOK, OrderInv, Ordered, ModelInv, DriverInv, Eval, Call,
       Async, Before, Trained, Settled, Outside, driverVars, managerVars, diskVars, Rollouts,
       None
<1>8. EnginesInv'
   BY TrainAssumption DEF LoopInv, TypeOK, EnginesInv, Behind, UpdateInterval, ModelInv, Eval,
       Call, Async, Before, Trained, Settled, Outside, driverVars, managerVars, diskVars,
       Rollouts, None
<1>9. FreshInv'
  <2>1. pc' = "evalWait" => \A i \in 1 .. Len(calls') : calls'[i].op = "generate" =>
          calls'[i].id = future /\ calls = <<Gen(future)>>
    <3>1. CASE pc' = "evalWait" /\ calls' = <<Evl(rollout)>>
      BY <3>1, Asked
    <3>2. CASE pc' = "evalWait" /\ calls = <<Gen(future)>> /\ calls' = <<Gen(future), Evl(rollout)>>
      <4>1. Asks(calls', future)
        BY <3>2, Asked
      <4>2. QED
        BY <3>2, <4>1 DEF Asks
    <3>3. QED
      BY <1>a, <3>1, <3>2
  <2>2. calls = <<Gen(future)>> => future - served \in 0 .. Lag
    BY Queue, 1 \in 1 .. 1 DEF LoopInv, FreshInv, Gen
  <2>3. Lag' = Lag
    BY <1>0 DEF Lag, UpdateInterval, Async
  <2>4. CASE pc' = "evalWait"
    BY <1>0, <2>1, <2>2, <2>3, <2>4 DEF LoopInv, FreshInv, Fresh
  <2>5. CASE pc' = "next"
    BY <1>0, <2>3, <2>5 DEF LoopInv, FreshInv, Fresh
  <2>6. QED
    BY <1>0, <2>4, <2>5
<1>10. QED
  BY <1>1, <1>2, <1>3, <1>4, <1>5, <1>6, <1>7, <1>8, <1>9 DEF LoopInv

LEMMA NextRolloutKeepsLoop == LoopInv /\ NextRollout => LoopInv'
<1> SUFFICES ASSUME LoopInv, NextRollout
             PROVE  LoopInv'
  OBVIOUS
<1>1. TypeOK'
   BY TrainAssumption, SMTT(30) DEF LoopInv, TypeOK, Rollouts, None, Data, NoData, NextRollout, Idle,
       Async, Before, Trained, Settled, Outside, driverVars, managerVars, diskVars
<1>2. CallsInv'
   BY TrainAssumption DEF LoopInv, TypeOK, CallsInv, MayRun, Gen, Evl, Sav, NextRollout, Idle,
       Async, Before, Trained, Settled, Outside, driverVars, managerVars, diskVars, Rollouts,
       None
<1>3. PushInv'
   BY TrainAssumption DEF LoopInv, TypeOK, PushInv, CallsInv, NextRollout, Idle, Async, Before,
       Trained, Settled, Outside, driverVars, managerVars, diskVars, Rollouts, None
<1>4. DriverInv'
   BY TrainAssumption DEF LoopInv, TypeOK, DriverInv, Covered, Ready, NextRollout, Idle, Async,
       Before, Trained, Settled, Outside, driverVars, managerVars, diskVars, Rollouts, None
<1>5. ResultsInv'
  <2>1. pc \in {"next", "evalWait"} /\ pc' \in {"fetch", "done"} /\ rollout' = rollout + 1 /\ rollout \in Nat
    BY DEF LoopInv, TypeOK, NextRollout, Rollouts
  <2>2. results' = results /\ calls' = calls /\ (Async' <=> Async)
    BY DEF NextRollout, Async, managerVars
  <2>3. \A r \in Rollouts : results[r] # NoData => r <= (IF Async THEN rollout + 1 ELSE rollout)
    BY <2>1 DEF LoopInv, ResultsInv, Reach
  <2>4. QED
    BY <2>1, <2>2, <2>3 DEF LoopInv, ResultsInv, Reach
<1>6. ModelInv'
   BY TrainAssumption DEF LoopInv, TypeOK, ModelInv, NextRollout, Idle, Async, Before, Trained,
       Settled, Outside, driverVars, managerVars, diskVars, Rollouts, None
<1>7. OrderInv'
   BY TrainAssumption DEF LoopInv, TypeOK, OrderInv, Ordered, ModelInv, DriverInv, NextRollout,
       Idle, Async, Before, Trained, Settled, Outside, driverVars, managerVars, diskVars,
       Rollouts, None
<1>8. EnginesInv'
   BY TrainAssumption DEF LoopInv, TypeOK, EnginesInv, Behind, UpdateInterval, ModelInv,
       NextRollout, Idle, Async, Before, Trained, Settled, Outside, driverVars, managerVars,
       diskVars, Rollouts, None
<1>9. FreshInv'
   BY TrainAssumption DEF LoopInv, TypeOK, FreshInv, Fresh, Lag, UpdateInterval, CallsInv,
       MayRun, Gen, Evl, Sav, NextRollout, Idle, Async, Before, Trained, Settled, Outside,
       driverVars, managerVars, diskVars, Rollouts, None
<1>10. QED
  BY <1>1, <1>2, <1>3, <1>4, <1>5, <1>6, <1>7, <1>8, <1>9 DEF LoopInv

LEMMA BeginCallKeepsLoop == LoopInv /\ BeginCall => LoopInv'
<1> SUFFICES ASSUME LoopInv, BeginCall
             PROVE  LoopInv'
  OBVIOUS
<1>0. /\ calls # <<>> /\ serving = None /\ serving' = served /\ pc \notin {"load", "firstPush"}
      /\ UNCHANGED <<job, pc, rollout, future, current, pushing, calls, results, position, buffer,
                     model, served, saved, savedData, crashes, torn>>
  BY DEF LoopInv, CallsInv, BeginCall, driverVars, diskVars
<1>1. TypeOK'
  BY <1>0 DEF LoopInv, TypeOK
<1>2. CallsInv'
  BY <1>0 DEF LoopInv, CallsInv, MayRun, Gen, Evl, Sav
<1>3. PushInv'
  <2>1. Head(calls).op # "save"
    BY DEF BeginCall
  <2>2. QED
    BY <1>0, <2>1 DEF LoopInv, PushInv, TypeOK, None
<1>4. DriverInv'
  BY <1>0 DEF LoopInv, DriverInv, Covered, Ready, Async
<1>5. ResultsInv'
  BY <1>0 DEF LoopInv, ResultsInv, Reach, Ready, Async
<1>6. ModelInv'
   BY TrainAssumption DEF LoopInv, TypeOK, ModelInv, BeginCall, Async, Before, Trained, Settled,
       Outside, driverVars, managerVars, diskVars, Rollouts, None
<1>7. OrderInv'
   BY TrainAssumption DEF LoopInv, TypeOK, OrderInv, Ordered, ModelInv, DriverInv, BeginCall,
       Async, Before, Trained, Settled, Outside, driverVars, managerVars, diskVars, Rollouts,
       None
<1>8. EnginesInv'
   BY TrainAssumption DEF LoopInv, TypeOK, EnginesInv, Behind, UpdateInterval, ModelInv,
       BeginCall, Async, Before, Trained, Settled, Outside, driverVars, managerVars, diskVars,
       Rollouts, None
<1>9. FreshInv'
   BY TrainAssumption DEF LoopInv, TypeOK, FreshInv, Fresh, Lag, UpdateInterval, CallsInv,
       MayRun, Gen, Evl, Sav, BeginCall, Async, Before, Trained, Settled, Outside, driverVars,
       managerVars, diskVars, Rollouts, None
<1>10. QED
  BY <1>1, <1>2, <1>3, <1>4, <1>5, <1>6, <1>7, <1>8, <1>9 DEF LoopInv

LEMMA EndGenerateKeepsLoop == LoopInv /\ EndGenerate => LoopInv'
<1> SUFFICES ASSUME LoopInv, EndGenerate
             PROVE  LoopInv'
  OBVIOUS
<1> DEFINE r == Head(calls).id
<1>0. /\ serving # None /\ calls # <<>> /\ serving = served /\ calls' = Tail(calls) /\ serving' = None
      /\ UNCHANGED <<job, pc, rollout, future, current, pushing, model, served,
                     saved, savedData, crashes, torn>>
  BY DEF LoopInv, PushInv, EndGenerate, driverVars, diskVars
<1>a. /\ r \in Rollouts /\ Head(calls) = Gen(r) /\ r = (IF pc = "await" THEN rollout ELSE future)
      /\ pc \in {"await", "fetch", "train", "saveModel", "sync", "eval", "next", "done",
                 "saveData", "evalWait"}
      /\ \/ calls = <<Gen(r)>> /\ calls' = <<>>
         \/ pc = "saveData" /\ calls = <<Gen(r), Sav(rollout)>> /\ calls' = <<Sav(rollout)>>
         \/ pc = "evalWait" /\ calls = <<Gen(r), Evl(rollout)>> /\ calls' = <<Evl(rollout)>>
  <2>1. Head(calls).op = "generate"
    BY DEF EndGenerate
  <2>2. \A q : Gen(q).id = q /\ Evl(q).op # "generate" /\ Sav(q).op # "generate"
    BY DEF Gen, Evl, Sav
  <2>3. ~(pc = "await" /\ calls = <<Evl(0), Gen(rollout)>>) /\ ~(calls = <<Evl(rollout)>>) /\ ~(calls = <<Sav(rollout)>>)
    BY <2>1, <2>2, Queue
  <2>4. PICK q \in Rollouts :
              /\ Head(calls) = Gen(q) /\ q = (IF pc = "await" THEN rollout ELSE future)
              /\ pc \in {"await", "fetch", "train", "saveModel", "sync", "eval", "next", "done",
                         "saveData", "evalWait"}
              /\ \/ calls = <<Gen(q)>>
                 \/ pc = "saveData" /\ calls = <<Gen(q), Sav(rollout)>>
                 \/ pc = "evalWait" /\ calls = <<Gen(q), Evl(rollout)>>
    BY <1>0, <2>3, FirstCall
  <2>5. q = r
    BY <2>2, <2>4
  <2>6. /\ Tail(<<Gen(r)>>) = <<>> /\ Tail(<<Gen(r), Sav(rollout)>>) = <<Sav(rollout)>>
        /\ Tail(<<Gen(r), Evl(rollout)>>) = <<Evl(rollout)>>
    BY Queue
  <2>7. /\ Head(calls) = Gen(r) /\ r \in Rollouts /\ r = (IF pc = "await" THEN rollout ELSE future)
        /\ \/ calls = <<Gen(r)>>
           \/ pc = "saveData" /\ calls = <<Gen(r), Sav(rollout)>>
           \/ pc = "evalWait" /\ calls = <<Gen(r), Evl(rollout)>>
    BY <2>4, <2>5
  <2> HIDE DEF r
  <2>8. CASE calls = <<Gen(r)>>
    BY <1>0, <2>4, <2>6, <2>7, <2>8
  <2>9. CASE pc = "saveData" /\ calls = <<Gen(r), Sav(rollout)>>
    BY <1>0, <2>6, <2>7, <2>9
  <2>10. CASE pc = "evalWait" /\ calls = <<Gen(r), Evl(rollout)>>
    BY <1>0, <2>6, <2>7, <2>10
  <2>11. QED
    BY <2>7, <2>8, <2>9, <2>10
<1> HIDE DEF r
<1>b. PICK b \in Nat : /\ results' = [results EXCEPT ![r] = [batch |-> b, versions |-> {serving, served}]]
                       /\ position' \in Nat /\ buffer' \in Seq(Nat)
  BY Drawn DEF LoopInv, TypeOK, r
<1>c. /\ results' \in [Rollouts -> Data]
      /\ results'[r] # NoData /\ results'[r].batch \in Nat /\ results'[r].versions = {served}
      /\ \A q \in Rollouts : q # r => results'[q] = results[q]
  <2>1. [batch |-> b, versions |-> {serving, served}] \in Data
    BY DEF Data, LoopInv, TypeOK
  <2>2. [batch |-> b, versions |-> {serving, served}] # NoData
    BY DEF NoData, None
  <2>3. QED
    BY <1>0, <1>a, <1>b, <2>1, <2>2 DEF LoopInv, TypeOK
<1>d. \A i \in 1 .. Len(calls') : calls'[i].op # "generate"
  BY <1>a, Asked
<1>1. TypeOK'
  <2>1. calls' \in Seq(CallTypes)
    BY <1>a, KnownCalls DEF LoopInv, TypeOK
  <2>2. \A q \in Rollouts : results'[q] # NoData => results'[q].batch \in Nat
    BY <1>c DEF LoopInv, TypeOK
  <2>3. pushing' \in BOOLEAN /\ torn' \in BOOLEAN /\ serving' \in Int
    BY <1>0 DEF LoopInv, TypeOK, None
  <2>4. QED
    BY <1>0, <1>b, <1>c, <2>1, <2>2, <2>3 DEF LoopInv, TypeOK
<1>2. CallsInv'
  <2>1. <<>> \in MayRun' /\ <<Sav(rollout)>> = Append(<<>>, Sav(rollout))
        /\ <<Evl(rollout)>> = Append(<<>>, Evl(rollout))
    BY Queue DEF MayRun
  <2>2. QED
    BY <1>0, <1>a, <2>1 DEF CallsInv
<1>3. PushInv'
  BY <1>0 DEF LoopInv, PushInv
<1>4. DriverInv'
  <2>1. \A q \in Rollouts \cup {None} : Ready(q) => Ready(q)'
    BY <1>c DEF Ready
  <2>2. current' = current /\ current \in Rollouts \cup {None} /\ rollout \in Rollouts
    BY <1>0 DEF LoopInv, TypeOK
  <2>3. Ready(current) => Ready(current)'
    BY <2>1, <2>2 DEF Ready
  <2>4. \A q \in Nat : Covered(q) => Covered(q)'
    BY <1>0, <2>1, <2>2 DEF Covered
  <2>5. Ready(rollout) => Ready(rollout)'
    BY <1>0, <2>1, <2>2 DEF Ready
  <2>6. rollout \in Nat /\ rollout + 1 \in Nat
    BY <2>2 DEF Rollouts
  <2>7. QED
    BY <1>0, <2>4, <2>5, <2>6 DEF LoopInv, DriverInv, Async
<1>5. ResultsInv'
  <2>1. pc # "done" => r <= Reach
    <3>1. CASE pc = "await"
      <4>1. ~Async /\ r = rollout /\ rollout \in Int
        BY <1>a, <3>1 DEF LoopInv, TypeOK, DriverInv, Rollouts
      <4>2. Reach = rollout
        BY <3>1, <4>1 DEF Reach
      <4>3. QED
        BY <4>1, <4>2
    <3>2. CASE pc # "await"
      <4>1. future = r /\ future # None
        BY <1>a, <3>2 DEF Rollouts, None
      <4>2. Async
        BY <4>1 DEF LoopInv, DriverInv
      <4>3. pc = "fetch" => r = rollout
        BY <4>1, <4>2 DEF LoopInv, DriverInv, Covered
      <4>4. pc # "done" => r <= rollout + 1
        <5>1. CASE rollout + 1 < NumRollouts
          BY <1>a, <4>1, <4>2, <4>3, <3>2, <5>1
          DEF LoopInv, TypeOK, DriverInv, Covered, Trained, Settled, Rollouts
        <5>2. CASE ~(rollout + 1 < NumRollouts)
          BY <1>a, <5>2, TrainAssumption DEF LoopInv, TypeOK, Rollouts
        <5>3. QED
          BY <5>1, <5>2
      <4>5. pc = "fetch" => Reach = rollout
        BY <4>2 DEF Reach
      <4>6. pc # "fetch" => Reach = rollout + 1
        BY <1>a, <4>2 DEF Reach
      <4>7. rollout \in Int /\ r \in Int
        BY <1>a DEF LoopInv, TypeOK, Rollouts
      <4>8. QED
        BY <4>3, <4>4, <4>5, <4>6, <4>7
    <3>3. QED
      BY <3>1, <3>2
  <2>2. Reach' = Reach
    BY <1>0 DEF Reach, Async
  <2>3. \A q \in Rollouts : results'[q] # NoData /\ pc' # "done" => q <= Reach'
    BY <1>0, <1>a, <1>c, <2>1, <2>2 DEF LoopInv, ResultsInv
  <2>4. pc' = "await" => Ready(rollout)'
    BY <1>0, <1>a, <1>c DEF Ready, Rollouts, None
  <2>5. QED
    BY <1>d, <2>3, <2>4 DEF ResultsInv
<1>6. ModelInv'
  BY <1>0 DEF LoopInv, ModelInv
<1>7. OrderInv'
  BY <1>0 DEF LoopInv, OrderInv
<1>8. EnginesInv'
  BY <1>0 DEF LoopInv, EnginesInv, Behind, UpdateInterval, Async
<1>9. FreshInv'
  <2>1. r - served \in 0 .. Lag
    <3>1. 1 \in 1 .. Len(calls) /\ calls[1] = Gen(r)
      BY <1>a, Queue
    <3>2. QED
      BY <3>1 DEF LoopInv, FreshInv, Gen
  <2>2. Lag' = Lag
    BY <1>0 DEF Lag, UpdateInterval, Async
  <2>3. \A q \in Rollouts : \A v \in results'[q].versions : q - v \in 0 .. Lag
    BY <1>a, <1>c, <2>1 DEF LoopInv, FreshInv
  <2>4. QED
    BY <1>0, <1>d, <2>2, <2>3 DEF LoopInv, FreshInv, Fresh
<1>10. QED
  BY <1>1, <1>2, <1>3, <1>4, <1>5, <1>6, <1>7, <1>8, <1>9 DEF LoopInv

LEMMA EndEvalKeepsLoop == LoopInv /\ EndEval => LoopInv'
<1> SUFFICES ASSUME LoopInv, EndEval
             PROVE  LoopInv'
  OBVIOUS
<1>0. /\ calls # <<>> /\ calls' = Tail(calls) /\ serving' = None /\ results' = results
      /\ UNCHANGED <<job, pc, rollout, future, current, pushing, results, position, buffer,
                     model, served, saved, savedData, crashes, torn>>
  BY DEF LoopInv, PushInv, EndEval, driverVars, diskVars
<1>a. \/ pc = "await" /\ calls = <<Evl(0), Gen(rollout)>> /\ calls' = <<Gen(rollout)>>
      \/ pc = "evalWait" /\ calls = <<Evl(rollout)>> /\ calls' = <<>>
  <2>1. Head(calls).op = "eval"
    BY DEF EndEval
  <2>2. \A q : Gen(q).op # "eval" /\ Sav(q).op # "eval"
    BY DEF Gen, Sav
  <2>3. ~(calls = <<Sav(rollout)>>) /\ \A q : Head(calls) # Gen(q)
    BY <2>1, <2>2, Queue
  <2>4. \/ pc = "await" /\ calls = <<Evl(0), Gen(rollout)>>
        \/ pc = "evalWait" /\ calls = <<Evl(rollout)>>
    BY <1>0, <2>3, FirstCall
  <2>5. Tail(<<Evl(0), Gen(rollout)>>) = <<Gen(rollout)>> /\ Tail(<<Evl(rollout)>>) = <<>>
    BY Queue
  <2>6. QED
    BY <1>0, <2>4, <2>5
<1>1. TypeOK'
  <2>1. calls' \in Seq(CallTypes)
    BY <1>a, KnownCalls DEF LoopInv, TypeOK
  <2>2. pushing' \in BOOLEAN /\ torn' \in BOOLEAN /\ serving' \in Int
    BY <1>0 DEF LoopInv, TypeOK, None
  <2>3. QED
    BY <1>0, <2>1, <2>2 DEF LoopInv, TypeOK
<1>2. CallsInv'
  BY <1>0, <1>a DEF CallsInv, MayRun
<1>3. PushInv'
  BY <1>0 DEF LoopInv, PushInv
<1>4. DriverInv'
  BY <1>0 DEF LoopInv, DriverInv, Covered, Ready, Async
<1>5. ResultsInv'
  <2>1. \A i \in 1 .. Len(calls') : calls'[i].op = "generate" => pc = "await" /\ calls'[i].id = rollout
    <3>1. CASE calls' = <<Gen(rollout)>> /\ pc = "await"
      <4>1. Asks(calls', rollout)
        BY <3>1, Asked
      <4>2. QED
        BY <3>1, <4>1 DEF Asks
    <3>2. CASE calls' = <<>>
      BY <3>2, Asked
    <3>3. QED
      BY <1>a, <3>1, <3>2
  <2>2. pc = "await" => results[rollout] = NoData
    <3>1. pc = "await" => 2 \in 1 .. Len(calls) /\ calls[2] = Gen(rollout)
      BY <1>a, Queue
    <3>2. QED
      BY <3>1 DEF LoopInv, ResultsInv, Gen
  <2>3. pc = "await" => calls' # <<>>
    BY <1>a, Queue
  <2>4. QED
    BY <1>0, <2>1, <2>2, <2>3 DEF LoopInv, ResultsInv, Reach, Async
<1>6. ModelInv'
  BY <1>0 DEF LoopInv, ModelInv
<1>7. OrderInv'
  BY <1>0 DEF LoopInv, OrderInv
<1>8. EnginesInv'
  BY <1>0 DEF LoopInv, EnginesInv, Behind, UpdateInterval, Async
<1>9. FreshInv'
  <2>1. \A i \in 1 .. Len(calls') : calls'[i].op = "generate" => pc = "await" /\ calls'[i].id = rollout
    <3>1. CASE calls' = <<Gen(rollout)>> /\ pc = "await"
      <4>1. Asks(calls', rollout)
        BY <3>1, Asked
      <4>2. QED
        BY <3>1, <4>1 DEF Asks
    <3>2. CASE calls' = <<>>
      BY <3>2, Asked
    <3>3. QED
      BY <1>a, <3>1, <3>2
  <2>2. pc = "await" => rollout - served \in 0 .. Lag
    BY WithinLag DEF LoopInv, TypeOK, EnginesInv, Before, Rollouts
  <2>3. Lag' = Lag
    BY <1>0 DEF Lag, UpdateInterval, Async
  <2>4. QED
    BY <1>0, <2>1, <2>2, <2>3 DEF LoopInv, FreshInv, Fresh
<1>10. QED
  BY <1>1, <1>2, <1>3, <1>4, <1>5, <1>6, <1>7, <1>8, <1>9 DEF LoopInv

LEMMA SaveDataKeepsLoop == LoopInv /\ SaveData => LoopInv'
<1> SUFFICES ASSUME LoopInv, SaveData
             PROVE  LoopInv'
  OBVIOUS
<1>0. /\ calls # <<>> /\ calls' = Tail(calls)
      /\ UNCHANGED <<job, pc, rollout, future, current, pushing, serving, results, position, buffer,
                     model, served, saved, crashes, torn>>
  BY DEF SaveData, driverVars
<1>a. pc = "saveData" /\ calls = <<Sav(rollout)>> /\ calls' = <<>>
  <2>1. Head(calls).op = "save"
    BY DEF SaveData
  <2>2. \A q : Gen(q).op # "save" /\ Evl(q).op # "save"
    BY DEF Gen, Evl
  <2>3. /\ ~(calls = <<Evl(rollout)>>) /\ ~(calls = <<Evl(0), Gen(rollout)>>)
        /\ \A q : Head(calls) # Gen(q)
    BY <2>1, <2>2, Queue
  <2>4. pc = "saveData" /\ calls = <<Sav(rollout)>>
    BY <1>0, <2>3, FirstCall
  <2>5. QED
    BY <1>0, <2>4, Queue
<1>b. savedData' = [savedData EXCEPT ![rollout] = position] /\ rollout \in Rollouts /\ position \in Nat
  <2>1. Head(calls).id = rollout
    <3>1. Head(calls) = Sav(rollout)
      BY <1>a, Queue
    <3>2. QED
      BY <3>1 DEF Sav
  <2>2. QED
    BY <2>1 DEF SaveData, LoopInv, TypeOK
<1>c. serving = None
  <2>1. Head(calls).op = "save"
    BY DEF SaveData
  <2>2. QED
    BY <2>1 DEF LoopInv, PushInv
<1>1. TypeOK'
  <2>1. savedData' \in [Rollouts -> Nat \cup {None}]
    BY <1>b DEF LoopInv, TypeOK
  <2>2. calls' \in Seq(CallTypes)
    BY <1>a
  <2>3. QED
    BY <1>0, <2>1, <2>2 DEF LoopInv, TypeOK
<1>2. CallsInv'
  BY <1>0, <1>a DEF CallsInv, MayRun
<1>3. PushInv'
  BY <1>0, <1>c DEF LoopInv, PushInv
<1>4. DriverInv'
  BY <1>0 DEF LoopInv, DriverInv, Covered, Ready, Async
<1>5. ResultsInv'
  <2>1. \A i \in 1 .. Len(calls') : calls'[i].op # "generate"
    BY <1>a, Asked
  <2>2. QED
    BY <1>0, <1>a, <2>1 DEF LoopInv, ResultsInv, Reach, Async
<1>6. ModelInv'
  BY <1>0 DEF LoopInv, ModelInv
<1>7. OrderInv'
  BY <1>0 DEF LoopInv, OrderInv
<1>8. EnginesInv'
  BY <1>0 DEF LoopInv, EnginesInv, Behind, UpdateInterval, Async
<1>9. FreshInv'
  <2>1. \A i \in 1 .. Len(calls') : calls'[i].op # "generate"
    BY <1>a, Asked
  <2>2. Lag' = Lag
    BY <1>0 DEF Lag, UpdateInterval, Async
  <2>3. QED
    BY <1>0, <2>1, <2>2 DEF LoopInv, FreshInv, Fresh
<1>10. QED
  BY <1>1, <1>2, <1>3, <1>4, <1>5, <1>6, <1>7, <1>8, <1>9 DEF LoopInv

LEMMA CrashKeepsLoop == LoopInv /\ Crash => LoopInv'
<1> SUFFICES ASSUME LoopInv, Crash
             PROVE  LoopInv'
  OBVIOUS
<1>0. /\ pc' = "load" /\ rollout' = 0 /\ 0 \in Rollouts /\ None \in Rollouts \cup {None}
      /\ results' \in [Rollouts -> Data] /\ \A r \in Rollouts : results'[r] = NoData
  <2>1. NoData \in Data
    BY DEF NoData, Data, None
  <2>2. QED
    BY <2>1, TrainAssumption DEF Crash, Rollouts
<1>1. TypeOK'
  <2>1. torn' \in BOOLEAN /\ pushing' \in BOOLEAN
    BY DEF Crash, LoopInv, TypeOK
  <2>2. calls' \in Seq(CallTypes) /\ model' \in Seq(Step) /\ buffer' \in Seq(Nat) /\ position' \in Nat
    BY DEF Crash
  <2>3. crashes' \in Nat /\ serving' \in Int /\ served' \in Int
    BY DEF Crash, LoopInv, TypeOK, None
  <2>4. future' \in Rollouts \cup {None} /\ current' \in Rollouts \cup {None}
    BY DEF Crash
  <2>5. /\ job' \in Jobs /\ saved' \in Seq(Step) /\ Len(saved') <= NumRollouts
        /\ savedData' \in [Rollouts -> Nat \cup {None}]
    BY DEF Crash, LoopInv, TypeOK
  <2>6. QED
    BY <1>0, <2>1, <2>2, <2>3, <2>4, <2>5 DEF TypeOK, Outside
<1>2. CallsInv'
   BY TrainAssumption DEF LoopInv, TypeOK, CallsInv, MayRun, Gen, Evl, Sav, Crash, Async, Before,
       Trained, Settled, Outside, driverVars, managerVars, diskVars, Rollouts, None, NoData, Data
<1>3. PushInv'
   BY TrainAssumption DEF LoopInv, TypeOK, PushInv, CallsInv, Crash, Async, Before, Trained,
       Settled, Outside, driverVars, managerVars, diskVars, Rollouts, None, NoData, Data
<1>4. DriverInv'
   BY TrainAssumption DEF LoopInv, TypeOK, DriverInv, Covered, Ready, Crash, Async, Before,
       Trained, Settled, Outside, driverVars, managerVars, diskVars, Rollouts, None, NoData, Data
<1>5. ResultsInv'
   BY TrainAssumption DEF LoopInv, TypeOK, ResultsInv, Reach, DriverInv, CallsInv, MayRun, Gen,
       Evl, Sav, Ready, Covered, NoData, Crash, Async, Before, Trained, Settled, Outside,
       driverVars, managerVars, diskVars, Rollouts, None, Data
<1>6. ModelInv'
   BY TrainAssumption DEF LoopInv, TypeOK, ModelInv, Crash, Async, Before, Trained, Settled,
       Outside, driverVars, managerVars, diskVars, Rollouts, None, NoData, Data
<1>7. OrderInv'
   BY TrainAssumption DEF LoopInv, TypeOK, OrderInv, Ordered, ModelInv, DriverInv, Crash, Async,
       Before, Trained, Settled, Outside, driverVars, managerVars, diskVars, Rollouts, None,
       NoData, Data
<1>8. EnginesInv'
   BY TrainAssumption DEF LoopInv, TypeOK, EnginesInv, Behind, UpdateInterval, ModelInv, Crash,
       Async, Before, Trained, Settled, Outside, driverVars, managerVars, diskVars, Rollouts,
       None, NoData, Data
<1>9. FreshInv'
   BY TrainAssumption DEF LoopInv, TypeOK, FreshInv, Fresh, Lag, UpdateInterval, CallsInv,
       MayRun, Gen, Evl, Sav, Crash, Async, Before, Trained, Settled, Outside, driverVars,
       managerVars, diskVars, Rollouts, None, NoData, Data
<1>10. QED
  BY <1>1, <1>2, <1>3, <1>4, <1>5, <1>6, <1>7, <1>8, <1>9 DEF LoopInv

LEMMA LoopInit == Init => LoopInv
<1> SUFFICES ASSUME Init
             PROVE  LoopInv
  OBVIOUS
<1>0. /\ 0 \in Rollouts /\ NoData \in Data /\ results = [r \in Rollouts |-> NoData]
      /\ \A r \in Rollouts : results[r] = NoData
  BY TrainAssumption DEF Init, Rollouts, NoData, Data, None
<1>1. TypeOK
  <2>1. pushing \in BOOLEAN /\ torn \in BOOLEAN
    BY DEF Init
  <2>2. /\ calls \in Seq(CallTypes) /\ buffer \in Seq(Nat) /\ model \in Seq(Step) /\ saved \in Seq(Step)
        /\ Len(saved) <= NumRollouts /\ savedData \in [Rollouts -> Nat \cup {None}]
    BY TrainAssumption DEF Init
  <2>3. /\ results \in [Rollouts -> Data]
    BY <1>0
  <2>4. QED
    BY <1>0, <2>1, <2>2, <2>3, TrainAssumption DEF Init, TypeOK, None, Outside
<1>2. CallsInv /\ PushInv /\ DriverInv /\ ModelInv /\ OrderInv /\ EnginesInv
  BY DEF Init, CallsInv, PushInv, DriverInv, ModelInv, OrderInv, Ordered, EnginesInv,
     Before, Trained, Settled, Outside
<1>3. ResultsInv /\ FreshInv
  BY <1>0 DEF Init, ResultsInv, FreshInv, Fresh, NoData
<1>4. QED
  BY <1>1, <1>2, <1>3 DEF LoopInv

LEMMA LoopStutter == LoopInv /\ UNCHANGED vars => LoopInv'
<1> SUFFICES ASSUME LoopInv, UNCHANGED vars
             PROVE  LoopInv'
  OBVIOUS
<1>0. UNCHANGED <<job, pc, rollout, future, current, pushing, calls, serving, results, position, buffer,
                 model, served, saved, savedData, crashes, torn>>
  BY DEF vars, driverVars, managerVars, diskVars
<1>1. TypeOK' /\ CallsInv' /\ PushInv'
  BY <1>0 DEF LoopInv, TypeOK, CallsInv, MayRun, PushInv
<1>2. DriverInv' /\ ResultsInv'
  BY <1>0 DEF LoopInv, DriverInv, ResultsInv, Covered, Ready, Reach, Async
<1>3. ModelInv' /\ OrderInv'
  BY <1>0 DEF LoopInv, ModelInv, OrderInv
<1>4. EnginesInv' /\ FreshInv'
  BY <1>0 DEF LoopInv, EnginesInv, FreshInv, Fresh, Behind, Lag, UpdateInterval, Async
<1>5. QED
  BY <1>1, <1>2, <1>3, <1>4 DEF LoopInv

LEMMA LoopStep == LoopInv /\ [Next]_vars => LoopInv'
BY LoadKeepsLoop, BeginPushKeepsLoop, EndPushKeepsLoop, LaunchKeepsLoop, FetchSyncKeepsLoop,
   AwaitKeepsLoop, FetchAsyncKeepsLoop, TrainKeepsLoop, SaveModelKeepsLoop, SavedKeepsLoop,
   SyncKeepsLoop, EvalKeepsLoop, NextRolloutKeepsLoop, BeginCallKeepsLoop, EndGenerateKeepsLoop,
   EndEvalKeepsLoop, SaveDataKeepsLoop, CrashKeepsLoop, LoopStutter
DEF Next, Driver, Manager

\* Every reachable state satisfies the inductive invariant.
THEOREM LoopIsKept == Spec => []LoopInv
<1>1. Init => LoopInv
  BY LoopInit
<1>2. LoopInv /\ [Next]_vars => LoopInv'
  BY LoopStep
<1>3. QED
  BY <1>1, <1>2, PTL DEF Spec

\* The driver, the manager and the files keep to their types in every job.
THEOREM LoopTypes == Spec => []TypeOK
<1>1. LoopInv => TypeOK
  BY DEF LoopInv
<1>2. QED
  BY <1>1, LoopIsKept, PTL

\* Both scripts train the rollouts one after the other, each on the data
\* generated for it, whichever checkpoint a job resumes from.
THEOREM InOrder == Spec => []TrainedInOrder
<1>1. LoopInv => TrainedInOrder
  BY DEF LoopInv, OrderInv, Ordered, TrainedInOrder
<1>2. QED
  BY <1>1, LoopIsKept, PTL

\* update_weights and a call served by the rollout manager exclude each other.
THEOREM PushAlone == Spec => []NoPushWhileServing
<1>1. LoopInv => NoPushWhileServing
  BY DEF LoopInv, PushInv, CallsInv, NoPushWhileServing
<1>2. QED
  BY <1>1, LoopIsKept, PTL

\* train.py is on-policy; train_async.py lags by the update interval at most.
THEOREM LagIsBounded == Spec => []OffPolicyBound
<1>1. LoopInv => OffPolicyBound
  BY DEF LoopInv, FreshInv, Fresh, OffPolicyBound
<1>2. QED
  BY <1>1, LoopIsKept, PTL
-----------------------------------------------------------------------------
(* No group is trained on twice *)

\* A generation that ends had no data before.
LEMMA NewData ==
  ASSUME LoopInv, EndGenerate
  PROVE  Head(calls).id \in Rollouts /\ results[Head(calls).id] = NoData
<1>1. calls # <<>> /\ Head(calls).op = "generate" /\ calls \in Seq(CallTypes)
  BY DEF EndGenerate, LoopInv, PushInv, TypeOK
<1>2. calls[1] = Head(calls) /\ 1 \in 1 .. Len(calls) /\ calls[1] \in CallTypes
  BY <1>1
<1>3. Head(calls).id \in Rollouts
  BY <1>2 DEF CallTypes
<1>4. QED
  BY <1>1, <1>2, <1>3 DEF LoopInv, ResultsInv

\* Steps that touch neither groups nor files.
LEMMA QuietStepKeepsOnce ==
  ASSUME LoopInv, GroupInv, SavedInv,
         UNCHANGED <<results, position, buffer, model, saved, savedData>>, pc' # "load",
         pc' \in {"firstPush", "launch", "saveModel"} \cup Before => Len(saved) <= rollout',
         pc' \in Trained \cup Settled => Len(saved) <= rollout' + 1
  PROVE  GroupInv' /\ SavedInv'
<1>1. Untrained' = Untrained /\ Waiting' = Waiting
  BY DEF Untrained, Waiting
<1>2. GroupInv'
  BY <1>1 DEF GroupInv, Once, Batches
<1>3. SavedInv'
  BY DEF SavedInv
<1>4. QED
  BY <1>2, <1>3

LEMMA DriverKeepsOnce ==
  ASSUME LoopInv, GroupInv, SavedInv,
         \/ BeginPush \/ EndPush \/ Launch \/ FetchSync \/ Await \/ FetchAsync
         \/ Saved \/ Sync \/ Eval \/ NextRollout \/ BeginCall \/ EndEval
  PROVE  GroupInv' /\ SavedInv'
<1>1. /\ UNCHANGED <<results, position, buffer, model, saved, savedData>>
      /\ rollout \in Nat /\ Len(saved) \in Nat
  BY DEF BeginPush, EndPush, Launch, FetchSync, Await, FetchAsync, Saved, Sync, Eval, NextRollout,
     BeginCall, EndEval, managerVars, diskVars, LoopInv, TypeOK, Rollouts
<1> DEFINE Kept == /\ pc' # "load"
                   /\ pc' \in {"firstPush", "launch", "saveModel"} \cup Before => Len(saved) <= rollout'
                   /\ pc' \in Trained \cup Settled => Len(saved) <= rollout' + 1
<1>2. ASSUME BeginPush \/ Launch \/ FetchSync \/ Await \/ FetchAsync
      PROVE  Kept
  BY <1>1, <1>2 DEF SavedInv, BeginPush, Launch, Top, FetchSync, Await, FetchAsync, Before, Trained, Settled
<1>3. ASSUME EndPush
      PROVE  Kept
  BY <1>1, <1>3 DEF LoopInv, PushInv, SavedInv, EndPush, Top, Before, Trained, Settled
<1>4. ASSUME Saved \/ Sync \/ Eval
      PROVE  Kept
  BY <1>1, <1>4 DEF SavedInv, Saved, AfterSave, Sync, Eval, Before, Trained, Settled
<1>5. ASSUME NextRollout
      PROVE  Kept
  BY <1>1, <1>5 DEF SavedInv, NextRollout, Before, Trained, Settled
<1>6. ASSUME BeginCall \/ EndEval
      PROVE  Kept
  <2>1. pc' = pc /\ rollout' = rollout /\ calls # <<>>
    BY <1>6 DEF BeginCall, EndEval, driverVars, LoopInv, PushInv
  <2>2. pc # "load"
    BY <2>1 DEF LoopInv, CallsInv
  <2>3. QED
    BY <2>1, <2>2 DEF SavedInv
<1>7. Kept
  BY <1>2, <1>3, <1>4, <1>5, <1>6
<1>8. QED
  BY <1>1, <1>7, QuietStepKeepsOnce

LEMMA LoadKeepsOnce ==
  ASSUME LoopInv, GroupInv, SavedInv, Load
  PROVE  GroupInv' /\ SavedInv'
<1>1. /\ pc = "load" /\ pc' = "firstPush" /\ model' = saved /\ buffer = <<>>
      /\ UNCHANGED <<results, buffer, saved, savedData>>
  BY DEF Load, GroupInv, diskVars
<1>2. Len(saved) \in Nat /\ (saved = <<>> <=> Len(saved) = 0) /\ rollout' = Len(saved)
  BY DEF LoopInv, TypeOK, Load, Resumed
<1>3. /\ Untrained' = {} /\ Waiting' = {} /\ Elems(buffer') = {}
  <2>1. \A r \in Rollouts : results[r] = NoData
    BY <1>1 DEF LoopInv, ResultsInv, Reach, Rollouts, None
  <2>2. Untrained' = {}
    BY <1>1, <2>1 DEF Untrained
  <2>3. QED
    BY <1>1, <2>2 DEF Waiting, Elems
<1>4. Batches(model') \subseteq 0 .. position' - 1
  <2>1. CASE saved = <<>>
    BY <1>1, <1>2, <2>1 DEF Batches
  <2>2. CASE saved # <<>>
    <3>1. savedData[Len(saved) - 1] # None
      BY <1>1, <2>2 DEF SavedInv
    <3>2. position' = savedData[Len(saved) - 1]
      BY <1>2, <2>2, <3>1 DEF Load, Loaded
    <3>3. QED
      BY <1>1, <2>2, <3>1, <3>2 DEF SavedInv, Batches
  <2>3. QED
    BY <2>1, <2>2
<1>5. GroupInv'
  <2>1. Once(model') /\ Once(saved')
    BY <1>1 DEF GroupInv, Once
  <2>2. Different(buffer')
    BY <1>1 DEF GroupInv, Different
  <2>3. QED
    BY <1>1, <1>3, <1>4, <2>1, <2>2 DEF GroupInv, Once, Batches
<1>6. SavedInv'
  BY <1>1, <1>2 DEF SavedInv, Before, Trained, Settled
<1>7. QED
  BY <1>5, <1>6

\* The data of the rollout that is trained is no longer waiting.
LEMMA TrainKeepsOnce ==
  ASSUME LoopInv, GroupInv, SavedInv, Train
  PROVE  GroupInv' /\ SavedInv'
<1> DEFINE b == results[rollout].batch
<1>1. /\ pc = "train" /\ rollout \in Rollouts /\ rollout \in Nat /\ Len(model) = rollout
      /\ results[rollout] # NoData /\ pc' \in Trained \cup Settled
      /\ UNCHANGED <<rollout, results, position, buffer, saved, savedData>>
  BY DEF LoopInv, TypeOK, DriverInv, Ready, ModelInv, Train, AfterSave, Rollouts, Before, Trained, Settled,
     managerVars, diskVars
<1>2. /\ Len(model') = rollout + 1
      /\ \A k \in 1 .. rollout : model'[k] = model[k]
      /\ model'[rollout + 1].batch = b
  <2>1. PICK step : model' = Append(model, step) /\ step.batch = b
    BY DEF Train, LoopInv, DriverInv
  <2>2. /\ Len(Append(model, step)) = Len(model) + 1 /\ Append(model, step)[Len(model) + 1] = step
        /\ \A k \in 1 .. Len(model) : Append(model, step)[k] = model[k]
    BY DEF LoopInv, TypeOK
  <2>3. QED
    BY <1>1, <2>1, <2>2
<1> HIDE DEF b
<1>3. rollout \in Untrained /\ b \in Waiting
  BY <1>1 DEF Untrained, Waiting, b
<1>4. Batches(model') = Batches(model) \cup {b}
  <2>1. \A k \in 1 .. rollout + 1 : k \in 1 .. rollout \/ k = rollout + 1
    BY <1>1
  <2>2. \A k \in 1 .. rollout : k \in 1 .. rollout + 1
    BY <1>1
  <2>3. rollout + 1 \in 1 .. rollout + 1
    BY <1>1
  <2>4. QED
    BY <1>1, <1>2, <2>1, <2>2, <2>3 DEF Batches
<1>5. Untrained' = Untrained \ {rollout}
  BY <1>1, <1>2 DEF Untrained, Rollouts
<1>6. Waiting' = Waiting \ {b}
  <2>1. \A r \in Untrained : r # rollout => results[r].batch # b
    BY <1>3 DEF GroupInv, b
  <2>2. QED
    BY <1>1, <1>5, <2>1 DEF Waiting, b
<1>7. Once(model')
  <2> SUFFICES ASSUME NEW j \in 1 .. rollout + 1, NEW k \in 1 .. rollout + 1,
                      model'[j].batch = model'[k].batch
               PROVE  j = k
    BY <1>2 DEF Once
  <2>1. \A i \in 1 .. rollout : model[i].batch # b
    BY <1>1, <1>3 DEF GroupInv, Batches
  <2>2. \A i \in 1 .. rollout + 1 : i \in 1 .. rollout \/ i = rollout + 1
    BY <1>1
  <2>3. CASE j \in 1 .. rollout /\ k \in 1 .. rollout
    BY <1>1, <1>2, <2>3 DEF GroupInv, Once
  <2>4. QED
    BY <1>2, <2>1, <2>2, <2>3
<1>8. GroupInv'
  BY <1>1, <1>3, <1>4, <1>5, <1>6, <1>7, Waiting' \subseteq Waiting DEF GroupInv, Once, Trained, Settled
<1>9. SavedInv'
  <2>1. Len(saved) <= rollout /\ Len(saved) \in Nat
    BY <1>1 DEF SavedInv, Before, LoopInv, TypeOK
  <2>2. QED
    BY <1>1, <2>1 DEF SavedInv, Before, Trained, Settled
<1>10. QED
  BY <1>8, <1>9

\* The new checkpoint has no data state yet.
LEMMA SaveModelKeepsOnce ==
  ASSUME LoopInv, GroupInv, SavedInv, SaveModel
  PROVE  GroupInv' /\ SavedInv'
<1>1. /\ pc = "saveModel" /\ pc' = "saveData" /\ saved' = model /\ rollout \in Rollouts /\ rollout \in Nat
      /\ Len(model) = rollout + 1 /\ Len(saved) \in Nat /\ Len(saved) <= rollout
      /\ UNCHANGED <<rollout, results, position, buffer, model, savedData>>
  BY DEF LoopInv, TypeOK, ModelInv, SavedInv, SaveModel, Rollouts, Trained
<1>2. Untrained' = Untrained /\ Waiting' = Waiting
  BY <1>1 DEF Untrained, Waiting
<1>3. GroupInv'
  BY <1>1, <1>2 DEF GroupInv, Once, Batches
<1>4. \A r \in Rollouts : savedData[r] # None => r < Len(saved)
  BY DEF SavedInv
<1>5. savedData[rollout] = None /\ Len(saved') - 1 = rollout
  BY <1>1, <1>4
<1>6. \A r \in Rollouts : savedData'[r] # None => r < Len(saved')
  BY <1>1, <1>4 DEF Rollouts
<1>7. SavedInv'
  BY <1>1, <1>5, <1>6 DEF SavedInv, Before
<1>8. QED
  BY <1>3, <1>7

LEMMA SaveDataKeepsOnce ==
  ASSUME LoopInv, GroupInv, SavedInv, SaveData
  PROVE  GroupInv' /\ SavedInv'
<1>0. pc = "saveData" /\ calls = <<Sav(rollout)>>
  <2>1. calls # <<>> /\ Head(calls).op = "save"
    BY DEF SaveData
  <2>2. \A q : Gen(q).op # "save" /\ Evl(q).op # "save"
    BY DEF Gen, Evl
  <2>3. /\ ~(calls = <<Evl(rollout)>>) /\ ~(calls = <<Evl(0), Gen(rollout)>>)
        /\ \A q : Head(calls) # Gen(q)
    BY <2>1, <2>2, Queue
  <2>4. QED
    BY <2>1, <2>3, FirstCall
<1>1. /\ saved = model /\ rollout \in Rollouts /\ rollout \in Nat /\ Len(model) = rollout + 1
      /\ UNCHANGED <<pc, rollout, results, position, buffer, model, saved>> /\ position \in Nat
  BY <1>0 DEF LoopInv, TypeOK, ModelInv, SaveData, Rollouts, Trained, driverVars
<1>2. savedData' = [savedData EXCEPT ![rollout] = position]
  <2>1. Head(calls) = Sav(rollout)
    BY <1>0, Queue
  <2>2. Head(calls).id = rollout
    BY <2>1 DEF Sav
  <2>3. QED
    BY <2>2 DEF SaveData
<1>3. GroupInv'
  <2>1. Untrained' = Untrained /\ Waiting' = Waiting
    BY <1>1 DEF Untrained, Waiting
  <2>2. QED
    BY <1>1, <2>1 DEF GroupInv, Once, Batches
<1>4. /\ savedData'[rollout] = position
      /\ \A r \in Rollouts : r # rollout => savedData'[r] = savedData[r]
  BY <1>1, <1>2 DEF LoopInv, TypeOK
<1>5. Batches(saved') \subseteq 0 .. position - 1 /\ Len(saved') - 1 = rollout
  BY <1>1 DEF GroupInv, Batches
<1>6. \A r \in Rollouts : savedData'[r] # None => r < Len(saved')
  BY <1>1, <1>4 DEF SavedInv, Rollouts
<1>7. SavedInv'
  BY <1>0, <1>1, <1>4, <1>5, <1>6 DEF SavedInv, Before
<1>8. QED
  BY <1>3, <1>7

\* What a rollout takes is neither trained on nor waiting; what it gives back
\* is not its batch.
LEMMA EndGenerateKeepsOnce ==
  ASSUME LoopInv, GroupInv, SavedInv, EndGenerate
  PROVE  GroupInv' /\ SavedInv'
<1> DEFINE r == Head(calls).id
<1>1. r \in Rollouts /\ results[r] = NoData
  BY NewData
<1> HIDE DEF r
<1>2. /\ position \in Nat /\ buffer \in Seq(Nat) /\ results \in [Rollouts -> Data]
      /\ UNCHANGED <<pc, rollout, model, saved, savedData>> /\ pc # "load"
  BY DEF LoopInv, TypeOK, PushInv, CallsInv, EndGenerate, driverVars, diskVars
<1>3. PICK b \in Nat :
           /\ results' = [results EXCEPT ![r] = [batch |-> b, versions |-> {serving, served}]]
           /\ position' \in Nat /\ position <= position' /\ buffer' \in Seq(Nat)
           /\ Elems(buffer') \cup {b} \subseteq Elems(buffer) \cup position .. position' - 1
           /\ Different(buffer) /\ Elems(buffer) \subseteq 0 .. position - 1 =>
                Different(buffer') /\ b \notin Elems(buffer')
  BY <1>2, Drawn DEF r
<1>a. /\ (0 .. position - 1) \cap (position .. position' - 1) = {}
      /\ 0 .. position - 1 \subseteq 0 .. position' - 1
      /\ position .. position' - 1 \subseteq 0 .. position' - 1
  <2>1. position \in Nat /\ position' \in Nat /\ position <= position'
    BY <1>2, <1>3
  <2>2. \A x, y \in Nat : x <= y => /\ (0 .. x - 1) \cap (x .. y - 1) = {}
                                  /\ 0 .. x - 1 \subseteq 0 .. y - 1
                                  /\ x .. y - 1 \subseteq 0 .. y - 1
    OBVIOUS
  <2>3. QED
    BY <2>1, <2>2
<1>4. Different(buffer') /\ b \notin Elems(buffer')
  BY <1>3 DEF GroupInv
<1>5. /\ results'[r].batch = b
      /\ \A q \in Rollouts : q # r => results'[q] = results[q]
  BY <1>1, <1>2, <1>3
<1>6. /\ Untrained' \subseteq Untrained \cup {r} /\ r \notin Untrained
      /\ \A q \in Untrained : q \in Rollouts /\ q # r /\ results'[q] = results[q]
  BY <1>1, <1>2, <1>5 DEF Untrained
<1>7. Waiting' \subseteq Waiting \cup {b}
  BY <1>5, <1>6 DEF Waiting
<1>8. b \notin Waiting /\ b \notin Batches(model)
  <2>1. b \in Elems(buffer) \/ b \in position .. position' - 1
    BY <1>3
  <2>2. CASE b \in Elems(buffer)
    BY <2>2 DEF GroupInv
  <2>3. CASE b \in position .. position' - 1
    BY <1>a, <2>3 DEF GroupInv
  <2>4. QED
    BY <2>1, <2>2, <2>3
<1>9. /\ Batches(model) \cap Elems(buffer') = {} /\ Waiting \cap Elems(buffer') = {}
  <2>1. \A x : x \in Elems(buffer') => x \in Elems(buffer) \/ x \in position .. position' - 1
    BY <1>3
  <2>2. QED
    BY <1>a, <2>1 DEF GroupInv
<1>10. \A q, s \in Untrained' : results'[q].batch = results'[s].batch => q = s
  <2>1. \A q \in Untrained : results'[q].batch \in Waiting
    BY <1>6 DEF Waiting
  <2>2. \A q \in Untrained : results'[q].batch # b
    BY <1>8, <2>1
  <2>3. \A q, s \in Untrained : results'[q].batch = results'[s].batch => q = s
    BY <1>6 DEF GroupInv
  <2>4. QED
    BY <1>5, <1>6, <2>2, <2>3
<1>11. Batches(model)' \cup Waiting' \cup Elems(buffer') \subseteq 0 .. position' - 1
  <2>1. Batches(model)' = Batches(model)
    BY <1>2 DEF Batches
  <2>2. QED
    BY <1>3, <1>7, <1>a, <2>1 DEF GroupInv
<1>12. GroupInv'
  <2>1. Batches(model') = Batches(model) /\ Once(model') /\ Once(saved')
    BY <1>2 DEF Batches, Once, GroupInv
  <2>2. Batches(model) \cap Waiting' = {} /\ Waiting' \cap Elems(buffer') = {}
    BY <1>4, <1>7, <1>8, <1>9 DEF GroupInv
  <2>3. QED
    BY <1>2, <1>4, <1>9, <1>10, <1>11, <2>1, <2>2 DEF GroupInv, Batches, Once
<1>13. SavedInv'
  BY <1>2 DEF SavedInv
<1>14. QED
  BY <1>12, <1>13

LEMMA CrashKeepsOnce ==
  ASSUME LoopInv, GroupInv, SavedInv, Crash
  PROVE  OnceInv'
<1>1. /\ pc' = "load" /\ model' = <<>> /\ buffer' = <<>> /\ position' = 0 /\ UNCHANGED <<saved, savedData>>
      /\ \A r \in Rollouts : results'[r] = NoData
  BY DEF Crash
<1>2. Untrained' = {} /\ Waiting' = {} /\ Batches(model') = {} /\ Elems(buffer') = {}
  BY <1>1 DEF Untrained, Waiting, Batches, Elems
<1>3. GroupInv'
  <2>1. Once(model') /\ Once(saved') /\ Different(buffer')
    BY <1>1 DEF GroupInv, Once, Different
  <2>2. QED
    BY <1>1, <1>2, <2>1 DEF GroupInv, Once, Batches
<1>4. torn' \/ saved = <<>> \/ savedData[Len(saved) - 1] # None
  BY DEF Crash
<1>5. ~torn' => SavedInv'
  BY <1>1, <1>4 DEF SavedInv, Before, Trained, Settled
<1>6. QED
  BY <1>3, <1>5 DEF OnceInv

LEMMA OnceInit == Init => OnceInv
<1> SUFFICES ASSUME Init
             PROVE  OnceInv
  OBVIOUS
<1>1. \A r \in Rollouts : results[r] = NoData
  BY DEF Init
<1>2. Untrained = {} /\ Waiting = {} /\ Batches(model) = {} /\ Elems(buffer) = {}
  BY <1>1 DEF Init, Untrained, Waiting, Batches, Elems
<1>3. GroupInv
  <2>1. Once(model) /\ Once(saved) /\ Different(buffer)
    BY DEF Init, Once, Different
  <2>2. QED
    BY <1>1, <1>2, <2>1 DEF Init, GroupInv
<1>4. SavedInv
  BY DEF Init, SavedInv, Before, Trained, Settled
<1>5. QED
  BY <1>3, <1>4 DEF OnceInv

LEMMA OnceStep == LoopInv /\ OnceInv /\ [Next]_vars => OnceInv'
<1> SUFFICES ASSUME LoopInv, OnceInv, [Next]_vars
             PROVE  OnceInv'
  OBVIOUS
<1>1. CASE torn
  <2>1. torn'
    BY <1>1 DEF Next, Driver, Manager, Load, BeginPush, EndPush, Launch, FetchSync, Await, FetchAsync,
       Train, SaveModel, Saved, Sync, Eval, NextRollout, BeginCall, EndGenerate, EndEval, SaveData,
       Crash, vars, diskVars
  <2>2. QED
    BY <2>1 DEF OnceInv
<1>2. CASE ~torn /\ Next
  <2>1. GroupInv /\ SavedInv
    BY <1>2 DEF OnceInv
  <2>2. Crash \/ (GroupInv' /\ SavedInv')
    BY <1>2, <2>1, DriverKeepsOnce, LoadKeepsOnce, TrainKeepsOnce, SaveModelKeepsOnce,
       SaveDataKeepsOnce, EndGenerateKeepsOnce DEF Next, Driver, Manager
  <2>3. QED
    BY <2>1, <2>2, CrashKeepsOnce DEF OnceInv
<1>3. CASE UNCHANGED vars
  <2>1. UNCHANGED <<pc, rollout, results, position, buffer, model, saved, savedData, torn>>
    BY <1>3 DEF vars, driverVars, managerVars, diskVars
  <2>2. Untrained' = Untrained /\ Waiting' = Waiting
    BY <2>1 DEF Untrained, Waiting
  <2>3. GroupInv' = GroupInv /\ SavedInv' = SavedInv
    BY <2>1, <2>2 DEF GroupInv, SavedInv, Once, Batches
  <2>4. QED
    BY <2>1, <2>3 DEF OnceInv
<1>4. QED
  BY <1>1, <1>2, <1>3

\* No group is trained on twice through any crash, unless one fell between the
\* model's half of a checkpoint and the data source's.
THEOREM NothingTwice == Spec => []NoGroupTwice
<1>1. Init => LoopInv /\ OnceInv
  BY LoopInit, OnceInit
<1>2. LoopInv /\ OnceInv /\ [Next]_vars => LoopInv' /\ OnceInv'
  BY LoopStep, OnceStep
<1>3. OnceInv => NoGroupTwice
  BY DEF OnceInv, GroupInv, Once, NoGroupTwice
<1>4. QED
  BY <1>1, <1>2, <1>3, PTL DEF Spec
=============================================================================
