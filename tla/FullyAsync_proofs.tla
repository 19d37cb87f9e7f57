------------------------- MODULE FullyAsync_proofs -------------------------
(***************************************************************************)
(* Proofs about FullyAsync: what the rollouts hand to training was finished *)
(* recently, for every size of the batch and of the queue, and through any  *)
(* number of updates and failures.                                         *)
(***************************************************************************)
EXTENDS FullyAsync, SequenceTheorems, TLAPS

Result == [aborted : BOOLEAN, at : Int]

TypeOK ==
  /\ buffer \in Nat /\ running \in 0 .. Target /\ doomed \in 0 .. running
  /\ blocked = <<>> \/ \E r \in Result : blocked = <<r>>
  /\ queue \in Seq(Result) /\ Len(queue) <= QueueSize
  /\ rollout \in BOOLEAN
  /\ taken \in Seq(Result) /\ data \in Seq(Result) /\ batch \in Seq(Result)
  /\ Len(data) <= Target /\ made \in 0 .. NumRollouts /\ (rollout => made < NumRollouts)
  /\ updates \in [after : Nat, count : Nat] /\ failures \in Nat

\* The queue was emptied in this rollout, for all that can be told from what the
\* rollout holds.
Drained == taken # <<>> \/ data # <<>>

Since(s, m) == \A i \in 1 .. Len(s) : s[i].at >= m

\* A result whose put is blocked is put into an empty queue when a rollout has
\* passed it by; so it is taken by the next rollout.
AgeInv ==
  /\ ~rollout => taken = <<>> /\ data = <<>>
  /\ Since(taken, made - 2) /\ Since(data, made - 2) /\ Since(batch, made - 3)
  /\ Since(queue, IF Drained THEN made - 1 ELSE made - 2)
  /\ Since(blocked, IF Drained THEN made - 1 ELSE made - 2)
  /\ \/ Since(blocked, IF Drained THEN made ELSE made - 1)
     \/ queue = <<>>

AsyncInv == TypeOK /\ AgeInv
-----------------------------------------------------------------------------
(* Sequences *)

LEMMA Singles ==
  \A x : /\ Len(<<x>>) = 1 /\ <<x>>[1] = x /\ <<x>> # <<>> /\ Len(<<>>) = 0
OBVIOUS

LEMMA SinceLater ==
  ASSUME NEW s, NEW m \in Int, NEW n \in Int, n <= m, Since(s, m),
         \A i \in 1 .. Len(s) : s[i].at \in Int
  PROVE  Since(s, n)
BY DEF Since

LEMMA Typed ==
  ASSUME NEW s \in Seq(Result)
  PROVE  \A i \in 1 .. Len(s) : s[i] \in Result /\ s[i].at \in Int
<1>1. \A i \in 1 .. Len(s) : s[i] \in Result
  OBVIOUS
<1>2. \A r \in Result : r.at \in Int
  BY DEF Result
<1>3. QED
  BY <1>1, <1>2

LEMMA Appended ==
  ASSUME NEW s \in Seq(Result), NEW r \in Result
  PROVE  /\ Append(s, r) \in Seq(Result) /\ Len(Append(s, r)) = Len(s) + 1 /\ Append(s, r) # <<>>
         /\ s \o <<r>> = Append(s, r)
         /\ \A m : Since(s, m) /\ r.at >= m => Since(Append(s, r), m)
<1>1. /\ Append(s, r) \in Seq(Result) /\ Len(Append(s, r)) = Len(s) + 1 /\ Append(s, r) # <<>>
      /\ \A i \in 1 .. Len(s) : Append(s, r)[i] = s[i]
      /\ Append(s, r)[Len(s) + 1] = r
  BY AppendProperties
<1>2. \A i \in 1 .. Len(s) + 1 : i \in 1 .. Len(s) \/ i = Len(s) + 1
  OBVIOUS
<1>3. s \o <<r>> = Append(s, r)
  OBVIOUS
<1>4. \A m : Since(s, m) /\ r.at >= m => Since(Append(s, r), m)
  BY <1>1, <1>2 DEF Since
<1>5. QED
  BY <1>1, <1>3, <1>4

LEMMA Tailed ==
  ASSUME NEW s \in Seq(Result), s # <<>>
  PROVE  /\ Tail(s) \in Seq(Result) /\ Head(s) \in Result
         /\ \A m : Since(s, m) => Since(Tail(s), m) /\ Head(s).at >= m
<1>1. /\ Tail(s) \in Seq(Result) /\ Head(s) \in Result /\ Len(Tail(s)) = Len(s) - 1 /\ Len(s) \in Nat
      /\ \A i \in 1 .. Len(Tail(s)) : Tail(s)[i] = s[i + 1]
      /\ Head(s) = s[1] /\ 1 \in 1 .. Len(s)
  BY HeadTailProperties
<1>2. \A i \in 1 .. Len(Tail(s)) : i + 1 \in 1 .. Len(s)
  BY <1>1
<1>3. QED
  BY <1>1, <1>2 DEF Since

LEMMA Nothing == <<>> \in Seq(Result) /\ \A m : Since(<<>>, m)
BY Singles DEF Since
-----------------------------------------------------------------------------
(* Every step keeps the invariant. *)

LEMMA AsyncInit == Init => AsyncInv
<1> SUFFICES ASSUME Init
             PROVE  AsyncInv
  OBVIOUS
<1>1. TypeOK
  <2>1. rollout \in BOOLEAN
    BY DEF Init
  <2>2. updates \in [after : Nat, count : Nat]
    BY DEF Init
  <2>3. Len(<<>>) = 0 /\ 0 \in Nat /\ 0 \in 0 .. Target /\ 0 \in 0 .. 0 /\ 0 \in 0 .. NumRollouts
        /\ 0 <= QueueSize /\ 0 <= Target
    BY FullyAsyncAssumption
  <2>4. QED
    BY <2>1, <2>2, <2>3, Nothing DEF Init, TypeOK
<1>2. AgeInv
  BY Nothing DEF Init, AgeInv
<1>3. QED
  BY <1>1, <1>2 DEF AsyncInv

\* Steps that move no result.
LEMMA QuietKeeps ==
  ASSUME AsyncInv, UNCHANGED <<queue, blocked, taken, data, made, batch>>, rollout' \/ ~rollout
  PROVE  AgeInv'
<1>1. Drained' = Drained
  BY DEF Drained
<1>2. AgeInv'
  BY <1>1 DEF AsyncInv, AgeInv
<1>3. QED
  BY <1>2

LEMMA DrawKeeps == AsyncInv /\ Draw => AsyncInv'
<1> SUFFICES ASSUME AsyncInv, Draw
             PROVE  AsyncInv'
  OBVIOUS
<1>1. AgeInv'
  BY QuietKeeps DEF Draw, rolloutVars
<1>2. running' \in 0 .. Target /\ doomed' \in 0 .. running' /\ buffer' \in Nat
  BY FullyAsyncAssumption DEF Draw, Free, AsyncInv, TypeOK
<1>3. TypeOK'
  BY <1>2 DEF Draw, rolloutVars, AsyncInv, TypeOK
<1>4. QED
  BY <1>1, <1>3 DEF AsyncInv

LEMMA LeavesTyped ==
  ASSUME TypeOK, NEW aborted \in BOOLEAN, Leaves(aborted)
  PROVE  /\ running' \in 0 .. Target /\ doomed' \in 0 .. running' /\ blocked = <<>>
BY FullyAsyncAssumption DEF TypeOK, Leaves, LoopFree

LEMMA EndGroupKeeps ==
  ASSUME AsyncInv, NEW aborted \in BOOLEAN, EndGroup(aborted)
  PROVE  AsyncInv'
<1> DEFINE result == [aborted |-> aborted, at |-> made]
<1>0. /\ running' \in 0 .. Target /\ doomed' \in 0 .. running' /\ blocked = <<>>
      /\ UNCHANGED <<buffer, updates, failures, rollout, taken, data, made, batch>>
      /\ queue \in Seq(Result) /\ made \in Int /\ Len(queue) <= QueueSize /\ Len(queue) \in Nat
  BY LeavesTyped DEF EndGroup, AsyncInv, TypeOK, rolloutVars
<1>1. result \in Result /\ result.at = made
  BY <1>0 DEF Result
<1>2. \/ Len(queue) < QueueSize /\ queue' = Append(queue, result) /\ blocked' = <<>>
      \/ blocked' = <<result>> /\ queue' = queue
  BY <1>0 DEF EndGroup
<1> HIDE DEF result
<1>3. /\ queue' \in Seq(Result) /\ Len(queue') <= QueueSize
      /\ blocked' = <<>> \/ \E r \in Result : blocked' = <<r>>
  <2>1. CASE Len(queue) < QueueSize /\ queue' = Append(queue, result) /\ blocked' = <<>>
    <3>1. Append(queue, result) \in Seq(Result) /\ Len(Append(queue, result)) = Len(queue) + 1
      BY <1>0, <1>1, Appended
    <3>2. Len(queue) + 1 <= QueueSize
      BY <1>0, <2>1, FullyAsyncAssumption
    <3>3. QED
      BY <2>1, <3>1, <3>2
  <2>2. CASE blocked' = <<result>> /\ queue' = queue
    BY <1>0, <1>1, <2>2
  <2>3. QED
    BY <1>2, <2>1, <2>2
<1>4. TypeOK'
  <2>1. rollout' \in BOOLEAN
    BY <1>0 DEF AsyncInv, TypeOK
  <2>2. QED
    BY <1>0, <1>3, <2>1 DEF AsyncInv, TypeOK
<1>5. Drained' = Drained
  BY <1>0 DEF Drained
<1>6. Since(queue', IF Drained THEN made - 1 ELSE made - 2)
  <2>1. made >= made - 1 /\ made >= made - 2
    BY <1>0
  <2>2. Since(queue, IF Drained THEN made - 1 ELSE made - 2)
    BY DEF AsyncInv, AgeInv
  <2>3. QED
    BY <1>0, <1>1, <1>2, <2>1, <2>2, Appended
<1>7. Since(blocked', made) /\ Since(blocked', made - 1) /\ Since(blocked', made - 2)
  <2>1. made >= made /\ made >= made - 1 /\ made >= made - 2
    BY <1>0
  <2>2. \A m : made >= m => Since(<<result>>, m)
    BY <1>1, Singles DEF Since
  <2>3. QED
    BY <1>2, <2>1, <2>2, Nothing
<1>8. AgeInv'
  BY <1>0, <1>5, <1>6, <1>7 DEF AsyncInv, AgeInv
<1>9. QED
  BY <1>4, <1>8 DEF AsyncInv

LEMMA FailKeeps ==
  ASSUME AsyncInv, NEW aborted \in BOOLEAN, Fail(aborted)
  PROVE  AsyncInv'
<1>1. AgeInv'
  BY QuietKeeps DEF Fail, rolloutVars
<1>2. running' \in 0 .. Target /\ doomed' \in 0 .. running'
  BY LeavesTyped DEF Fail, AsyncInv
<1>3. TypeOK'
  BY <1>2 DEF Fail, rolloutVars, AsyncInv, TypeOK
<1>4. QED
  BY <1>1, <1>3 DEF AsyncInv

LEMMA UnblockKeeps == AsyncInv /\ Unblock => AsyncInv'
<1> SUFFICES ASSUME AsyncInv, Unblock
             PROVE  AsyncInv'
  OBVIOUS
<1>1. PICK r \in Result : blocked = <<r>>
  BY DEF AsyncInv, TypeOK, Unblock
<1>2. /\ queue \in Seq(Result) /\ queue' = Append(queue, r) /\ blocked' = <<>> /\ Len(queue) < QueueSize
      /\ UNCHANGED <<buffer, doomed, updates, failures, running, rollout, taken, data, made, batch>>
  BY <1>1, Appended DEF AsyncInv, TypeOK, Unblock, rolloutVars
<1>3. queue' \in Seq(Result) /\ Len(queue') <= QueueSize
  BY <1>2, Appended, FullyAsyncAssumption
<1>4. TypeOK'
  <2>1. rollout' \in BOOLEAN
    BY <1>2 DEF AsyncInv, TypeOK
  <2>2. QED
    BY <1>2, <1>3, <2>1 DEF AsyncInv, TypeOK
<1>5. Drained' = Drained
  BY <1>2 DEF Drained
<1>6. Since(queue', IF Drained THEN made - 1 ELSE made - 2)
  <2>1. r.at >= IF Drained THEN made - 1 ELSE made - 2
    BY <1>1, Singles, 1 \in 1 .. 1 DEF AsyncInv, AgeInv, Since
  <2>2. QED
    BY <1>2, <2>1, Appended DEF AsyncInv, AgeInv
<1>7. AgeInv'
  BY <1>2, <1>5, <1>6, Nothing DEF AsyncInv, AgeInv
<1>8. QED
  BY <1>4, <1>7 DEF AsyncInv

LEMMA BeginKeeps == AsyncInv /\ Begin => AsyncInv'
<1> SUFFICES ASSUME AsyncInv, Begin
             PROVE  AsyncInv'
  OBVIOUS
<1>1. AgeInv'
  BY QuietKeeps DEF Begin, workerVars
<1>2. TypeOK'
  BY DEF Begin, workerVars, AsyncInv, TypeOK
<1>3. QED
  BY <1>1, <1>2 DEF AsyncInv

LEMMA DrainKeeps == AsyncInv /\ Drain => AsyncInv'
<1> SUFFICES ASSUME AsyncInv, Drain
             PROVE  AsyncInv'
  OBVIOUS
<1>0. /\ rollout /\ taken = <<>> /\ queue # <<>> /\ taken' = queue /\ queue' = <<>>
      /\ UNCHANGED <<buffer, doomed, updates, failures, running, blocked, rollout, data, made, batch>>
      /\ made \in Int /\ queue \in Seq(Result)
  BY DEF Drain, workerVars, AsyncInv, TypeOK
<1>1. TypeOK'
  <2>1. rollout' \in BOOLEAN
    BY <1>0 DEF AsyncInv, TypeOK
  <2>2. Len(queue') <= QueueSize
    BY <1>0, FullyAsyncAssumption
  <2>3. QED
    BY <1>0, <2>1, <2>2, Nothing DEF AsyncInv, TypeOK
<1>2. Drained'
  BY <1>0 DEF Drained
<1>3. Since(taken', made - 2)
  <2>1. Since(queue, made - 2)
    <3>1. CASE Drained
      <4>1. Since(queue, made - 1)
        BY <3>1 DEF AsyncInv, AgeInv
      <4>2. QED
        BY <1>0, <4>1, Typed, SinceLater, made - 2 <= made - 1
    <3>2. CASE ~Drained
      BY <3>2 DEF AsyncInv, AgeInv
    <3>3. QED
      BY <3>1, <3>2
  <2>2. QED
    BY <1>0, <2>1
<1>4. Since(blocked, made - 1)
  <2>1. CASE Drained
    BY <2>1 DEF AsyncInv, AgeInv
  <2>2. CASE ~Drained
    BY <1>0, <2>2 DEF AsyncInv, AgeInv
  <2>3. QED
    BY <2>1, <2>2
<1>5. AgeInv'
  BY <1>0, <1>2, <1>3, <1>4, Nothing DEF AsyncInv, AgeInv
<1>6. QED
  BY <1>1, <1>5 DEF AsyncInv

\* What was held to since the queue was emptied also holds before.
LEMMA Forget ==
  ASSUME AsyncInv
  PROVE  /\ Since(queue, made - 2) /\ Since(blocked, made - 2)
         /\ Since(blocked, made - 1) \/ queue = <<>>
<1>1. /\ made \in Int /\ made - 2 <= made - 1 /\ made - 1 <= made
      /\ \A i \in 1 .. Len(queue) : queue[i].at \in Int
      /\ \A i \in 1 .. Len(blocked) : blocked[i].at \in Int
  <2>1. \A i \in 1 .. 1 : i = 1
    OBVIOUS
  <2>2. \A i \in 1 .. Len(blocked) : blocked[i].at \in Int
    BY <2>1, Singles DEF AsyncInv, TypeOK, Result
  <2>3. QED
    BY <2>2, Typed DEF AsyncInv, TypeOK
<1>2. CASE Drained
  <2>1. Since(queue, made - 1) /\ Since(blocked, made - 1)
    BY <1>2 DEF AsyncInv, AgeInv
  <2>2. QED
    BY <1>1, <2>1, SinceLater
<1>3. CASE ~Drained
  BY <1>3 DEF AsyncInv, AgeInv
<1>4. QED
  BY <1>2, <1>3

LEMMA SortKeeps == AsyncInv /\ Sort => AsyncInv'
<1> SUFFICES ASSUME AsyncInv, Sort
             PROVE  AsyncInv'
  OBVIOUS
<1>0. /\ rollout /\ taken # <<>> /\ taken' = Tail(taken) /\ Len(data) < Target
      /\ UNCHANGED <<queue, doomed, updates, failures, running, blocked, rollout, made, batch>>
      /\ made \in Int /\ taken \in Seq(Result) /\ data \in Seq(Result)
      /\ \/ buffer' = buffer + 1 /\ data' = data
         \/ ~Head(taken).aborted /\ data' = Append(data, Head(taken)) /\ buffer' = buffer
  BY DEF Sort, GoesBack, workerVars, AsyncInv, TypeOK
<1>1. /\ Tail(taken) \in Seq(Result) /\ Head(taken) \in Result
      /\ Since(Tail(taken), made - 2) /\ Head(taken).at >= made - 2
  BY <1>0, Tailed DEF AsyncInv, AgeInv
<1>2. /\ data' \in Seq(Result) /\ Len(data') <= Target /\ Since(data', made - 2)
  <2>1. Since(data, made - 2)
    BY DEF AsyncInv, AgeInv
  <2>2. CASE data' = data
    BY <1>0, <2>1, <2>2 DEF AsyncInv, TypeOK
  <2>3. CASE ~Head(taken).aborted /\ data' = Append(data, Head(taken))
    BY <1>0, <1>1, <2>1, <2>3, Appended, FullyAsyncAssumption
  <2>4. QED
    BY <1>0, <2>2, <2>3
<1>3. TypeOK'
  <2>1. rollout' \in BOOLEAN /\ buffer' \in Nat
    BY <1>0 DEF AsyncInv, TypeOK
  <2>2. QED
    BY <1>0, <1>1, <1>2, <2>1 DEF AsyncInv, TypeOK
<1>4. Drained
  BY <1>0 DEF Drained
<1>5. /\ Since(queue, IF Drained' THEN made - 1 ELSE made - 2)
      /\ Since(blocked, IF Drained' THEN made - 1 ELSE made - 2)
      /\ \/ Since(blocked, IF Drained' THEN made ELSE made - 1)
         \/ queue = <<>>
  BY <1>4, Forget DEF AsyncInv, AgeInv
<1>6. AgeInv'
  BY <1>0, <1>1, <1>2, <1>5 DEF AsyncInv, AgeInv
<1>7. QED
  BY <1>3, <1>6 DEF AsyncInv

LEMMA ReturnKeeps == AsyncInv /\ Return => AsyncInv'
<1> SUFFICES ASSUME AsyncInv, Return
             PROVE  AsyncInv'
  OBVIOUS
<1>0. /\ rollout /\ ~rollout' /\ taken' = <<>> /\ data' = <<>> /\ Len(data) = Target
      /\ made' = made + 1 /\ batch' = data
      /\ UNCHANGED <<buffer, queue, doomed, updates, failures, running, blocked>>
      /\ made \in Int
  <2>1. made \in Int
    BY DEF AsyncInv, TypeOK
  <2>2. QED
    BY <2>1 DEF Return, Leftover, workerVars
<1>1. Drained /\ ~Drained'
  BY <1>0, Singles, FullyAsyncAssumption DEF Drained
<1>2. TypeOK'
  <2>1. made' \in 0 .. NumRollouts
    BY <1>0, FullyAsyncAssumption DEF AsyncInv, TypeOK
  <2>2. rollout' \in BOOLEAN
    BY <1>0 DEF Return
  <2>3. /\ taken' \in Seq(Result) /\ data' \in Seq(Result) /\ batch' \in Seq(Result)
        /\ Len(data') <= Target
    BY <1>0, Nothing, Singles, FullyAsyncAssumption DEF AsyncInv, TypeOK
  <2>4. QED
    BY <1>0, <2>1, <2>2, <2>3 DEF AsyncInv, TypeOK
<1>3. made' - 1 = made /\ made' - 2 = made - 1 /\ made' - 3 = made - 2
  BY <1>0
<1>4. AgeInv'
  BY <1>0, <1>1, <1>3, Nothing DEF AsyncInv, AgeInv
<1>5. QED
  BY <1>2, <1>4 DEF AsyncInv

LEMMA UpdateKeeps == AsyncInv /\ UpdateWeights => AsyncInv'
<1> SUFFICES ASSUME AsyncInv, UpdateWeights
             PROVE  AsyncInv'
  OBVIOUS
<1>1. AgeInv'
  BY QuietKeeps DEF UpdateWeights, workerVars, rolloutVars
<1>2. doomed' \in 0 .. running' /\ updates' \in [after : Nat, count : Nat]
  BY DEF UpdateWeights, workerVars, AsyncInv, TypeOK
<1>3. TypeOK'
  BY <1>2 DEF UpdateWeights, workerVars, rolloutVars, AsyncInv, TypeOK
<1>4. QED
  BY <1>1, <1>3 DEF AsyncInv

LEMMA AsyncStutter == AsyncInv /\ UNCHANGED vars => AsyncInv'
<1> SUFFICES ASSUME AsyncInv, UNCHANGED vars
             PROVE  AsyncInv'
  OBVIOUS
<1>1. UNCHANGED <<buffer, running, doomed, blocked, queue, rollout, taken, data, made, batch, updates, failures>>
  BY DEF vars, workerVars, rolloutVars
<1>2. AgeInv'
  BY <1>1, QuietKeeps
<1>3. TypeOK'
  BY <1>1 DEF AsyncInv, TypeOK
<1>4. QED
  BY <1>2, <1>3 DEF AsyncInv

\* Every reachable state satisfies the inductive invariant.
THEOREM AsyncIsKept == Spec => []AsyncInv
<1>1. Init => AsyncInv
  BY AsyncInit
<1>2. AsyncInv /\ [Next]_vars => AsyncInv'
  BY DrawKeeps, UnblockKeeps, EndGroupKeeps, FailKeeps, BeginKeeps, DrainKeeps, SortKeeps,
     ReturnKeeps, UpdateKeeps, AsyncStutter DEF Next
<1>3. QED
  BY <1>1, <1>2, PTL DEF Spec

\* The worker never has more than rollout_batch_size groups in generation, nor
\* the queue more than its size, and a batch under way never overflows.
THEOREM AsyncTypes == Spec => []TypeOK
<1>1. AsyncInv => TypeOK
  BY DEF AsyncInv
<1>2. QED
  BY <1>1, AsyncIsKept, PTL

LEMMA Members ==
  ASSUME NEW s \in Seq(Result)
  PROVE  \A r \in Range(s) : \E i \in 1 .. Len(s) : r = s[i]
BY DEF Range

\* The groups of a batch were finished within the last three rollouts.
THEOREM RecentGroups == Spec => []FinishedRecently
<1>1. AsyncInv => FinishedRecently
  BY Members DEF AsyncInv, TypeOK, AgeInv, Since, FinishedRecently
<1>2. QED
  BY <1>1, AsyncIsKept, PTL
=============================================================================
