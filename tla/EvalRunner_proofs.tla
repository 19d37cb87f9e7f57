-------------------------- MODULE EvalRunner_proofs --------------------------
(***************************************************************************)
(* What holds of EvalRunner for every set of prompts, every n, concurrency, *)
(* rate and number of restarts.                                            *)
(***************************************************************************)
EXTENDS EvalRunner, TLAPS

\* A task is under way only for a pair the run was asked for and that has no
\* line yet: that is what load_done_pairs gives a resumed run.
TaskHasNoRecord ==
  \A p \in Pairs : stage[p] # "idle" =>
    run = "up" /\ p \in Items(n) /\ answers[p] = <<>>

\* Nothing is lost on the way from the queue to the file.
NothingLost ==
  run = "up" /\ ~shutdown =>
    \A p \in Items(n) : stage[p] # "idle" \/ answers[p] # <<>>

\* What was asked is under way until it has its line, unless the process dies.
AskedIsKept ==
  run # "crashed" =>
    \A p \in Pairs : attempt[p] > 0 =>
      stage[p] \in {"asking", "ok", "failed"} \/ answers[p] # <<>>

IInv ==
  /\ TypeOK
  /\ run = "up" => n \in Ns
  /\ OneRecordPerPair
  /\ TaskHasNoRecord
  /\ NothingLost
  /\ run = "finished" => n \in Ns
  /\ FinishedIsComplete
  /\ AskedIsKept
-----------------------------------------------------------------------------
LEMMA ItemsArePairs == \A k \in Ns : Items(k) \subseteq Pairs
BY DEF Pairs

\* Setting one pair's entry.
LEMMA SetEntry ==
  ASSUME NEW D, NEW S, NEW f \in [D -> S], NEW p \in D, NEW s \in S
  PROVE  /\ [f EXCEPT ![p] = s] \in [D -> S]
         /\ [f EXCEPT ![p] = s][p] = s
         /\ \A q \in D : q # p => [f EXCEPT ![p] = s][q] = f[q]
OBVIOUS

\* Appending a record to a pair that has none.
LEMMA FirstRecord ==
  ASSUME answers \in [Pairs -> Seq(BOOLEAN)], OneRecordPerPair,
         NEW p \in Pairs, answers[p] = <<>>, answers' = Appended(p)
  PROVE  /\ answers' \in [Pairs -> Seq(BOOLEAN)]
         /\ Len(answers'[p]) = 1
         /\ answers'[p] # <<>>
         /\ \A q \in Pairs : q # p => answers'[q] = answers[q]
         /\ OneRecordPerPair'
<1>1. (stage[p] = "ok") \in BOOLEAN
  OBVIOUS
<1> DEFINE ok == stage[p] = "ok"
<1>2. answers' = [answers EXCEPT ![p] = Append(answers[p], ok)]
  BY DEF Appended
<1> HIDE DEF ok
<1>3. ok \in BOOLEAN
  BY <1>1 DEF ok
<1>4. Append(<<>>, ok) \in Seq(BOOLEAN) /\ Len(Append(<<>>, ok)) = 1
  BY <1>3
<1>5. Len(<<>>) = 0
  OBVIOUS
<1> DEFINE line == Append(<<>>, ok)
<1>6. answers' = [answers EXCEPT ![p] = line]
  BY <1>2
<1>7. line \in Seq(BOOLEAN) /\ Len(line) = 1 /\ line # <<>>
  BY <1>4, <1>5
<1> HIDE DEF line
<1>8. /\ answers' \in [Pairs -> Seq(BOOLEAN)]
      /\ answers'[p] = line
      /\ \A q \in Pairs : q # p => answers'[q] = answers[q]
  BY <1>6, <1>7, SetEntry
<1>9. OneRecordPerPair'
  <2>1. ASSUME NEW q \in Pairs PROVE Len(answers'[q]) <= 1
    <3>1. CASE q = p
      <4>1. answers'[q] = line
        BY <3>1, <1>8
      <4>2. Len(line) = 1
        BY <1>7
      <4>3. Len(line) <= 1
        BY <4>2
      <4>4. QED
        BY <4>1, <4>3
    <3>2. CASE q # p
      <4>1. Len(answers[q]) <= 1
        BY DEF OneRecordPerPair, Unique
      <4>2. answers'[q] = answers[q]
        BY <3>2, <1>8
      <4>3. QED
        BY <4>1, <4>2
    <3>3. QED
      BY <3>1, <3>2
  <2>2. QED
    BY <2>1 DEF OneRecordPerPair, Unique
<1>10. QED
  BY <1>7, <1>8, <1>9
-----------------------------------------------------------------------------
LEMMA IInvInit == Init => IInv
<1> SUFFICES ASSUME Init PROVE IInv
  OBVIOUS
<1>1. TypeOK
  <2>1. <<>> \in Seq(BOOLEAN)
    OBVIOUS
  <2>2. answers \in [Pairs -> Seq(BOOLEAN)]
    BY <2>1 DEF Init
  <2>3. tokens \in 0 .. Rate /\ starts \in 0 .. MaxStarts /\ 0 \in 0 .. MaxAttempts
    BY EvalAssumption DEF Init
  <2>4. attempt \in [Pairs -> 0 .. MaxAttempts]
    BY <2>3 DEF Init
  <2>5. QED
    BY <2>2, <2>3, <2>4 DEF Init, TypeOK, Idle
<1>2. OneRecordPerPair
  BY DEF Init, OneRecordPerPair, Unique
<1>3. TaskHasNoRecord
  BY DEF Init, TaskHasNoRecord, Idle
<1>4. NothingLost /\ FinishedIsComplete /\ AskedIsKept
  BY DEF Init, NothingLost, FinishedIsComplete, AskedIsKept
<1>5. QED
  BY <1>1, <1>2, <1>3, <1>4 DEF IInv, Init

LEMMA BeginKeepsIInv ==
  ASSUME IInv, NEW k \in Ns, NEW strict \in BOOLEAN, Begin(k, strict)
  PROVE  IInv'
<1>1. Items(k) \subseteq Pairs /\ k \in Nat
  BY ItemsArePairs, EvalAssumption
<1>2. \A p \in Pairs : /\ stage'[p] \in {"queued", "idle"}
                       /\ stage'[p] = "queued" <=> p \in Items(k) /\ answers[p] = <<>>
  BY DEF Begin, Done, Recorded
<1>3. TypeOK'
  <2>1. starts' \in 0 .. MaxStarts
    BY EvalAssumption DEF IInv, TypeOK, Begin
  <2>2. stage' \in [Pairs -> Holding \cup {"idle", "queued"}]
    BY DEF Begin
  <2>3. attempt' \in [Pairs -> 0 .. MaxAttempts] /\ tokens' \in 0 .. Rate
    BY EvalAssumption DEF Begin
  <2>4. QED
    BY <2>1, <2>2, <2>3 DEF IInv, TypeOK, Begin
<1>4. OneRecordPerPair' /\ AskedIsKept' /\ FinishedIsComplete'
  BY DEF IInv, Begin, OneRecordPerPair, Unique, AskedIsKept, FinishedIsComplete
<1>5. TaskHasNoRecord' /\ NothingLost'
  BY <1>1, <1>2 DEF Begin, TaskHasNoRecord, NothingLost
<1>6. QED
  BY <1>3, <1>4, <1>5 DEF IInv, Begin

\* A step of one task that is neither its start nor its record.
LEMMA TaskMovesKeepIInv ==
  ASSUME IInv, NEW p \in Pairs, run = "up",
         NEW s \in Holding \cup {"idle"},
         stage[p] # "idle", s = "idle" => shutdown,
         stage' = [stage EXCEPT ![p] = s],
         attempt' \in [Pairs -> 0 .. MaxAttempts], tokens' \in 0 .. Rate,
         \A q \in Pairs : q # p => attempt'[q] = attempt[q],
         attempt'[p] > 0 => s \in {"asking", "ok", "failed"} \/ answers[p] # <<>>,
         UNCHANGED <<file, score, run, n, shutdown, starts>>
  PROVE  IInv'
<1>1. stage \in [Pairs -> Holding \cup {"idle", "queued"}]
  BY DEF IInv, TypeOK
<1>2. /\ stage' \in [Pairs -> Holding \cup {"idle", "queued"}]
      /\ stage'[p] = s
      /\ \A q \in Pairs : q # p => stage'[q] = stage[q]
  BY <1>1, SetEntry
<1>3. TypeOK'
  BY <1>2 DEF IInv, TypeOK, file
<1>4. OneRecordPerPair' /\ FinishedIsComplete' /\ AskedIsKept'
  <2>1. AskedIsKept'
    BY <1>2 DEF IInv, AskedIsKept, file
  <2>2. QED
    BY <2>1 DEF IInv, OneRecordPerPair, Unique, FinishedIsComplete, Recorded, file
<1>5. TaskHasNoRecord'
  BY <1>2 DEF IInv, TaskHasNoRecord, file
<1>6. NothingLost'
  <2>1. n \in Ns /\ Items(n) \subseteq Pairs
    BY ItemsArePairs DEF IInv
  <2>2. QED
    BY <1>2, <2>1 DEF IInv, NothingLost, file
<1>7. QED
  BY <1>3, <1>4, <1>5, <1>6 DEF IInv

LEMMA TaskStepKeepsIInv ==
  ASSUME IInv, NEW p \in Pairs,
         Enter(p) \/ Acquire(p) \/ \E reply \in {"ok", "passing", "final"} : Reply(p, reply)
  PROVE  IInv'
<1> USE DEF Holding
<1>1. CASE Enter(p)
  <2>1. stage[p] = "queued"
    BY <1>1 DEF Enter, First, In
  <2>2. Entered \in Holding \cup {"idle"} /\ (Entered = "idle" => shutdown)
    BY DEF Entered
  <2>3. attempt' \in [Pairs -> 0 .. MaxAttempts] /\ tokens' \in 0 .. Rate
        /\ UNCHANGED attempt
    BY <1>1 DEF Enter, IInv, TypeOK
  <2>4. run = "up" /\ (attempt'[p] > 0 => answers[p] # <<>>)
    BY <1>1, <2>1, <2>3 DEF Enter, IInv, AskedIsKept
  <2>5. QED
    BY <1>1, <2>1, <2>2, <2>3, <2>4, TaskMovesKeepIInv DEF Enter
<1>2. CASE Acquire(p)
  <2>1. stage[p] = "limited"
    BY <1>2 DEF Acquire, First, In
  <2>2. 1 \in 0 .. MaxAttempts
    BY EvalAssumption
  <2>3. attempt' \in [Pairs -> 0 .. MaxAttempts]
        /\ \A q \in Pairs : q # p => attempt'[q] = attempt[q]
    BY <1>2, <2>2, SetEntry DEF Acquire, IInv, TypeOK
  <2>4. tokens' \in 0 .. Rate
    BY <1>2, EvalAssumption DEF Acquire, IInv, TypeOK
  <2>5. QED
    BY <1>2, <2>1, <2>3, <2>4, TaskMovesKeepIInv DEF Acquire
<1>3. ASSUME NEW reply \in {"ok", "passing", "final"}, Reply(p, reply) PROVE IInv'
  <2>1. run = "up" /\ stage[p] = "asking" /\ tokens' \in 0 .. Rate
    BY <1>3 DEF Reply, IInv, TypeOK
  <2>2. CASE reply = "passing" /\ attempt[p] < MaxAttempts
    <3>1. attempt[p] + 1 \in 0 .. MaxAttempts
      BY <2>2, EvalAssumption DEF IInv, TypeOK
    <3>2. attempt' \in [Pairs -> 0 .. MaxAttempts]
          /\ \A q \in Pairs : q # p => attempt'[q] = attempt[q]
      <4>1. attempt \in [Pairs -> 0 .. MaxAttempts]
        BY DEF IInv, TypeOK
      <4>2. attempt' = [attempt EXCEPT ![p] = attempt[p] + 1]
        BY <1>3, <2>2 DEF Reply
      <4>3. QED
        BY <3>1, <4>1, <4>2
    <3>3. stage' = [stage EXCEPT ![p] = "asking"]
      BY <1>3, <2>1, <2>2 DEF Reply, IInv, TypeOK
    <3>4. QED
      BY <1>3, <2>1, <3>2, <3>3, TaskMovesKeepIInv DEF Reply
  <2>3. CASE ~(reply = "passing" /\ attempt[p] < MaxAttempts)
    <3>1. PICK s \in {"ok", "failed"} : stage' = [stage EXCEPT ![p] = s]
      BY <1>3, <2>3 DEF Reply, Answered
    <3>2. attempt' \in [Pairs -> 0 .. MaxAttempts] /\ UNCHANGED attempt
      BY <1>3, <2>3 DEF Reply, IInv, TypeOK
    <3>3. QED
      BY <1>3, <2>1, <3>1, <3>2, TaskMovesKeepIInv DEF Reply
  <2>4. QED
    BY <2>2, <2>3
<1>4. QED
  BY <1>1, <1>2, <1>3

LEMMA WriteKeepsIInv ==
  ASSUME IInv, NEW p \in Pairs, Write(p)
  PROVE  IInv'
<1>1. stage[p] \in {"ok", "failed"} /\ answers[p] = <<>> /\ run = "up" /\ n \in Ns
  BY DEF Write, IInv, TaskHasNoRecord
<1>2. /\ answers' \in [Pairs -> Seq(BOOLEAN)]
      /\ answers'[p] # <<>>
      /\ \A q \in Pairs : q # p => answers'[q] = answers[q]
      /\ OneRecordPerPair'
  BY <1>1, FirstRecord DEF Write, IInv, TypeOK
<1>3. /\ stage' \in [Pairs -> Holding \cup {"idle", "queued"}]
      /\ stage'[p] = "idle"
      /\ \A q \in Pairs : q # p => stage'[q] = stage[q]
  BY SetEntry DEF Write, IInv, TypeOK
<1>4. TypeOK'
  <2>1. tail' \in {"whole", "broken"}
    BY DEF Write, After
  <2>2. QED
    BY <1>2, <1>3, <2>1 DEF Write, IInv, TypeOK
<1>5. TaskHasNoRecord'
  BY <1>2, <1>3 DEF Write, IInv, TaskHasNoRecord
<1>6. NothingLost'
  BY <1>1, <1>2, <1>3, ItemsArePairs DEF Write, IInv, NothingLost
<1>7. FinishedIsComplete' /\ AskedIsKept'
  BY <1>1, <1>2, <1>3 DEF Write, IInv, FinishedIsComplete, AskedIsKept
<1>8. QED
  BY <1>1, <1>2, <1>4, <1>5, <1>6, <1>7 DEF IInv, Write

LEMMA RefillSignalKeepIInv == IInv /\ (Refill \/ Signal) => IInv'
<1> SUFFICES ASSUME IInv, Refill \/ Signal PROVE IInv'
  OBVIOUS
<1>1. UNCHANGED <<manifest, answers, tail, score, run, n, stage, attempt, starts>>
  BY DEF Refill, Signal, file
<1>2. TypeOK'
  <2>1. tokens' \in 0 .. Rate
    BY EvalAssumption DEF Refill, Refilled, Signal, IInv, TypeOK
  <2>2. shutdown' \in BOOLEAN
    BY DEF Refill, Signal, IInv, TypeOK
  <2>3. QED
    BY <1>1, <2>1, <2>2 DEF IInv, TypeOK
<1>3. OneRecordPerPair' /\ TaskHasNoRecord' /\ FinishedIsComplete' /\ AskedIsKept'
  BY <1>1 DEF IInv, OneRecordPerPair, Unique, TaskHasNoRecord, FinishedIsComplete,
              AskedIsKept, Recorded
<1>4. NothingLost'
  BY <1>1 DEF IInv, NothingLost, Refill, Signal
<1>5. QED
  BY <1>1, <1>2, <1>3, <1>4 DEF IInv

LEMMA FinishKeepsIInv == IInv /\ Finish => IInv'
<1> SUFFICES ASSUME IInv, Finish PROVE IInv'
  OBVIOUS
<1>1. \A p \in Pairs : stage[p] = "idle"
  BY DEF Finish, In, IInv, TypeOK
<1>2. n \in Ns /\ Items(n) \subseteq Pairs
  BY ItemsArePairs DEF Finish, IInv
<1>3. run' \in {"stopped", "finished"} /\ (run' = "finished" => ~shutdown)
  BY DEF Finish
<1>4. FinishedIsComplete'
  <2>1. ~shutdown => Items(n) \subseteq Recorded
    BY <1>1, <1>2 DEF Finish, IInv, NothingLost, Recorded
  <2>2. QED
    BY <1>3, <2>1 DEF Finish, FinishedIsComplete, Recorded, file, work
<1>5. TypeOK'
  BY <1>3 DEF Finish, IInv, TypeOK, file, work
<1>6. OneRecordPerPair' /\ TaskHasNoRecord' /\ NothingLost' /\ AskedIsKept'
  BY <1>1, <1>3 DEF Finish, IInv, OneRecordPerPair, Unique, TaskHasNoRecord, NothingLost,
                    AskedIsKept, file, work
<1>7. QED
  BY <1>2, <1>3, <1>4, <1>5, <1>6 DEF IInv, Finish, work

LEMMA CrashKeepsIInv == IInv /\ Crash => IInv'
<1> SUFFICES ASSUME IInv, Crash PROVE IInv'
  OBVIOUS
<1>1. /\ run' = "crashed"
      /\ \A p \in Pairs : stage'[p] = "idle"
      /\ stage' \in [Pairs -> Holding \cup {"idle", "queued"}]
  BY DEF Crash, Idle
<1>2. answers' \in [Pairs -> Seq(BOOLEAN)] /\ OneRecordPerPair'
  <2>1. CASE UNCHANGED answers
    BY <2>1 DEF IInv, TypeOK, OneRecordPerPair, Unique
  <2>2. CASE \E p \in In({"ok", "failed"}) : answers' = Appended(p)
    <3>1. PICK p \in Pairs : stage[p] \in {"ok", "failed"} /\ answers' = Appended(p)
      BY <2>2 DEF In
    <3>2. answers[p] = <<>>
      BY <3>1 DEF IInv, TaskHasNoRecord
    <3>3. QED
      BY <3>1, <3>2, FirstRecord DEF IInv, TypeOK
  <2>3. QED
    BY <2>1, <2>2 DEF Crash
<1>3. tail' \in {"whole", "cut", "bare", "broken"}
  BY DEF Crash, After, IInv, TypeOK
<1>4. TypeOK'
  BY <1>1, <1>2, <1>3 DEF Crash, IInv, TypeOK
<1>5. TaskHasNoRecord' /\ NothingLost' /\ FinishedIsComplete' /\ AskedIsKept'
  BY <1>1 DEF Crash, IInv, TaskHasNoRecord, NothingLost, FinishedIsComplete, AskedIsKept
<1>6. QED
  BY <1>1, <1>2, <1>4, <1>5 DEF IInv

LEMMA ScoreKeepsIInv == IInv /\ Score => IInv'
<1> SUFFICES ASSUME IInv, Score PROVE IInv'
  OBVIOUS
<1>1. score' = [n |-> manifest, seen |-> Recorded] /\ UNCHANGED <<file, run, work>>
  BY DEF Score
<1>2. TypeOK'
  BY <1>1 DEF IInv, TypeOK, Recorded, file, work
<1>3. OneRecordPerPair' /\ TaskHasNoRecord' /\ NothingLost' /\ FinishedIsComplete'
      /\ AskedIsKept'
  BY <1>1 DEF IInv, OneRecordPerPair, Unique, TaskHasNoRecord, NothingLost,
              FinishedIsComplete, AskedIsKept, Recorded, file, work
<1>4. QED
  BY <1>1, <1>2, <1>3 DEF IInv, work

LEMMA IInvStep == IInv /\ [Next]_vars => IInv'
<1> SUFFICES ASSUME IInv, [Next]_vars PROVE IInv'
  OBVIOUS
<1>1. CASE \E k \in Ns, strict \in BOOLEAN : Begin(k, strict)
  BY <1>1, BeginKeepsIInv
<1>2. ASSUME NEW p \in Pairs,
             \/ Enter(p) \/ Acquire(p) \/ Write(p)
             \/ \E reply \in {"ok", "passing", "final"} : Reply(p, reply)
      PROVE  IInv'
  BY <1>2, TaskStepKeepsIInv, WriteKeepsIInv
<1>3. CASE Refill \/ Signal \/ Finish \/ Crash \/ Score
  BY <1>3, RefillSignalKeepIInv, FinishKeepsIInv, CrashKeepsIInv, ScoreKeepsIInv
<1>4. CASE UNCHANGED vars
  BY <1>4 DEF vars, file, work, IInv, TypeOK, OneRecordPerPair, Unique, TaskHasNoRecord,
              NothingLost, FinishedIsComplete, AskedIsKept, Recorded
<1>5. QED
  BY <1>1, <1>2, <1>3, <1>4 DEF Next
-----------------------------------------------------------------------------
LEMMA Invariant == Spec => []IInv
<1>1. Init => IInv
  BY IInvInit
<1>2. IInv /\ [Next]_vars => IInv'
  BY IInvStep
<1>3. QED
  BY <1>1, <1>2, PTL DEF Spec

(* The tokens of the rate limiter stay within 0 .. rate, the attempts of an   *)
(* item within max_attempts, and every task is at one of its places.          *)
THEOREM Typing == Spec => []TypeOK
<1>1. IInv => TypeOK
  BY DEF IInv
<1>2. QED
  BY <1>1, Invariant, PTL

(* No sample of a prompt is recorded twice, however often the rollouts are    *)
(* stopped, killed and resumed.                                               *)
THEOREM NoDuplicates == Spec => []OneRecordPerPair
<1>1. IInv => OneRecordPerPair
  BY DEF IInv
<1>2. QED
  BY <1>1, Invariant, PTL

(* A run that ends without a signal leaves a record of every sample it was    *)
(* asked for.                                                                 *)
THEOREM CompleteWhenFinished == Spec => []FinishedIsComplete
<1>1. IInv => FinishedIsComplete
  BY DEF IInv
<1>2. QED
  BY <1>1, Invariant, PTL

(* A run that comes to its end, stopped by a signal or not, has recorded all  *)
(* it asked for.                                                              *)
THEOREM AskedIsRecorded == Spec => []NothingAskedIsLost
<1>1. IInv => NothingAskedIsLost
  <2> SUFFICES ASSUME IInv, run \in {"stopped", "finished"},
                      NEW p \in Pairs, attempt[p] > 0
               PROVE  p \in Recorded
    BY DEF NothingAskedIsLost
  <2>1. stage[p] \in {"asking", "ok", "failed"} \/ answers[p] # <<>>
    BY DEF IInv, AskedIsKept
  <2>2. stage[p] = "idle"
    BY DEF IInv, TaskHasNoRecord
  <2>3. QED
    BY <2>1, <2>2 DEF Recorded
<1>2. QED
  BY <1>1, Invariant, PTL
=============================================================================
