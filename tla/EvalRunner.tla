----------------------------- MODULE EvalRunner -----------------------------
(***************************************************************************)
(* One benchmark of src/evaluation: rollout_manager.py asks the server for *)
(* n samples of every prompt and appends one line per sample to the output *)
(* file; it may be stopped, killed and started again on the same file;     *)
(* compute_reward.py scores the file and keeps the result.                 *)
(*                                                                         *)
(* Of the run's configuration the manifest records, only n is kept: it is  *)
(* the field that decides which samples are asked for.                     *)
(***************************************************************************)
EXTENDS Integers, Sequences, FiniteSets

CONSTANTS
  Uids,             \* prompts, numbered in file order
  Ns,               \* the --n a run may be given
  Concurrency,
  Rate,             \* requests per minute, 0 for no limit
  MaxAttempts,      \* max_attempts, 6 in the code
  RequireComplete,  \* of the benchmark's domain: TRUE for code, FALSE for others
  MaxStarts         \* bound: processes started

ASSUME EvalAssumption ==
  /\ Uids \subseteq Nat /\ Ns \subseteq Nat \ {0}
  /\ Concurrency \in Nat \ {0} /\ MaxAttempts \in Nat \ {0}
  /\ Rate \in Nat /\ MaxStarts \in Nat /\ RequireComplete \in BOOLEAN

VARIABLES
  manifest,  \* the n of <output>.meta.json; 0 while there is no output file
  answers,   \* per pair, the "ok" flags of its lines in the output file
  tail,      \* how the file reads: "whole"; its last line is "cut" short;
             \* only that line's newline is missing ("bare"); or a line in
             \* the middle is "broken"
  score,     \* the cached validation: its n (0 for none), the pairs it saw
  run,       \* "none", "up", or how the last run ended
  n,         \* args.n of the run
  stage,     \* per pair, where its task is
  attempt,
  tokens,    \* limiter.tokens
  shutdown,
  starts

file == <<manifest, answers, tail>>
work == <<n, stage, attempt, tokens, shutdown, starts>>
vars == <<file, score, run, work>>

\* Pairs (uid, sample_index) of a benchmark read with a given n.
Items(k) == Uids \X (0 .. k - 1)
Pairs == UNION {Items(k) : k \in Ns}

Idle == [p \in Pairs |-> "idle"]
Init ==
  /\ manifest = 0 /\ answers = [p \in Pairs |-> <<>>] /\ tail = "whole"
  /\ score = [n |-> 0, seen |-> {}]
  /\ run = "none" /\ n = 0 /\ stage = Idle /\ attempt = [p \in Pairs |-> 0]
  /\ tokens = Rate /\ shutdown = FALSE /\ starts = 0
-----------------------------------------------------------------------------
Holding == {"limited", "asking", "ok", "failed"}
In(s) == {p \in Pairs : stage[p] \in s}
Recorded == {p \in Pairs : answers[p] # <<>>}
Readable == tail \in {"whole", "bare"}
Unique == \A p \in Pairs : Len(answers[p]) <= 1

\* load_done_pairs: a pair whose request failed counts as done, too.
Done_byUid == {p \in Pairs : \E q \in Recorded : q[1] = p[1]}
Done_never == {}
Done == Recorded

\* A semaphore and a lock let their waiters in first come, first served.
First(s) == {p \in In(s) : \A q \in In(s) :
                p[1] < q[1] \/ (p[1] = q[1] /\ p[2] <= q[2])}

(* prepare_resume_state raises, and nothing starts, if a line of the file     *)
(* does not parse, if a pair is there twice, or if the resume is strict and   *)
(* the configuration is another one.  The manifest of an existing file stays. *)
Begin(k, strict) ==
  /\ run # "up" /\ starts < MaxStarts
  /\ Readable /\ Unique
  /\ strict /\ manifest # 0 => manifest = k
  /\ manifest' = IF manifest = 0 THEN k ELSE manifest
  /\ run' = "up" /\ n' = k /\ starts' = starts + 1
  /\ stage' = [p \in Pairs |-> IF p \in Items(k) \ Done THEN "queued" ELSE "idle"]
  /\ attempt' = [p \in Pairs |-> 0] /\ tokens' = Rate /\ shutdown' = FALSE
  /\ UNCHANGED <<answers, tail, score>>

(* A task enters the semaphore; it leaves at once when the signal has come.   *)
Entered == IF shutdown THEN "idle" ELSE "limited"
Enter(p) ==
  /\ run = "up" /\ p \in First({"queued"})
  /\ Cardinality(In(Holding)) < Concurrency
  /\ stage' = [stage EXCEPT ![p] = Entered]
  /\ UNCHANGED <<file, score, run, n, attempt, tokens, shutdown, starts>>

\* limiter.acquire, once for an item: its retries are not limited.
Acquire(p) ==
  /\ run = "up" /\ p \in First({"limited"})
  /\ Rate > 0 => tokens > 0
  /\ tokens' = IF Rate > 0 THEN tokens - 1 ELSE tokens
  /\ stage' = [stage EXCEPT ![p] = "asking"] /\ attempt' = [attempt EXCEPT ![p] = 1]
  /\ UNCHANGED <<file, score, run, n, shutdown, starts>>

\* Time earns tokens for the waiter inside the lock.
Refilled_lostToRounding == {0}
Refilled == 1 .. Rate
Refill ==
  /\ run = "up" /\ tokens = 0 /\ In({"limited"}) # {}
  /\ tokens' \in Refilled
  /\ UNCHANGED <<file, score, run, n, stage, attempt, shutdown, starts>>

\* Where a reply that is not followed by another attempt leads: to a record,
\* of the answer or of the last error.
Answered_unlessStopping(reply) ==
  IF reply = "ok" THEN "ok" ELSE IF shutdown THEN "idle" ELSE "failed"
Answered(reply) == IF reply = "ok" THEN "ok" ELSE "failed"

\* The reply to a request; an error is final unless its text is a passing one.
Reply(p, reply) ==
  /\ run = "up" /\ stage[p] = "asking"
  /\ IF reply = "passing" /\ attempt[p] < MaxAttempts
     THEN attempt' = [attempt EXCEPT ![p] = @ + 1] /\ UNCHANGED stage
     ELSE stage' = [stage EXCEPT ![p] = Answered(reply)] /\ UNCHANGED attempt
  /\ UNCHANGED <<file, score, run, n, tokens, shutdown, starts>>

\* What becomes of the file when a record is appended to it.
Appended(p) == [answers EXCEPT ![p] = Append(@, stage[p] = "ok")]
After(how) == IF tail = "whole" THEN how ELSE "broken"

\* write_line and the end of the task, which gives its place back.
Write(p) ==
  /\ run = "up" /\ stage[p] \in {"ok", "failed"}
  /\ answers' = Appended(p) /\ tail' = After("whole")
  /\ stage' = [stage EXCEPT ![p] = "idle"]
  /\ UNCHANGED <<manifest, score, run, n, attempt, tokens, shutdown, starts>>

\* SIGINT or SIGTERM.
Signal ==
  /\ run = "up" /\ ~shutdown
  /\ shutdown' = TRUE
  /\ UNCHANGED <<file, score, run, n, stage, attempt, tokens, starts>>

\* Every task is over and the process ends.
Finish ==
  /\ run = "up" /\ In(Holding \cup {"queued"}) = {}
  /\ run' = IF shutdown THEN "stopped" ELSE "finished"
  /\ UNCHANGED <<file, score, work>>

(* The process is killed, or write_line fails: the line it was writing may be *)
(* there in part, or whole but for its newline.                               *)
Crash ==
  /\ run = "up"
  /\ run' = "crashed" /\ stage' = Idle
  /\ \/ UNCHANGED <<answers, tail>>
     \/ In({"ok", "failed"}) # {} /\ tail' = After("cut") /\ UNCHANGED answers
     \/ \E p \in In({"ok", "failed"}) : answers' = Appended(p) /\ tail' = After("bare")
  /\ UNCHANGED <<manifest, score, n, attempt, tokens, shutdown, starts>>

(* compute_reward.py on a file it has not scored yet, with the manifest's n;  *)
(* a pair outside of it, a pair there twice or, where the domain asks for it, *)
(* a missing pair is an error and nothing is kept.                            *)
Complete == RequireComplete => Items(manifest) \subseteq Recorded
Score ==
  /\ run \notin {"none", "up"} /\ score.n = 0
  /\ Readable /\ Unique /\ Recorded \subseteq Items(manifest) /\ Complete
  /\ score' = [n |-> manifest, seen |-> Recorded]
  /\ UNCHANGED <<file, run, work>>

Next ==
  \/ \E k \in Ns, strict \in BOOLEAN : Begin(k, strict)
  \/ \E p \in Pairs :
       \/ Enter(p) \/ Acquire(p) \/ Write(p)
       \/ \E reply \in {"ok", "passing", "final"} : Reply(p, reply)
  \/ Refill \/ Signal \/ Finish \/ Crash \/ Score

(* Fairness: the event loop runs every ready task, time passes for the        *)
(* limiter, and every request is answered or times out (request_timeout).     *)
Fairness ==
  /\ \A p \in Pairs :
       /\ WF_vars(Enter(p)) /\ WF_vars(Acquire(p)) /\ WF_vars(Write(p))
       /\ WF_vars(\E reply \in {"ok", "passing", "final"} : Reply(p, reply))
  /\ WF_vars(Refill) /\ WF_vars(Finish)

Spec == Init /\ [][Next]_vars /\ Fairness
-----------------------------------------------------------------------------
TypeOK ==
  /\ manifest \in Ns \cup {0} /\ answers \in [Pairs -> Seq(BOOLEAN)]
  /\ tail \in {"whole", "cut", "bare", "broken"}
  /\ score.n \in Ns \cup {0} /\ score.seen \subseteq Pairs
  /\ run \in {"none", "up", "stopped", "finished", "crashed"} /\ n \in Ns \cup {0}
  /\ stage \in [Pairs -> Holding \cup {"idle", "queued"}]
  /\ attempt \in [Pairs -> 0 .. MaxAttempts] /\ tokens \in 0 .. Rate
  /\ shutdown \in BOOLEAN /\ starts \in 0 .. MaxStarts

(* However often the rollouts are stopped, killed and resumed, with whatever  *)
(* n, no sample of a prompt is recorded twice (load_done_pairs raises on it   *)
(* and the score would count it twice).                                       *)
OneRecordPerPair == Unique

(* A run that comes to its end without a signal leaves a record of every      *)
(* sample it was asked for, its own or those of the runs before it (also when *)
(* the tail of a killed run has put two of them on one, unreadable, line).    *)
FinishedIsComplete == run = "finished" => Items(n) \subseteq Recorded

(* A run that comes to its end, with or without a signal, has a record of     *)
(* every sample it asked the server for: the signal, wherever it falls between*)
(* the semaphore, the limiter, a request and its retries, costs no answer     *)
(* ("will stop after current tasks").                                         *)
NothingAskedIsLost ==
  run \in {"stopped", "finished"} =>
    \A p \in Pairs : attempt[p] > 0 => p \in Recorded

(* A run ends: no task waits forever for the limiter, the semaphore or the    *)
(* server.                                                                    *)
RunEnds == run = "up" ~> run # "up"
=============================================================================
