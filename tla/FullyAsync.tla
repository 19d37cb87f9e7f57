----------------------------- MODULE FullyAsync -----------------------------
(***************************************************************************)
(* examples/fully_async: a worker thread with an event loop of its own     *)
(* keeps rollout_batch_size groups in generation for as long as the job    *)
(* lives; each rollout (generate_rollout_async, on another thread) only    *)
(* collects from the worker's bounded output queue.  Both threads use the  *)
(* data buffer.  train_async.py updates the weights between two rollouts,  *)
(* which aborts requests of the worker in mid-air.                         *)
(*                                                                         *)
(* Groups are alike: of those in generation and in the buffer only the     *)
(* number is kept, of a finished one whether it was aborted, and when.     *)
(***************************************************************************)
EXTENDS Integers, Sequences, Functions

CONSTANTS
  Target,       \* args.rollout_batch_size
  QueueSize,    \* output_queue.maxsize, 1000 in the code
  NumRollouts,
  MaxFailures,  \* bound: groups whose generation raises
  MaxUpdates    \* bound: weight updates

ASSUME FullyAsyncAssumption ==
  /\ Target \in Nat \ {0} /\ QueueSize \in Nat \ {0}
  /\ NumRollouts \in Nat /\ MaxFailures \in Nat /\ MaxUpdates \in Nat

VARIABLES
  buffer,    \* groups given back to the data buffer and not drawn again
  running,   \* active_tasks that are not done
  doomed,    \* running groups whose requests were aborted
  blocked,   \* the result whose put waits for room, with the whole event loop
  queue,     \* output_queue
  rollout,   \* a rollout is collecting
  taken,     \* completed_groups
  data,
  made,      \* rollouts that returned
  batch,     \* what the last one returned
  updates,   \* how many weight updates, and after which rollout the last
  failures

workerVars == <<running, blocked>>
rolloutVars == <<rollout, taken, data, made, batch>>
vars == <<buffer, queue, doomed, updates, failures, workerVars, rolloutVars>>

Init ==
  /\ buffer = 0
  /\ running = 0 /\ doomed = 0
  /\ blocked = <<>> /\ queue = <<>>
  /\ rollout = FALSE /\ taken = <<>> /\ data = <<>> /\ made = 0 /\ batch = <<>>
  /\ updates = [after |-> 0, count |-> 0] /\ failures = 0
-----------------------------------------------------------------------------
(* The worker thread: continuous_worker_loop *)

\* The first rollout starts it, the end of the job stops it.
Started == rollout \/ made > 0
LoopFree == blocked = <<>> /\ made < NumRollouts

Free_countingReturned == running + buffer < Target
Free == running < Target

(* A pass of the loop forgets the tasks that are done and tops the others up  *)
(* with get_samples(1): a group that came back goes before a new one.  Passes *)
(* are a second apart; that the loop sleeps in between only delays a Draw.    *)
Draw ==
  /\ Started /\ LoopFree /\ Free
  /\ running' = running + 1
  /\ buffer' = IF buffer > 0 THEN buffer - 1 ELSE 0
  /\ UNCHANGED <<queue, doomed, updates, failures, blocked, rolloutVars>>

\* One group less in generation, doomed or not.
Leaves(aborted) ==
  /\ LoopFree
  /\ IF aborted THEN doomed > 0 ELSE running > doomed
  /\ running' = running - 1
  /\ doomed' = IF aborted THEN doomed - 1 ELSE doomed

\* task_done_callback runs in the same turn of the event loop as the end of the
\* task, and puts the group or blocks in the put.
EndGroup(aborted) ==
  /\ Leaves(aborted)
  /\ LET result == [aborted |-> aborted, at |-> made]
     IN IF Len(queue) < QueueSize
        THEN queue' = Append(queue, result) /\ UNCHANGED blocked
        ELSE blocked' = <<result>> /\ UNCHANGED queue
  /\ UNCHANGED <<buffer, updates, failures, rolloutVars>>

\* Its generation raises, and so does its callback: the group is gone.
Fail(aborted) ==
  /\ Leaves(aborted) /\ failures < MaxFailures
  /\ failures' = failures + 1
  /\ UNCHANGED <<buffer, queue, updates, blocked, rolloutVars>>

Unblock ==
  /\ blocked # <<>> /\ Len(queue) < QueueSize
  /\ queue' = queue \o blocked /\ blocked' = <<>>
  /\ UNCHANGED <<buffer, doomed, updates, failures, running, rolloutVars>>
-----------------------------------------------------------------------------
(* The rollouts: generate_rollout_async *)

Begin ==
  /\ ~rollout /\ made < NumRollouts
  /\ rollout' = TRUE
  /\ UNCHANGED <<buffer, queue, doomed, updates, failures, workerVars, taken, data, made, batch>>

\* get_completed_groups empties the queue, at once compared with a generation.
Drain ==
  /\ rollout /\ Len(data) < Target /\ taken = <<>> /\ queue # <<>>
  /\ taken' = queue /\ queue' = <<>>
  /\ UNCHANGED <<buffer, doomed, updates, failures, workerVars, rollout, data, made, batch>>

\* A group with an aborted sample goes back; any other joins the batch.
GoesBack(r) == r.aborted

Sort ==
  /\ rollout /\ Len(data) < Target /\ taken # <<>>
  /\ taken' = Tail(taken)
  /\ IF GoesBack(Head(taken))
     THEN buffer' = buffer + 1 /\ UNCHANGED data
     ELSE data' = Append(data, Head(taken)) /\ UNCHANGED buffer
  /\ UNCHANGED <<queue, doomed, updates, failures, workerVars, rollout, made, batch>>

\* The batch is full.  What was taken from the queue beyond it is lost with the
\* local completed_groups.
Leftover_kept == taken
Leftover == <<>>
Return ==
  /\ rollout /\ Len(data) = Target
  /\ rollout' = FALSE /\ taken' = Leftover /\ data' = <<>>
  /\ made' = made + 1 /\ batch' = data
  /\ UNCHANGED <<buffer, queue, doomed, updates, failures, workerVars>>

\* update_weights pauses the engines, which aborts the requests they hold;
\* groups that have none at that moment (tokenizing, being rewarded) go on.
UpdateWeights ==
  /\ ~rollout /\ updates.after < made /\ updates.count < MaxUpdates
  /\ updates' = [after |-> made, count |-> updates.count + 1]
  /\ doomed' \in doomed .. running
  /\ UNCHANGED <<buffer, queue, failures, workerVars, rolloutVars>>
-----------------------------------------------------------------------------
Next ==
  \/ Draw \/ Unblock
  \/ \E aborted \in BOOLEAN : EndGroup(aborted) \/ Fail(aborted)
  \/ Begin \/ Drain \/ Sort \/ Return \/ UpdateWeights

(* Fairness: both threads run, and the engines finish some group or other;    *)
(* none in particular, and nothing makes a group fail or the weights change.  *)
Fairness ==
  /\ WF_vars(Draw)
  /\ WF_vars(\E aborted \in BOOLEAN : EndGroup(aborted)) /\ WF_vars(Unblock)
  /\ WF_vars(Drain) /\ WF_vars(Sort) /\ WF_vars(Return)

Spec == Init /\ [][Next]_vars /\ Fairness
-----------------------------------------------------------------------------
(* What waits in the queue ages by rollouts, whatever the queue's size, since *)
(* each of them empties it: a batch holds no group that was finished before   *)
(* the last rollout but two returned.                                         *)
FinishedRecently == \A r \in Range(batch) : r.at >= made - 3

(* A rollout returns, also when the worker is stuck in a full queue, or when  *)
(* its groups keep coming back aborted.                                       *)
RolloutReturns == rollout ~> ~rollout
=============================================================================
