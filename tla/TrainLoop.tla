----------------------------- MODULE TrainLoop -----------------------------
(***************************************************************************)
(* The driver process, train.py or train_async.py, the rollout manager it  *)
(* calls, and what survives a crash of the job.                            *)
(*                                                                         *)
(* RolloutManager is a Ray actor with one thread: calls run one after the  *)
(* other in the order the driver made them, while the driver goes on until *)
(* it needs a result (ray.get).  A rollout draws groups of samples, named  *)
(* by their place in the stream of prompts; one of them stands for the     *)
(* batch that is trained on, the others are recycled or given up, as       *)
(* RolloutGeneration does in detail.  A weight version is the number of    *)
(* rollouts the actor model has been trained on.                           *)
(***************************************************************************)
EXTENDS Integers, Sequences, FiniteSets

CONSTANTS
  Jobs,             \* the jobs that may have been submitted: their script and
                    \* the options that differ between them, as records
  NumRollouts,      \* args.num_rollout
  SaveInterval,     \* args.save_interval
  EvalInterval,     \* args.eval_interval
  PerEpoch,         \* num_rollout_per_epoch, 0 for None
  Recycle,          \* args.partial_rollout: unused groups return to the buffer
  MaxSurplus,       \* bound: groups drawn beyond the batch by one rollout
  MaxCrashes        \* bound

ASSUME TrainAssumption ==
  /\ \A j \in Jobs : j.script \in {"train", "train_async"} /\ j.interval \in Nat \ {0}
  /\ Recycle \in BOOLEAN
  /\ NumRollouts \in Nat \ {0}
  /\ SaveInterval \in Nat \ {0} /\ EvalInterval \in Nat \ {0}
  /\ PerEpoch \in Nat
  /\ MaxSurplus \in Nat /\ MaxCrashes \in Nat

None == -1
Rollouts == 0 .. NumRollouts   \* the last only as an id: see Launch

VARIABLES
  \* the driver
  job,         \* what was submitted; stays the same through every restart
  pc,
  rollout,     \* rollout_id
  future,      \* rollout_data_next_future: the rollout it will resolve to
  current,     \* rollout_data_curr_ref
  pushing,     \* update_weights is under way
  \* the rollout manager
  calls,       \* calls not yet finished; the head is the one being served
  serving,     \* weight version at which the head call began, None before that
  results,     \* rollout -> the data it produced
  position,    \* groups the data source has handed out
  buffer,      \* groups put back
  \* the models
  model,       \* what the actor model has been trained on, in order
  served,      \* weight version the engines hold
  \* what survives a crash
  saved,       \* the latest model checkpoint
  savedData,   \* rollout -> position in global_dataset_state_dict_<rollout>.pt
  crashes,
  torn         \* a crash has left a model checkpoint without its data state

driverVars  == <<job, pc, rollout, future, current, pushing>>
managerVars == <<calls, serving, results, position, buffer>>
diskVars    == <<saved, savedData, crashes, torn>>
vars == <<driverVars, managerVars, model, served, diskVars>>

Async == job.script = "train_async"
UpdateInterval == job.interval   \* args.update_weights_interval

NoData == [batch |-> None, versions |-> {}]

Elems(s) == {s[i] : i \in 1 .. Len(s)}

Init ==
  /\ job \in Jobs
  /\ pc = "load" /\ rollout = 0 /\ future = None /\ current = None /\ pushing = FALSE
  /\ calls = <<>> /\ serving = None
  /\ results = [r \in Rollouts |-> NoData]
  /\ position = 0 /\ buffer = <<>>
  /\ model = <<>> /\ served = None
  /\ saved = <<>> /\ savedData = [r \in Rollouts |-> None]
  /\ crashes = 0 /\ torn = FALSE
-----------------------------------------------------------------------------
(* The driver *)

Top == IF rollout < NumRollouts THEN "fetch" ELSE "done"
Call(op, r) == calls' = Append(calls, [op |-> op, id |-> r])
Ready(r) == r # None /\ results[r] # NoData
Idle == calls = <<>>

\* should_run_periodic_action
Due(interval) ==
  \/ (rollout + 1) % interval = 0
  \/ PerEpoch # 0 /\ (rollout + 1) % PerEpoch = 0

\* create_training_models: the model and the data source are loaded; without a
\* file for the last rollout the data source starts from the beginning.
Loaded_zero(start) == 0
Loaded(start) == IF start > 0 /\ savedData[start - 1] # None THEN savedData[start - 1] ELSE 0

\* start_rollout_id, which arguments.py sets to 0 when there is no checkpoint.
Resumed(loaded) == loaded + 1

Load ==
  /\ pc = "load"
  /\ model' = saved
  /\ rollout' = IF saved = <<>> THEN 0 ELSE Resumed(Len(saved) - 1)
  /\ position' = Loaded(rollout')
  /\ pc' = "firstPush"
  /\ UNCHANGED <<job, future, current, pushing, calls, serving, results, buffer, served, diskVars>>

\* update_weights: generation is paused, then every parameter is broadcast.
BeginPush ==
  /\ pc \in {"firstPush", "push"}
  /\ ~pushing
  /\ pushing' = TRUE
  /\ UNCHANGED <<job, pc, rollout, future, current, managerVars, model, served, diskVars>>

EndPush ==
  /\ pushing
  /\ pushing' = FALSE
  /\ served' = Len(model)
  /\ pc' = IF pc = "push" THEN "eval" ELSE IF Async THEN "launch" ELSE Top
  /\ UNCHANGED <<job, rollout, future, current, managerVars, model, diskVars>>

\* The first generate of the asynchronous loop, made even if a resumed job has
\* no rollout left.
Launch ==
  /\ pc = "launch"
  /\ Call("generate", rollout)
  /\ future' = rollout
  /\ pc' = Top
  /\ UNCHANGED <<job, rollout, current, pushing, serving, results, position, buffer, model, served, diskVars>>

\* The top of the synchronous loop: an evaluation before the first rollout,
\* then generate, and its result is awaited.
FetchSync ==
  /\ ~Async /\ pc = "fetch"
  /\ calls' = (IF rollout = 0 THEN <<[op |-> "eval", id |-> 0]>> ELSE <<>>)
                \o <<[op |-> "generate", id |-> rollout]>>
  /\ pc' = "await"
  /\ UNCHANGED <<job, rollout, future, current, pushing, serving, results, position, buffer, model, served, diskVars>>

Await ==
  /\ pc = "await"
  /\ Idle
  /\ current' = rollout
  /\ pc' = "train"
  /\ UNCHANGED <<job, rollout, future, pushing, managerVars, model, served, diskVars>>

\* The top of the asynchronous loop: wait for the generation under way, if the
\* weight update has not done so, and start the next one early.
TakeNext_always == Ready(future) /\ current' = future
TakeNext ==
  IF future = None THEN UNCHANGED current ELSE Ready(future) /\ current' = future

FetchAsync ==
  /\ Async /\ pc = "fetch"
  /\ TakeNext
  /\ IF rollout + 1 < NumRollouts
     THEN Call("generate", rollout + 1) /\ future' = rollout + 1
     ELSE UNCHANGED <<calls, future>>
  /\ pc' = "train"
  /\ UNCHANGED <<job, rollout, pushing, serving, results, position, buffer, model, served, diskVars>>

\* train_async.py updates the weights after every UpdateInterval-th rollout, train.py after each.
UpdateDue_late == Async => (rollout + 1) % (UpdateInterval + 1) = 0
UpdateDue_atSaves == Due(SaveInterval)
UpdateDue == Async => (rollout + 1) % UpdateInterval = 0

\* Where the iteration goes after training and saving.
AfterSave == IF ~UpdateDue THEN "eval" ELSE IF Async THEN "sync" ELSE "push"

Train ==
  /\ pc = "train"
  /\ model' = Append(model, [rollout |-> rollout, source |-> current,
                             batch |-> results[current].batch,
                             versions |-> results[current].versions])
  /\ pc' = IF Due(SaveInterval) THEN "saveModel" ELSE AfterSave
  /\ UNCHANGED <<job, rollout, future, current, pushing, managerVars, served, diskVars>>

SaveModel ==
  /\ pc = "saveModel"
  /\ saved' = model
  /\ Call("save", rollout)
  /\ pc' = "saveData"
  /\ UNCHANGED <<job, rollout, future, current, pushing, serving, results, position, buffer,
                 model, served, savedData, crashes, torn>>

\* ray.get on the manager's save, which waits behind every earlier call.
Saved ==
  /\ pc = "saveData"
  /\ Idle
  /\ pc' = AfterSave
  /\ UNCHANGED <<job, rollout, future, current, pushing, managerVars, model, served, diskVars>>

\* "sync generate before update weights to prevent update weight in the middle
\* of generation"
Synced_unawaited == UNCHANGED <<current, future>>
Synced_undelivered ==
  /\ future # None => Ready(future)
  /\ UNCHANGED current
  /\ future' = None
Synced ==
  /\ future # None => Ready(future)
  /\ current' = future
  /\ future' = None

Sync ==
  /\ pc = "sync"
  /\ Synced
  /\ pc' = "push"
  /\ UNCHANGED <<job, rollout, pushing, managerVars, model, served, diskVars>>

Eval ==
  /\ pc = "eval"
  /\ IF Due(EvalInterval) THEN Call("eval", rollout) /\ pc' = "evalWait"
                          ELSE UNCHANGED calls /\ pc' = "next"
  /\ UNCHANGED <<job, rollout, future, current, pushing, serving, results, position, buffer, model, served, diskVars>>

NextRollout ==
  /\ pc = "next" \/ (pc = "evalWait" /\ Idle)
  /\ rollout' = rollout + 1
  /\ pc' = IF rollout + 1 < NumRollouts THEN "fetch" ELSE "done"
  /\ UNCHANGED <<job, future, current, pushing, managerVars, model, served, diskVars>>
-----------------------------------------------------------------------------
(* The rollout manager *)

BeginCall ==
  /\ calls # <<>> /\ serving = None
  /\ Head(calls).op \in {"generate", "eval"}
  /\ serving' = served
  /\ UNCHANGED <<driverVars, calls, results, position, buffer, model, served, diskVars>>

\* generate: the groups come from the buffer first; any one of them may be the
\* batch.
EndGenerate ==
  /\ serving # None /\ Head(calls).op = "generate"
  /\ \E surplus \in 0 .. MaxSurplus :
       LET n      == surplus + 1
           reused == IF n < Len(buffer) THEN n ELSE Len(buffer)
           drawn  == SubSeq(buffer, 1, reused)
                       \o [i \in 1 .. n - reused |-> position + i - 1]
           left   == SubSeq(buffer, reused + 1, Len(buffer))
       IN /\ position' = position + n - reused
          /\ \E b \in 1 .. n :
               /\ results' = [results EXCEPT ![Head(calls).id] =
                                [batch |-> drawn[b], versions |-> {serving, served}]]
               /\ buffer' = IF Recycle
                            THEN left \o SubSeq(drawn, 1, b - 1) \o SubSeq(drawn, b + 1, n)
                            ELSE left
  /\ calls' = Tail(calls)
  /\ serving' = None
  /\ UNCHANGED <<driverVars, model, served, diskVars>>

EndEval ==
  /\ serving # None /\ Head(calls).op = "eval"
  /\ calls' = Tail(calls)
  /\ serving' = None
  /\ UNCHANGED <<driverVars, results, position, buffer, model, served, diskVars>>

SaveData ==
  /\ calls # <<>> /\ Head(calls).op = "save"
  /\ savedData' = [savedData EXCEPT ![Head(calls).id] = position]
  /\ calls' = Tail(calls)
  /\ UNCHANGED <<driverVars, serving, results, position, buffer, model, served, saved, crashes, torn>>
-----------------------------------------------------------------------------
(* A crash takes every process of the job; the job is submitted again. *)

Crash ==
  /\ pc # "done" /\ crashes < MaxCrashes
  /\ crashes' = crashes + 1
  /\ pc' = "load" /\ rollout' = 0 /\ future' = None /\ current' = None /\ pushing' = FALSE
  /\ calls' = <<>> /\ serving' = None /\ results' = [r \in Rollouts |-> NoData]
  /\ position' = 0 /\ buffer' = <<>>
  /\ model' = <<>> /\ served' = None
  /\ torn' = (torn \/ (saved # <<>> /\ savedData[Len(saved) - 1] = None))
  /\ UNCHANGED <<job, saved, savedData>>

Driver ==
  \/ Load \/ BeginPush \/ EndPush \/ Launch \/ FetchSync \/ Await \/ FetchAsync
  \/ Train \/ SaveModel \/ Saved \/ Sync \/ Eval \/ NextRollout
Manager == BeginCall \/ EndGenerate \/ EndEval \/ SaveData

Next == Driver \/ Manager \/ Crash

Spec == Init /\ [][Next]_vars
-----------------------------------------------------------------------------
(* Properties *)

\* Rollout r is trained on the data generated for r, once, in order, through
\* every combination of early launch, synchronisation and restart.
TrainedInOrder ==
  \A k \in 1 .. Len(model) : model[k].rollout = k - 1 /\ model[k].source = k - 1

\* No weight update falls into a generation or an evaluation (the comment at
\* train_async.py:58).
NoPushWhileServing == pushing => serving = None

\* How far off-policy training gets: not at all in the synchronous loop, and by
\* at most update_weights_interval updates in the asynchronous one.
Lag == IF Async THEN UpdateInterval ELSE 0
OffPolicyBound ==
  \A k \in 1 .. Len(model) : \A v \in model[k].versions : k - 1 - v \in 0 .. Lag

\* Across crashes, no group is trained on twice, unless a crash fell between
\* the two halves of a checkpoint.
NoGroupTwice ==
  torn \/ \A j, k \in 1 .. Len(model) : model[j].batch = model[k].batch => j = k

\* The job ends with every rollout trained, whatever crashes.
Completes == <>(pc = "done" /\ Len(model) = NumRollouts)
=============================================================================
