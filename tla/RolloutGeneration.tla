------------------------- MODULE RolloutGeneration -------------------------
(***************************************************************************)
(* One training rollout of slime: generate_rollout_async draws groups of   *)
(* samples from the data buffer, runs one asyncio task per group against   *)
(* the inference engines, filters what comes back, stops at                *)
(* rollout_batch_size groups, aborts the rest and hands the interrupted    *)
(* groups back to the buffer (partial rollout) or discards them.           *)
(*                                                                         *)
(* Source: slime/rollout/sglang_rollout.py and data_source.py.  All of it  *)
(* is one asyncio event loop, so an action is the code between two awaits. *)
(* A group is named by its sample_group_index; COMPLETED and TRUNCATED are *)
(* treated alike by every branch and are the one status "finished".        *)
(*                                                                         *)
(* A definition X_y is X with a plausible bug y; the specification does    *)
(* not use it.  README.md says which property each one violates.           *)
(***************************************************************************)
EXTENDS Integers, Sequences, FiniteSets

CONSTANTS
  BatchSize,        \* args.rollout_batch_size
  OverSampling,     \* args.over_sampling_batch_size
  NSamples,         \* args.n_samples_per_prompt
  Concurrency,      \* permits of GenerateState.semaphore
  Engines,          \* the engines behind the router
  PartialRollout,   \* args.partial_rollout
  GroupRm,          \* args.group_rm
  NumRollouts,      \* args.num_rollout
  MaxGroups         \* bound: groups the data set can create in the model

ASSUME ConstAssumption ==
  /\ BatchSize \in Nat \ {0}
  /\ OverSampling \in Nat \ {0}
  /\ NSamples \in Nat \ {0}
  /\ Concurrency \in Nat \ {0}
  /\ Engines # {}
  /\ Engines \intersect {"idle", "queued", "sent", "aborting", "scoring", "returned"} = {}
  /\ PartialRollout \in BOOLEAN
  /\ GroupRm \in BOOLEAN
  /\ NumRollouts \in Nat
  /\ MaxGroups \in Nat

Groups  == 0 .. MaxGroups - 1
Samples == 1 .. NSamples

VARIABLES
  \* GenerateState and the locals of generate_rollout_async and abort
  pendings,     \* groups whose task is in state.pendings
  remaining,    \* state.remaining_batch_size
  aborted,      \* state.aborted
  pc,           \* where the rollout coroutine awaits
  data,         \* groups accepted so far
  toAbort,      \* engines whose /abort_request is still to be posted
  collected,    \* aborted_samples, in the order they were drained
  \* the tasks and the samples they work on
  task,
  sample,
  \* RolloutDataSourceWithBuffer
  buffer,
  nextGroup,    \* sample_group_index
  \* the caller, and what became of the groups that left
  rollout,      \* rollouts started so far
  trained,      \* groups returned for training
  dropped,      \* groups the dynamic filter rejected
  surplus,      \* groups that finished in the same wake-up as the last one needed
  discarded     \* groups drained by an abort without partial rollout

genVars    == <<pendings, remaining, aborted, pc, data, toAbort, collected>>
sourceVars == <<buffer, nextGroup>>
fateVars   == <<rollout, trained, dropped, surplus, discarded>>
vars == <<genVars, task, sample, sourceVars, fateVars>>

Status == {"pending", "finished", "aborted"}
Place  == {"idle", "queued", "sent", "aborting", "scoring", "returned"} \union Engines
NoStart == -1

\* response: the rollout its first token was generated in, NoStart if it is
\* empty.  The code only asks whether it is empty; start is start_rollout_id.
SampleState == [status: Status, response: Int, reward: BOOLEAN,
                start: Int, at: Place]
FreshSample == [status |-> "pending", response |-> NoStart, reward |-> FALSE,
                start |-> NoStart, at |-> "idle"]

Elems(s) == {s[i] : i \in 1 .. Len(s)}
NoDuplicates(s) == \A j, k \in 1 .. Len(s) : s[j] = s[k] => j = k

\* Samples that hold a permit of the semaphore.
InFlight == {p \in Groups \X Samples :
               sample[p[1]][p[2]].at \in {"sent", "aborting"} \union Engines}

Init ==
  /\ pendings = {} /\ remaining = 0 /\ aborted = FALSE
  /\ pc = "idle" /\ data = {} /\ toAbort = {} /\ collected = <<>>
  /\ task = [g \in Groups |-> "none"]
  /\ sample = [g \in Groups |-> [i \in Samples |-> FreshSample]]
  /\ buffer = <<>> /\ nextGroup = 0
  /\ rollout = 0
  /\ trained = {} /\ dropped = {} /\ surplus = {} /\ discarded = {}
-----------------------------------------------------------------------------
(* The data buffer and the rollout coroutine *)

\* pop_first: the groups taken from the head of the buffer, and those left.
Left_copied(n) == buffer
Left(n) == SubSeq(buffer, n + 1, Len(buffer))

\* get_samples(OverSampling), as many times as the inner while loop calls it:
\* until remaining_batch_size, now rem, has reached the target.  Recycled
\* groups come first, new ones after them; every one becomes a pending task.
Refill(rem, pend) ==
  \E calls \in 0 .. BatchSize :
    LET n      == calls * OverSampling
        reused == IF n < Len(buffer) THEN n ELSE Len(buffer)
        fresh  == n - reused
        drawn  == Elems(SubSeq(buffer, 1, reused)) \union (nextGroup .. nextGroup + fresh - 1)
    IN /\ rem + n >= BatchSize
       /\ calls > 0 => rem + n - OverSampling < BatchSize
       /\ nextGroup + fresh <= MaxGroups
       /\ buffer' = Left(reused)
       /\ nextGroup' = nextGroup + fresh
       /\ pendings' = pend \union drawn
       /\ remaining' = rem + n
       /\ task' = [g \in Groups |-> IF g \in drawn THEN "created"
                                   ELSE IF g \in pend THEN task[g] ELSE "none"]

\* for rollout_id in range(start_rollout_id, num_rollout)
MoreRollouts == rollout < NumRollouts

StartRollout ==
  /\ pc = "idle"
  /\ MoreRollouts
  /\ Refill(remaining, pendings)
  /\ pc' = "collect"
  /\ rollout' = rollout + 1
  /\ UNCHANGED <<aborted, data, toAbort, collected, sample, trained, dropped, surplus, discarded>>

\* A rejected group no longer counts as one that may succeed.
StillPossible_undecremented(done, keep) == remaining
StillPossible(done, keep) == remaining - Cardinality(done \ keep)

\* Which of the kept groups are appended: all while there is room, and then
\* as many as fit, in whatever order the done set is traversed.
Fitting(keep) ==
  LET room == BatchSize - Cardinality(data) IN
  {s \in SUBSET keep : IF Cardinality(keep) <= room THEN s = keep
                                                   ELSE Cardinality(s) = room}

\* asyncio.wait returns every task that is done by the time the coroutine
\* resumes.  The filter keeps some of them; those that still fit are appended
\* to data and the others are stored nowhere.  With the target reached the
\* coroutine goes straight into abort, otherwise it refills and waits again.
Collect ==
  /\ pc = "collect"
  /\ LET done == {g \in pendings : task[g] = "done"} IN
     /\ done # {}
     /\ \E keep \in SUBSET done : \E accepted \in Fitting(keep) :
          LET rem == StillPossible(done, keep) IN
          /\ data' = data \union accepted
          /\ dropped' = dropped \union (done \ keep)
          /\ surplus' = surplus \union (keep \ accepted)
          /\ \/ /\ Cardinality(data') < BatchSize
                /\ Refill(rem, pendings \ done)
                /\ UNCHANGED <<pc, aborted, toAbort>>
             \/ /\ Cardinality(data') >= BatchSize
                /\ pendings' = pendings \ done
                /\ remaining' = rem
                /\ pc' = "abort"
                /\ aborted' = TRUE
                /\ toAbort' = Engines
                /\ task' = [g \in Groups |-> IF g \in done THEN "none" ELSE task[g]]
                /\ UNCHANGED sourceVars
  /\ UNCHANGED <<collected, sample, rollout, trained, discarded>>

\* One URL of the list is done with.
Unposted_reread(e) == Engines
Unposted(e) == toAbort \ {e}

\* POST /abort_request to one worker: every request it holds is interrupted.
AbortEngine(e) ==
  /\ pc = "abort"
  /\ e \in toAbort
  /\ toAbort' = Unposted(e)
  /\ sample' = [g \in Groups |-> [i \in Samples |->
                  IF sample[g][i].at = e THEN [sample[g][i] EXCEPT !.at = "aborting"]
                                         ELSE sample[g][i]]]
  /\ UNCHANGED <<pendings, remaining, aborted, pc, data, collected, task, sourceVars, fateVars>>

\* A drained sample with tokens gets the rollout that is being aborted,
\* unless it has a start_rollout_id already.
Stamp_unfinished(s) ==
  IF s.response # NoStart /\ s.start = NoStart /\ s.status = "aborted"
  THEN [s EXCEPT !.start = rollout] ELSE s
Stamp(s) ==
  IF s.response # NoStart /\ s.start = NoStart THEN [s EXCEPT !.start = rollout] ELSE s

\* if not args.partial_rollout: continue
Recycles(g) == PartialRollout

\* The drain loop of abort, one finished task at a time: taking the tasks of
\* one wake-up in every order gives the orders asyncio's set can give.
Drain(g) ==
  /\ pc = "abort"
  /\ toAbort = {}
  /\ g \in pendings
  /\ task[g] = "done"
  /\ pendings' = pendings \ {g}
  /\ task' = [task EXCEPT ![g] = "none"]
  /\ IF Recycles(g)
     THEN /\ collected' = Append(collected, g)
          /\ sample' = [sample EXCEPT ![g] = [i \in Samples |-> Stamp(sample[g][i])]]
          /\ UNCHANGED discarded
     ELSE /\ discarded' = discarded \union {g}
          /\ UNCHANGED <<collected, sample>>
  /\ UNCHANGED <<remaining, aborted, pc, data, toAbort, sourceVars, rollout, trained, dropped, surplus>>

\* while state.pendings
Drained_posted == toAbort = {}
Drained == toAbort = {} /\ pendings = {}

\* state.reset()
ResetState == remaining' = 0 /\ aborted' = FALSE

\* The end of generate_rollout_async (state.reset) and of generate_rollout
\* (data_buffer.add_samples), which run without an await.
FinishRollout ==
  /\ pc = "abort"
  /\ Drained
  /\ pc' = "idle"
  /\ trained' = trained \union data
  /\ data' = {}
  /\ ResetState
  /\ buffer' = buffer \o collected
  /\ collected' = <<>>
  /\ UNCHANGED <<pendings, toAbort, task, sample, nextGroup, rollout, dropped, surplus, discarded>>
-----------------------------------------------------------------------------
(* One task: generate_and_rm_group over generate_and_rm *)

TaskVars == <<genVars, sourceVars, fateVars>>

SetSample(g, i, new) == sample' = [sample EXCEPT ![g][i] = new]

\* A task that starts after the abort flag is set returns its group untouched.
\* A sample that is already finished (in a recycled group) returns at once.
StartTask(g) ==
  /\ g \in pendings
  /\ task[g] = "created"
  /\ \/ /\ aborted
        /\ task' = [task EXCEPT ![g] = "done"]
        /\ UNCHANGED sample
     \/ /\ ~aborted
        /\ task' = [task EXCEPT ![g] = "running"]
        /\ sample' = [sample EXCEPT ![g] = [i \in Samples |->
             [sample[g][i] EXCEPT !.at =
                IF sample[g][i].status = "finished" THEN "returned" ELSE "queued"]]]
  /\ UNCHANGED TaskVars

\* A permit is acquired; the abort flag is read once more under it.
Acquire(g, i) ==
  /\ sample[g][i].at = "queued"
  /\ Cardinality(InFlight) < Concurrency
  /\ IF aborted
     THEN SetSample(g, i, [sample[g][i] EXCEPT !.status = "aborted", !.at = "returned"])
     ELSE SetSample(g, i, [sample[g][i] EXCEPT !.at = "sent"])
  /\ UNCHANGED <<task, TaskVars>>

\* The router hands the request to an engine, which may already have served
\* the abort: such a request runs to its end.
Route(g, i, e) ==
  /\ sample[g][i].at = "sent"
  /\ SetSample(g, i, [sample[g][i] EXCEPT !.at = e])
  /\ UNCHANGED <<task, TaskVars>>

\* Where a generated sample goes: to its reward, or back to the group.
Scored_unlessAborted == IF GroupRm \/ aborted THEN "returned" ELSE "scoring"
Scored == IF GroupRm THEN "returned" ELSE "scoring"

\* New tokens are appended to those the sample has.
Longer(s) == IF s.response = NoStart THEN rollout ELSE s.response

\* finish_reason stop or length: the permit is free and the reward is computed
\* next, unless the group is rewarded as a whole.
Generated(g, i) ==
  /\ sample[g][i].at \in Engines
  /\ SetSample(g, i, [sample[g][i] EXCEPT !.status = "finished",
                        !.response = Longer(sample[g][i]), !.at = Scored])
  /\ UNCHANGED <<task, TaskVars>>

\* finish_reason abort, with or without new tokens.
Interrupted(g, i) ==
  /\ sample[g][i].at = "aborting"
  /\ \E tokens \in BOOLEAN :
       SetSample(g, i, [sample[g][i] EXCEPT !.status = "aborted",
                          !.response = IF tokens THEN Longer(sample[g][i]) ELSE @,
                          !.at = "returned"])
  /\ UNCHANGED <<task, TaskVars>>

\* async_rm returns.
Reward(g, i) ==
  /\ sample[g][i].at = "scoring"
  /\ SetSample(g, i, [sample[g][i] EXCEPT !.reward = TRUE, !.at = "returned"])
  /\ UNCHANGED <<task, TaskVars>>

\* if not state.aborted and args.group_rm
NeedsGroupReward_never == FALSE
NeedsGroupReward == GroupRm /\ ~aborted

\* asyncio.gather returns; batched_async_rm runs unless an abort has begun.
Gather(g) ==
  /\ task[g] = "running"
  /\ \A i \in Samples : sample[g][i].at = "returned"
  /\ task' = [task EXCEPT ![g] = IF NeedsGroupReward THEN "grading" ELSE "done"]
  /\ UNCHANGED <<sample, TaskVars>>

GradeGroup(g) ==
  /\ task[g] = "grading"
  /\ task' = [task EXCEPT ![g] = "done"]
  /\ sample' = [sample EXCEPT ![g] = [i \in Samples |-> [sample[g][i] EXCEPT !.reward = TRUE]]]
  /\ UNCHANGED TaskVars
-----------------------------------------------------------------------------
\* The train loop is over, or the model's prompts are used up.
Done ==
  /\ pc = "idle"
  /\ ~MoreRollouts \/ nextGroup + BatchSize * OverSampling > MaxGroups
  /\ UNCHANGED vars

MainStep == StartRollout \/ Collect \/ FinishRollout \/ (\E e \in Engines : AbortEngine(e))

TaskStep(g) ==
  \/ Drain(g)
  \/ StartTask(g)
  \/ Gather(g)
  \/ GradeGroup(g)

SampleStep(g, i) ==
  \/ Acquire(g, i)
  \/ \E e \in Engines : Route(g, i, e)
  \/ Generated(g, i)
  \/ Interrupted(g, i)
  \/ Reward(g, i)

Next ==
  \/ MainStep
  \/ \E g \in Groups : TaskStep(g) \/ \E i \in Samples : SampleStep(g, i)
  \/ Done

Spec == Init /\ [][Next]_vars

\* The event loop runs every ready coroutine; engines answer every request
\* (max_new_tokens bounds it) and reward calls return.
Fairness ==
  /\ WF_vars(MainStep)
  /\ \A g \in Groups : WF_vars(TaskStep(g)) /\ \A i \in Samples : WF_vars(SampleStep(g, i))

FairSpec == Spec /\ Fairness
-----------------------------------------------------------------------------
(* Properties *)

TypeOK ==
  /\ pendings \subseteq Groups /\ remaining \in Int /\ aborted \in BOOLEAN
  /\ pc \in {"idle", "collect", "abort"}
  /\ data \subseteq Groups /\ toAbort \subseteq Engines
  /\ collected \in Seq(Groups) /\ buffer \in Seq(Groups)
  /\ task \in [Groups -> {"none", "created", "running", "grading", "done"}]
  /\ sample \in [Groups -> [Samples -> SampleState]]
  /\ nextGroup \in 0 .. MaxGroups /\ rollout \in 0 .. NumRollouts
  /\ trained \subseteq Groups /\ dropped \subseteq Groups
  /\ surplus \subseteq Groups /\ discarded \subseteq Groups

Open == pendings \union data \union Elems(collected) \union Elems(buffer)
Gone == trained \union dropped \union surplus \union discarded

\* Every group the source ever created is in exactly one place: a pending
\* task, the batch, the drained list, the buffer, or one of the four ways out.
\* In particular no group is trained twice or resumed by two tasks.
EveryGroupInOnePlace ==
  /\ Open \union Gone = 0 .. nextGroup - 1
  /\ Open \intersect Gone = {}
  /\ pendings \intersect data = {}
  /\ Elems(collected) \intersect (pendings \union data) = {}
  /\ Elems(buffer) \intersect (pendings \union data \union Elems(collected)) = {}
  /\ trained \intersect (dropped \union surplus \union discarded) = {}
  /\ dropped \intersect (surplus \union discarded) = {}
  /\ surplus \intersect discarded = {}
  /\ NoDuplicates(buffer) /\ NoDuplicates(collected)

\* remaining_batch_size is what the loop believes can still succeed: while it
\* collects, the counter equals the pending tasks plus the accepted groups.
RemainingIsExact ==
  pc = "collect" => remaining = Cardinality(pendings) + Cardinality(data)

\* asyncio.wait is never called with an empty set (it would raise): as long as
\* the batch is short there is a task to wait for.
NeverWaitsOnNothing ==
  pc = "collect" => pendings # {} /\ Cardinality(data) < BatchSize

\* assert len(data) == args.rollout_batch_size: several groups finishing in one
\* wake-up never overshoot the batch.
BatchIsExact == pc = "abort" => Cardinality(data) = BatchSize

\* No interrupted or unrewarded sample reaches training, however often the
\* group was recycled and whatever the abort interrupted.
TrainedIsComplete ==
  \A g \in data \union trained : \A i \in Samples :
    sample[g][i].status = "finished" /\ sample[g][i].reward

\* assert sample.reward is not None: a recycled sample that is already finished
\* has its reward when its new task starts, unless rewards are per group.
ResumedIsRewarded ==
  ~GroupRm => \A g \in pendings : \A i \in Samples :
    task[g] = "created" /\ sample[g][i].status = "finished" => sample[g][i].reward

\* Between rollouts no request is on an engine and no permit is held: the
\* weights may be replaced and the engines put to sleep.
QuietBetweenRollouts ==
  pc = "idle" => /\ InFlight = {}
                 /\ pendings = {} /\ remaining = 0 /\ ~aborted
                 /\ \A g \in Groups : task[g] = "none"

\* With partial rollout an unfinished group always goes back to the buffer:
\* what is dropped or lost on the way was finished (arguments.py, quick start).
UnfinishedIsRecycled ==
  PartialRollout =>
    \A g \in Gone : \A i \in Samples : sample[g][i].status = "finished"

\* start_rollout_id tells exactly which samples carry tokens of older weights,
\* and since when: in a task or in the batch, a sample whose first token is of
\* an earlier rollout names that rollout, and one begun in this rollout names
\* none; in the buffer every sample with tokens names the rollout of the first.
\* It holds through any number of interruptions, for samples that were cut
\* and for those that were finished when the rest of their group was cut.
StaleTokensAreNamed ==
  /\ \A g \in pendings \union data : \A i \in Samples :
       sample[g][i].start = IF sample[g][i].response = rollout
                            THEN NoStart ELSE sample[g][i].response
  /\ \A g \in Elems(buffer) \union Elems(collected) : \A i \in Samples :
       sample[g][i].start = sample[g][i].response

\* A rollout that starts returns its batch: no await waits for ever.
RolloutReturns == pc # "idle" ~> pc = "idle"

\* What the caller relies on, RolloutContract.tla.
Contract == INSTANCE RolloutContract WITH
  open <- Open, delivered <- IF pc = "idle" THEN rollout ELSE rollout - 1
ContractSpec == Contract!Spec
=============================================================================
