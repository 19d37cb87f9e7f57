# ZEDA: a TLA+ model of the training orchestration and evaluation

ZEDA trains and evaluates mixture-of-experts language models with zero-computation experts. Its own
scripts are `src/evaluation` and `src/scripts`; the rest of the repository is four trees under
`src/zeda`: `slime` (reinforcement learning: drivers, rollouts, weight updates, fault tolerance) and
modified copies of `sglang`, `Megatron-LM` and `transformers`. The control logic of the system, the
part where several processes and threads can go wrong together, is slime and the benchmark runner.
This directory models it. Paths below without a prefix are relative to `src/zeda/slime`.

Run a model with `tlc -config <file>.cfg <module>.tla`, the proofs with
`tlapm <module>_proofs.tla`: every module `M_proofs` holds the theorems about `M`; `Composed_proofs` holds those
about the two modules composed with `TrainLoop`, `WeightTags` and `EngineFleet`; `TrainStep_proofs` those about
`SeqlenBalancing` too, and `SlimeRouter_proofs` the lemmas about `RadixTrie`.

## 1. Inventory

### How the parts fit together

    driver (train.py / train_async.py, one process)
      |  Ray calls, awaited with ray.get
      |-- RolloutManager (Ray actor, one thread: calls are served in order)
      |     |-- rollout function: asyncio event loop, one task per group of samples
      |     |     draws from / gives back to RolloutDataSourceWithBuffer
      |     |     posts requests through the router to the SGLang engines
      |     |-- RolloutHealthMonitor (thread, alive while a rollout runs)
      |     `-- table of engines all_rollout_engines, num_new_engines
      `-- MegatronTrainRayActor (one per GPU): live model, TensorBackuper, weight updater
            update_weights: reads the manager's engine list, pauses the engines, broadcasts

    rollout_manager.py --> output file, manifest --> compute_reward.py --> validation file

### Components

| Part | State it keeps | Operations | What is hard | What makes it correct |
|---|---|---|---|---|
| Drivers (`train.py`, `train_async.py`) | rollout id, the future of the next rollout, the current data | generate, train, save, update weights, evaluate | the asynchronous loop launches rollout r+1 before r is trained and saved; a crash falls between two files of one checkpoint | each rollout trained once, in order, on data of bounded age; no update inside a generation; a resumed job continues the prompts; the job ends |
| Rollout manager (`slime/ray/rollout.py`) | queue of calls, engines, `num_new_engines` | generate, eval, save, load, restart of engines | overlaps with training and the weight update | see drivers and fleet |
| Rollout generation (`slime/rollout/sglang_rollout.py`) | `GenerateState`: pendings, remaining_batch_size, aborted, semaphore; status, response and reward of each sample | draw, generate, reward, filter, abort, drain, recycle | every await is a point where the abort flag can change; groups are interrupted and resumed over several rollouts | exact batches of complete, rewarded groups; no group lost or used twice; nothing in flight between rollouts |
| Data source (`slime/rollout/data_source.py`, `slime/utils/data.py`) | epoch, offset, group and sample counters, buffer | get_samples, add_samples, shuffle, save, load | draws across epochs, restart in a later epoch | one stream of prompts, unique numbers |
| Health monitor (`slime/utils/health_monitor.py`) | thread, stop event, snapshot of engines | start, stop, sweep, kill | kills by index while the manager restarts by index; stop races the sweep | only sick engines are killed, every killed one is replaced with current weights |
| Actor weights (`slime/backends/megatron_utils/actor.py`, `tensor_backper.py`) | live model, tagged copies | init, switch, train, back up, push | one live model plays four roles | gradient, log-probs, reference and engines each use the right weights |
| Fully asynchronous rollout (`examples/fully_async`) | worker thread, bounded queue | worker loop, callback, collect | two threads; a full queue blocks the event loop; a weight update aborts the worker's requests | recent groups; every rollout returns |
| Benchmark runner (`src/evaluation/rollout_manager.py`, `compute_reward.py`) | output file, manifest, cached validation, semaphore, limiter | resume, ask, retry, record, stop, score | kills in the middle of a line; resumption with another configuration; stale scores | one record per sample, of every sample asked for; the run ends |
| SlimeRouter (`slime/router/router.py`) | request count per worker | proxy, add_worker | counts raised and lowered around awaits, errors and clients that go away | a request goes to the server with the fewest under way |
| Radix tree and its middleware (`slime/router/middleware_hub`) | trie of texts and token ids; tries of a request | insert, retrieve; dispatch | texts are cut where earlier texts end; a sleep that blocks the event loop | what is retrieved spells the text |
| HTTP client, async bridge (`slime/utils/http_utils.py`, `async_utils.py`) | retry count, pool of posters | post, get | nested retries, posters that die | every post returns or raises |
| SGLang engine wrapper (`slime/backends/sglang_utils/sglang_engine.py`) | server process | init, flush, pause, update, shutdown | a shutdown that fails half-way | a sick server is stopped |
| Rollout data post-processing (`slime/utils/data.py`, `seqlen_balancing.py`) | heap of partial partitions | split, balance, count micro-batches | ties, boundaries, two algorithms that have to fit | every sample in one partition, partitions even |
| Megatron training steps (`slime/backends/megatron_utils/model.py`, `data.py`, `actor.py`) | step, micro-batch, offset of the iterator, log-probs in the order of a rank | forward-only passes, training pass | ranks with different samples take part in the same collectives; results come back in another order | every sample trained once with its own log-probs; no rank waits for one that is past |
| Routing replay (`slime/utils/routing_replay.py`) | recorded choices, forward and backward index, stage of the process | record, replay, clear | forwards and backwards interleave in a pipeline | a micro-batch gets the experts recorded for it |
| Reloadable process groups | groups | destroy, rebuild | | |
| Rollout buffer plugin (`slime_plugins/rollout_buffer`) | groups by instance id | write, read | a reply that is lost | not modelled |
| Zero-computation experts (`src/scripts/convert-hf-to-ZCE.py`, models under `sglang`) | none | widen router, mask experts | | tensor code, no state |
| FSDP steps, reward functions, verifiers, vendored trees | | | | not this repository's control logic |

The hazards, each at its line and with the properties that look at it, are in `PROJECT.json`.

## 2. Plan

Order of the modules, most important behaviour first. Stages 1 to 12 are in this directory.

1. `RolloutGeneration` with its abstract specification `RolloutContract` and the proofs.
2. `TrainLoop`: drivers, manager, checkpoints, crash. The base of the two compositions below.
3. `EngineFleet` (extends `TrainLoop`): fault tolerance.
4. `WeightTags` (extends `TrainLoop`): the actor's weights.
5. `DataSource` with its abstract specification `PromptStream`.
6. `FullyAsync`, `EvalRunner` with its proofs.
7. `SeqlenBalancing` with its proofs and `TrainStep` (extends it): the data of a train call and its
   passes.
8. `RadixTrie` and `SlimeRouter` (extends it): the way of a post to a server.
9. The proofs about `TrainLoop` and, on top of them, `WeightTags` and `EngineFleet`; those about
   `FullyAsync` and `DataSource`.
10. The proofs about `TrainStep`, with those about `SeqlenBalancing` in one module.
11. The proofs about `SlimeRouter` and its trie.
12. `MicroBatchBound` and `EverySampleOnce`: what the folds that cut a rollout compute.
13. Next: the rollout buffer plugin, and `eval_rollout` beside a training rollout.

| Module | Lines of code it stands for |
|---|---|
| `RolloutGeneration` | `generate_rollout_async`, `abort`, `generate_and_rm(_group)`, `GenerateState`, the buffer of the data source |
| `RolloutContract` | what `RolloutManager.generate` relies on |
| `TrainLoop` | both drivers, the manager's call queue, `create_training_models`, save and load |
| `EngineFleet` | `RolloutManager.generate` around the rollout, `init_rollout_engines`, `RolloutHealthMonitor`, the updater's connection |
| `WeightTags` | `init`, `train_actor`, `update_weights` of `MegatronTrainRayActor`, `TensorBackuper` |
| `DataSource`, `PromptStream` | `RolloutDataSource(WithBuffer)`, `Dataset.shuffle` |
| `FullyAsync` | `fully_async_rollout.py` |
| `EvalRunner` | `rollout_manager.py`, `main` of `compute_reward.py` |
| `SeqlenBalancing` | `karmarkar_karp`, `get_seqlen_balanced_partitions` |
| `TrainStep` | `process_rollout_data`, `get_data_iterator`, the passes of `train_actor`, `forward_only`, `train_one_step`, `RoutingReplay` |
| `RadixTrie` | `StringRadixTrie` |
| `SlimeRouter` | `SlimeRouter`, `RadixTreeMiddleware.dispatch`, `post`, `SGLangEngine.shutdown` |
| `MC_*` | values for TLC |

The map from every definition to its lines is `PROJECT.json`, under `map`.

## 3. The models

In every module a definition `X_y` is `X` with a plausible bug `y`. The specification does not use
it; section 6 says which property it breaks.

**RolloutGeneration.** One asyncio loop: an action is the code between two awaits. The rollout
coroutine is `StartRollout`, `Collect` (one `asyncio.wait`: all tasks done by then, the filter's
verdict on each, the ones that fit, then either a refill or the abort), `AbortEngine` (one
`/abort_request`), `Drain` (one finished task of the drain loop) and `FinishRollout`. A group's task
is `StartTask`, `Gather`, `GradeGroup`; a sample goes `Acquire` (semaphore, second look at the abort
flag), `Route`, `Generated` or `Interrupted`, `Reward`. An engine may get a request after it served
its abort: `Route` has no guard against it, and such a request runs to its end. COMPLETED and
TRUNCATED are one status, since no branch tells them apart. Of a response the model keeps whether there is one
and, as history, the rollout that generated its first token (`Longer`): that is what the stamp
`start_rollout_id` of an aborted group (`Stamped`) should say, whichever of its samples the abort met and however
often it is recycled (`StaleTokensAreNamed`). `RolloutContract` says what the caller is
promised, an exact batch of new groups per call; the refinement mapping takes the groups in pendings,
data, the drained list and the buffer for `open`.

**TrainLoop.** The driver's program counter walks the loop of either script (`job.script`; `Jobs` are the
jobs that may have been submitted, with the options of the modules on top); the manager
serves `calls` one at a time, in order, as a Ray actor with one thread does. A rollout draws from the
buffer and the stream of prompts; one of its groups stands for the batch. A weight version is the
number of rollouts the model was trained on. Two files make a checkpoint: the model's and, later, by
another process, the data position; a crash may fall between them (`torn`).

**EngineFleet.** Adds to `TrainLoop` the table of engines, the heartbeat thread (and one that
outlived its join), the kill of an engine node by node as two steps per node (the shutdown call, then
the emptied slot), the restart, and the updater's own list `linked`, refreshed only when
`num_new_engines` is positive. The steps `StartMonitor` ... `GenerateReturns` refine the begin and
end of a generate call. A shutdown may raise, and on the nodes other than the first always does, as they have
no process of their own (`sglang_engine.py:39`, `273`): then `ray.kill` is skipped, the slot is emptied all the
same, and the actor lives on outside of the table (it is not in `gone`). A restart always succeeds in the model;
one that raises (no GPU is free, say, because such an actor still holds it) ends the job in the code.

**WeightTags.** Adds the live model, its active tag and the backups. `AfterInit`, `AfterTrain`,
`AfterPush` are the switches of the code in their order; weights are identified by the number of
rollouts trained.

**DataSource.** Draws, epochs, the buffer, numbering, checkpoint and restart; `Order[e]` is the
permutation of the seed of epoch e. A rollout gives back any of its groups in any order (`Unused`), that in
which `asyncio.wait` returned their tasks. `PromptStream` is one infinite sequence of prompts with a saved
position.

**FullyAsync.** The worker's loop (`Draw`), the end of a task with its callback (`EndGroup`, which
blocks the event loop when the queue is full, and `Unblock`), the collection (`Drain`, `Sort`,
`Return`) and the weight update, which aborts any of the running groups: `pause_generation` aborts
all requests of an engine, and a group may happen to have none. Groups are counted, not named.

**EvalRunner.** A process runs `prepare_resume_state` (`Begin`), then a task per missing pair of
prompt and sample index: semaphore, limiter, up to `max_attempts` requests, one line. It ends by
itself, after a signal, or is killed, possibly inside a line. `Score` is `compute_reward.py` on the
file when no process runs. Of the configuration only n is kept: a resume that is not strict may
change it.

**SeqlenBalancing.** A call of `karmarkar_karp` is `Call` (the assertions and the heap before the loop),
`Merge` (two pops, a merge, a push) and `Return`. The heap is the set of its states. Where the order of the
code leaves two states or two sets equal, any order is taken.

**TrainStep.** One train call of all data-parallel ranks: `Receive` to `Keep` cut the rollout into shares,
steps and micro-batches, with `SeqlenBalancing` inside (once over the groups of the whole rollout, then over
the samples of each rank and step); `Begin` to `Optimize` are the passes of `train_actor`. A micro-batch is
one `Forward` of all ranks, since they share their experts, and in training one `Backward` later; how many
are under way between them is up to the pipeline schedule. The ends of steps and passes that only go forward
are each rank's own (`EndForwardOnly`), so that a rank may be a pass ahead where nothing holds it. A sample
is a number, its log-prob the number of the sample it was computed for, the experts of a micro-batch its
list of samples.

**RadixTrie, SlimeRouter.** The trie maps the path of a node to its tokens; texts are sequences of letters,
tokens the pieces they stand for. The router is one event loop, and an action ends where a coroutine awaits:
`Dispatch`, `UseUrl`, `ReadBody`, `FinishUrl`, `Inspect`. An answer to a generation that has no `finish_reason`,
which is any HTTP error, or has that of an abort, is not final (`Unfinished`): between two tries the
middleware calls `time.sleep`: while `asleep` is set nothing of the router runs, until `Wake`. A post is
sent again by its client (`Retried`), by the caller when a poster fails or dies (`FallenBack`), or by the
middleware.

One assumption of this module is about a library outside of the repository. `dispatch` calls `call_next(request)`
up to five times on one request, and `proxy` awaits `request.body()` in each; the model gives every try its
body, as the loop in `dispatch` takes for granted. Whether the web framework does (Starlette caches what the
middleware has read for one downstream application, and may hand a second one no body) cannot be decided from
this source. If it does not, a second try waits for its client, and as `post` sets no timeout the post never
returns: `PostsReturn` says nothing about an installation where that is so, with the middleware loaded and a
first answer that is not final. The other properties of the module do not depend on it.

## 4. The runs

| Run | Config | What it shows |
|---|---|---|
| `rollout_partial` | `Rollout_partial.cfg` | Three rollouts with partial rollout on, two engines, rewards per sample: groups are conserved, the counter of remaining groups is exact, interrupted groups keep their rewards, the engines are idle between rollouts, and the rollout implements its contract. |
| `rollout_group` | `Rollout_group.cfg` | Groups of two samples rewarded as a whole, recycled across three rollouts: nothing unfinished and no group whose reward was skipped because of an abort is trained, start_rollout_id names exactly the samples with tokens of an earlier rollout, whichever of a group were cut and whichever were finished, and under fairness of the event loop and the engines every rollout returns. |
| `fleet_sync` | `EngineFleet_sync.cfg` | train.py with fault tolerance, two engines of two nodes and two faults: killed engines are replaced whole, updated before they serve, only sick ones are killed, and, restarts succeeding, the job survives every fault the monitor caught, whether or not the shutdown of a killed node raises. |
| `fleet_async` | `EngineFleet_async.cfg` | In train_async.py an engine restarted at the end of a rollout may serve the next one, already launched, before any weight update reaches it. (ends in a violation, section 5) |
| `training` | `WeightTags_training.cfg` | Five jobs, of train.py and train_async.py, with and without colocated engines, a reference model, keep_old_actor and updates every second rollout, each through five rollouts, checkpoints, evaluations, an epoch boundary, recycled groups and two crashes: what is trained, in which order and how far off-policy, which weights are trained, pushed and used for log-probs, and that the job completes. |
| `weights_resume` | `WeightTags_resume.cfg` | With engines of their own and a reference model, a resumed job first pushes the weights of the reference model. (ends in a violation, section 5) |
| `eval_resume` | `EvalRunner_resume.cfg` | Two prompts sampled once or twice over three processes that may be stopped, killed in the middle of a line and resumed with another n: the records stay one per sample, a run that finishes leaves all of them, a run that is stopped leaves all it asked for, and every run ends. |
| `fully_async` | `FullyAsync_threads.cfg` | The worker thread of the fully asynchronous example against four rollouts, with a queue that fills, two weight updates that abort any of its groups and one group that raises: batches hold recent groups only, and every rollout returns, also when the groups of a worker stuck in a full queue, or aborted ones, are all that comes. |
| `data_stream` | `DataSource_stream.cfg` | Three epochs of three prompts, draws of up to a whole epoch, recycling, checkpoints and a restart: the dataset is one stream in the order of its seeds, resumed exactly where it was saved, and numbers stay unique. |
| `train_ranks` | `TrainStep_ranks.cfg` | Two train calls of two data-parallel ranks on any four of three groups of three samples, in two steps, for six combinations of balancing, dynamic batches, a reference pass and routing replay: partitions are even, every sample is trained once with its own log-probs, replayed experts are those of the same samples, micro-batches are within the cap but for one of their samples and no rank is left in a collective. |
| `router_faults` | `SlimeRouter_faults.cfg` | Two posts, the second going on from an answer to the first, through the router to two servers of which one registers late, in five jobs with and without the middleware and the poster actors, with aborts, rejected generations, a server that dies or hangs and a poster that dies: requests go to the least loaded server, cached tokens spell their texts, and every post returns or raises. |
| `router_removal` | `SlimeRouter_removal.cfg` | With SlimeRouter the shutdown of a sick engine asks for a route the router does not have, fails, and leaves the server process running and registered. (ends in a violation, section 5) |

**Bounds, and why they are enough.** `Rollout_partial`: batch 2 of 3 drawn, so that a rollout both
refills after a rejection and has groups to spare at the abort; two engines, so that aborts arrive
one after the other; two permits for three tasks, so that a task waits across the abort; three
rollouts, so that a group is interrupted twice; one sample per group, as group-internal waits are the
subject of `Rollout_group` (two samples, group rewards, fairness): there an abort may meet a group of which one
sample is finished and the other is not, in the second rollout or the third, which is what the stamps are
about. `EngineFleet_sync`: two engines of two
nodes, two faults, so that a sweep finds a second sick engine and a kill has an inside. `WeightTags_training`:
five jobs of both scripts, five rollouts, updates every 1 or 2, saves every 3, evaluations every 2, two
crashes: more than two update intervals, the depth of the queue of actors, and every combination of due
actions. `DataSource_stream`:
three epochs of three prompts in three orders, draws of up to an epoch. `FullyAsync_threads`: a queue
larger than a batch, as in the code, which can still fill; four rollouts, as the age bound of three is
void before the fourth. `EvalRunner_resume`: four pairs at most, two permits, two attempts, three
processes, so that a resumed run is itself resumed. `TrainStep_ranks`: four groups of three unequal samples,
so that each of two ranks has two groups and two steps with a different need of micro-batches, a step cuts a
group, and a rollout with a sample too many is trimmed; two train calls, so that what the first leaves in the
replays meets the second; two micro-batches in flight. `SlimeRouter_faults`: two servers, one of which
registers at any time; a second prompt that contains an answer to the first under two tokenizations; two
retries and two tries stand for 60 and 5 (each is a counter that runs out, and both runs out in the model);
two aborts, so that the last try is aborted too. The five jobs bound what fails in each.

**Fairness.** Weak fairness only. `Rollout_group`: the event loop runs ready coroutines, engines answer
(`max_new_tokens`), rewards return. `WeightTags_training`, `EngineFleet_sync`: the driver, the manager and
the heartbeat thread run; no fault, crash or timeout is ever forced. `FullyAsync_threads`: both threads
run and the engines finish some group, none in particular. `EvalRunner_resume`: the event loop, time
for the limiter, and `request_timeout` for the server. `TrainStep_ranks`: some rank that can go on does.
`SlimeRouter_faults`: something of the clients, the event loop and the servers runs as long as it can, which
is less than fairness for each. Deadlock checking is off where the job really
ends (or, in the models with a bounded number of crashes and processes, where the bound is used up).

## 5. What the runs found

Three runs end in a violation, each of a sentence of the documentation or a comment:

* `fleet_async` (`EveryServerIsUpToDate`): with `train_async.py`, an engine restarted at the end of a
  rollout serves the next one, already queued, with the weights it was configured with, and the count
  of new engines that would have made the updater reconnect is overwritten by that rollout's own 0.
* `weights_resume` (`EnginesHoldTheActor`): a resumed job without colocation but with a reference model
  pushes the reference weights first, because `init` leaves them in the live model.
* `router_removal` (`SickServerIsStopped`): with SlimeRouter the shutdown of a sick engine posts
  `/remove_worker`, a route that only the router of SGLang has; it is proxied to a server, answered 404, and the
  shutdown raises before it kills the process. The server stays registered.

Further behaviour the models have that no run asks about, for the reader who changes this code:

* `EngineFleet` with `JoinTimesOut = TRUE` breaks `KilledIsReplaced`: a shutdown that takes longer than the
  join (`health_monitor.py:43`) empties the slot after the restart has looked at it. The runs keep it FALSE.
* The actors of the nodes of an engine other than the first survive its kill (section 3), and so does a first one
  whose shutdown raises.
* `train_async.py`: the data position saved with checkpoint r already contains the draw for r+1; a resumed
  job skips those prompts (`TrainLoop`, `Launch` before `Save`).
* `keep_old_actor` with `train.py`, or with updates every second rollout: the queue of actors is a step too
  long or too short, and `log_probs` is not computed with the weights of the rollout. The property
  `LogProbsOfTheRollout` is therefore stated for `train_async.py` with an update after every rollout.
* A draw longer than the dataset is cut short (`data_source.py:96`), while its docstring promises
  `num_samples`; `DataSource` keeps draws within an epoch.
* `EvalRunner`: a kill inside a line makes every later start fail; a kill just before its newline makes
  the next record share the line; a pair whose request failed counts as done and is never asked again;
  with `RequireComplete = FALSE` (math, instruction following) the score of an interrupted run is kept
  after the run is completed.
  `OneRecordPerPair` and `FinishedIsComplete` count what is written, also on a line that nobody can read.
* A micro-batch may exceed `max_tokens_per_gpu`, "The maximum number of tokens per GPU for dynamic batch size"
  (`slime/utils/arguments.py:591`; "Maximum number of tokens processed per GPU", `quick_start.md:236`), without
  any of its samples doing so: first fit puts samples of 8, 7, 6, 5 and 4 tokens with a cap of 15 into two
  bins, and Karmarkar-Karp fills them with 16 and 14. No run ends in this violation (the rollouts of `train_ranks`
  are too small to have it); `MicroBatchBound` is what the code keeps instead, and it is exact in this case:
  over the cap by less than one of the micro-batch's own samples. With virtual pipelining the count is
  rounded down, to fewer micro-batches than fit, and there is no bound.
* `--balance-data` keeps the groups together (`slime/utils/data.py:217`), while its help says that it may
  put the responses of a prompt into different steps; both are so: a step cuts a rank's share anywhere.
* `balance_data` needs a number of groups divisible by the data-parallel size (an assertion in
  `seqlen_balancing.py:98`), which nothing checks at the start; when trimming cuts a group its first samples
  are lost as well.
* `use_routing_replay` with `use_rollout_logprobs`, without the experts of the rollout, records nothing, and
  the training pass pops from an empty list. `TrainStep` excludes it (`StepAssumption`).
* `TokensSpellTheText` holds as long as of two texts that begin alike the tokens do too. A model may answer
  `<a><b>` where it, or the tokenizer, has `<ab>` elsewhere; then a node's tokens are cut at the wrong place,
  and what is retrieved spells another text. Log-probs and masks of a shared node are those of the first
  sample in any case.
* The trie never forgets: its collection subtracts from the weight version, which is a string, the exception
  is swallowed in `dispatch`, and `max_cache_size` is no bound.
* `_use_url` says that it selects "using round-robin strategy" (`router.py:161`); it takes the first worker with
  the lowest count, as the comment at line 164 says, and `LeastLoaded` is about that.
* A generation that the server rejects for good (a 400, say) is tried five times by the middleware with 30 s of
  `time.sleep` after each, in which nothing of the router runs, and all that up to 60 times by `post`.
* A server that refuses connections has the fewest requests under way, so that retries keep going to it.
  A client that goes away while `proxy` awaits its body (without the middleware) leaves the count raised
  (`router.py:77`; `left` in the model). A server that hangs holds its posts for ever, as no timeout is set.
* The branch of `sglang_rollout.py:149` looks for `RadixTreeMiddleware` in a list of dotted paths, and is not
  taken with the path of the shipped script; the tokens the middleware adds to a request do not reach the
  server either, which gets the body as it came.
* `FullyAsync` drops (`Leftover`) what a rollout drains beyond its batch; keeping it would break `FinishedRecently`.

## 6. Properties and the bugs that break them

| Run | Property | Mutated definition |
|---|---|---|
| `rollout_partial` | `EveryGroupInOnePlace` | `Left` as `Left_copied` |
| `rollout_partial` | `RemainingIsExact` | `StillPossible` as `StillPossible_undecremented` |
| `rollout_partial` | `ResumedIsRewarded` | `Scored` as `Scored_unlessAborted` |
| `rollout_partial` | `QuietBetweenRollouts` | `Drained` as `Drained_posted` |
| `rollout_partial` | `ContractSpec` | `Left` as `Left_copied` |
| `rollout_group` | `TrainedIsComplete` | `NeedsGroupReward` as `NeedsGroupReward_never` |
| `rollout_group` | `StaleTokensAreNamed` | `Stamp` as `Stamp_unfinished` |
| `rollout_group` | `RolloutReturns` | `Unposted` as `Unposted_reread` |
| `fleet_sync` | `EveryServerIsUpToDate` | `UpdateDue` as `UpdateDue_atSaves` |
| `fleet_sync` | `OnlySickAreKilled` | `Joined` as `Joined_unchecked` |
| `fleet_sync` | `KilledIsReplaced` | `Joined` as `Joined_unchecked` |
| `fleet_sync` | `CaughtFaultsAreSurvived` | `NewEngines` as `NewEngines_unreported` |
| `fleet_sync` | `JobEnds` | `Wait` as `Wait_deaf` |
| `training` | `TrainedInOrder` | `Synced` as `Synced_undelivered` |
| `training` | `NoPushWhileServing` | `Synced` as `Synced_unawaited` |
| `training` | `OffPolicyBound` | `UpdateDue` as `UpdateDue_late` |
| `training` | `NoGroupTwice` | `Loaded` as `Loaded_zero` |
| `training` | `Completes` | `TakeNext` as `TakeNext_always` |
| `training` | `TrainsTheActor` | `ForTraining` as `ForTraining_asLeft` |
| `training` | `LogProbsOfTheRollout` | `Copy` as `Copy_swapped` |
| `training` | `UntouchedActorIsServed` | `Restore` as `Restore_untagged` |
| `training` | `RefIsTheLatest` | `RefUpdateDue` as `RefUpdateDue_early` |
| `eval_resume` | `OneRecordPerPair` | `Done` as `Done_never` |
| `eval_resume` | `FinishedIsComplete` | `Done` as `Done_byUid` |
| `eval_resume` | `NothingAskedIsLost` | `Answered` as `Answered_unlessStopping` |
| `eval_resume` | `RunEnds` | `Refilled` as `Refilled_lostToRounding` |
| `fully_async` | `FinishedRecently` | `Leftover` as `Leftover_kept` |
| `fully_async` | `RolloutReturns` | `Free` as `Free_countingReturned` |
| `data_stream` | `NumbersAreUnique` | `Left` as `Left_whole` |
| `data_stream` | `StreamSpec` | `Restored` as `Restored_offsetOnly` |
| `train_ranks` | `Balanced` | `Joined` as `Joined_inOrder` |
| `train_ranks` | `MicroBatchBound` | `Agreed` as `Agreed_min` |
| `train_ranks` | `EverySampleOnce` | `Reordered` as `Reordered_not` |
| `train_ranks` | `ReplayedIsItsOwn` | `StageRestored` as `StageRestored_not` |
| `train_ranks` | `AllRanksFinish` | `Agreed` as `Agreed_never` |
| `router_faults` | `TokensSpellTheText` | `Skipped` as `Skipped_ofNode` |
| `router_faults` | `LeastLoaded` | `Finished` as `Finished_whenAnswered` |
| `router_faults` | `PostsReturn` | `Retried` as `Retried_uncounted` |

## 7. What is proved

`RolloutGeneration_proofs` proves for every batch size, oversampling, number of samples, engines,
permits and rollouts, with partial rollout and group rewards on or off:

* `TypeCorrect`: Every variable keeps its type for all sizes.
* `GroupsConserved` (`EveryGroupInOnePlace`): Every created group is in exactly one place at all times: none is lost, duplicated or trained twice.
* `CounterIsExact` (`RemainingIsExact`): remaining_batch_size equals the pending plus the accepted groups whenever the rollout collects.
* `AlwaysATaskToWaitFor`: asyncio.wait is never called on an empty set.
* `BatchHasItsSize`: The batch has exactly rollout_batch_size groups when the abort begins.
* `NothingHalfDoneIsTrained` (`TrainedIsComplete`): Only finished, rewarded samples reach training, through any number of recyclings.
* `RecycledRewardsAreThere` (`ResumedIsRewarded`): A finished sample in a recycled group has its reward when its new task starts.
* `EnginesQuietBetweenRollouts` (`QuietBetweenRollouts`): No request is in flight and no permit is held between rollouts.
* `NoPartialWorkIsLost`: With partial rollout no unfinished group leaves the system.
* `StaleTokensNamed` (`StaleTokensAreNamed`): For all sizes and any number of interruptions, start_rollout_id tells which samples of a batch or of the buffer hold tokens of earlier rollouts, and the rollout of the first.
* `ImplementsContract` (`ContractSpec`): RolloutGeneration implements RolloutContract under the refinement mapping.

The only assumption is `ConstAssumption` of `RolloutGeneration`, types of the constants, plus that no
engine is called like one of the places a sample can be; TLC evaluates it in both runs. (`MaxGroups`
is a bound of the model: being universally quantified it bounds nothing.)

**The argument.** None of the invariants is inductive alone. `CoreInv` conjoins what needs nothing
else: types; conservation (`EveryGroupInOnePlace`); and what the rollout coroutine knows at each of its
awaits (`AtAwait`: the counter, the size of the batch, the flag `aborted`).
`FullInv` adds `TaskInv` (a group has a task exactly while it is pending) and, per sample,
`SampleInv`: a sample is on its way only inside a running task; it is told to abort only while the flag
is up; a finished one has its reward or is getting it, unless rewards are per group; a task that is done
while the flag is down has all its samples finished and rewarded, and so has every group that was
accepted. `TrainedIsComplete`
needs most of it: a task done while the flag is down is complete only because no task of an earlier
rollout is left over, which is `QuietBetweenRollouts`, which depends on the drain. The proof has one
lemma per action and part; the refill, the only step that creates groups, rests on lemmas about cutting
and joining sequences without duplicates and about counting sets of groups. `ImplementsContract` maps
`FinishRollout` to `Deliver`, everything that changes the open groups to `Work`, and the rest to
stuttering; that the batch has its size comes from `BatchIsExact`. `StaleTokensNamed` has an invariant of its own on top
(`Stamps`): with the property it says that a group which waits in the buffer while a rollout runs has no token of
that rollout. So a sample that begins, or goes on, finds its stamp right, and the drain, which stamps only what
has tokens and no stamp yet, names the rollout under way for nothing that is older.

`EvalRunner_proofs` proves for every set of prompts, every n, concurrency, rate, number of attempts and
of processes started, from `EvalAssumption` (types of the constants):

* `NoDuplicates` (`OneRecordPerPair`): No sample of a prompt is recorded twice, for any number of prompts, values of n, kills, signals and resumes.
* `CompleteWhenFinished` (`FinishedIsComplete`): A run that ends without a signal leaves a record of every sample it was asked for.
* `AskedIsRecorded` (`NothingAskedIsLost`): A run that comes to its end, stopped by a signal or not, has a record of everything it asked the server for.
* `Typing`: Stages, attempts and tokens stay within their ranges: tokens within the rate, attempts within max_attempts.

The inductive invariant `IInv` adds three facts to the properties. `TaskHasNoRecord`: a pair has a task
only while a run is up, only if the run was asked for it, and only if it has no record yet; so whoever
appends a record, a task or the last write of a killed process, appends the first. `NothingLost`: while
no signal has come, each pair asked for has a task or a record; so when no task is left all are
recorded. `AskedIsKept`: signal or not, a pair the server was asked for is still being asked, has its answer to be
written, or has a record; no task is dropped between its first request and its line.

`TrainStep_proofs` proves about `SeqlenBalancing`, for every list of lengths and every number of partitions,
from the assertions of the code on the arguments alone, and about `TrainStep`, for every number of ranks, every rollout and
every combination of its options, from `StepAssumption`:

* `DifferenceIsBounded` (`Balanced`): In every state of every call of karmarkar_karp no partition is heavier than another by more than one of its own sequences, for any list, any number of partitions and either way to start.
* `PartitionsPass`: The assertions of karmarkar_karp and of _check_and_sort_partitions on the result never fail: no partition is empty, no sequence is lost or in two, and with equal_size all partitions have the same number.
* `StepsBalance`: A train call uses karmarkar_karp one call at a time and each to its return: Spec implements BalanceSpec, for any ranks, batch sizes, rollouts and options.
* `StepsAreBalanced` (`Balanced`): The bound of DifferenceIsBounded holds in a train call, whose lists are the lengths of the groups of the rollout or of the samples of one step of one rank.
* `StepsGetAllItems`: The partitions a train call deals and packs by pass the assertions on them.
* `StepIsKept`: The inductive invariant of a train call: which pass and stage each rank is in, how far its iterator is, and that its replay holds the micro-batches in their order with both indices at the place the pass has reached.
* `OwnExperts` (`ReplayedIsItsOwn`): Whatever a forward or a backward pops from the replay was recorded for the same samples in the same order, for every number of ranks, steps and micro-batches, any number in flight, with or without a reference pass, recorded in the log-prob pass or filled from the rollout.
* `MicroBatchesAreBounded` (`MicroBatchBound`): Without virtual pipelining a dynamic micro-batch that exceeds max_tokens_per_gpu is within it without one of its own samples, for any lengths, any number of ranks and any positive cap: what karmarkar_karp packs into as many micro-batches as first fit counts.
* `EverySampleIsTrainedOnce` (`EverySampleOnce`): A train call trains every sample of the rollout exactly once, on one rank, with the log-probs recomputed for it, in steps of global_batch_size samples, and with balance_data the samples of a group on one rank; for every way to cut and to reorder.

The invariant (`HeapInv`) says of each state of the heap that its sets are in decreasing order, that any
two differ by at most one sequence of the heavier one (`Near`), that either none of its sets is empty or none has two
items (and the empty ones are last), and with `equal_size` that all have one size; and of the heap that
every sequence is in exactly one set of one state. That a merge keeps two sums within one sequence is the
heart of it (`SumsNear`): the heaviest meets the lightest, so that the difference of one state pays for
that of the other; sorting does not change it, as the sets of the merged state are those joined, in some
order. The second alternative is why no partition of the result is empty: a list with as many sequences as
partitions fills the empty sets of a state before any set gets a second item. `Starts` has one lemma per way
to start; the one for `equal_size` rests on lemmas about division.

`StepInv` is the invariant of a train call. `ReplayedIsItsOwn` speaks of what was popped; what makes it true is
where the two indices stand. `ReplayInv` says that the replay of a rank is a `History`: the first n
micro-batches of its plan, where n grows with the iterator while the stage is "record", with the forward index at the
offset of the iterator in the passes that pop forward (it is put back to 0 between the log-prob pass
and training only in R3, where the first of the two has popped) and the backward index at the oldest micro-batch in
flight. `RankInv` ties the stage to the pass, which is where `StageRestored` is needed. That the plan does not change under the
passes is `PlanInv`: the heap is in use only before they begin. The plan is a
flattened sequence, and `FlattenIsListed` needs induction over its length: `UpwardClosed` proves it for
sets, from the well-foundedness of the natural numbers, as an operator cannot be a parameter.

The last two theorems ask what the folds compute: sums, first fit, and that cutting, joining and reordering
gives each sample back once. Four more invariants, each resting on those before it, lead there. `ItemsInv`: in a
state of the heap every set has its items once and their lengths as its sum, so the partitions returned weigh
what the list weighs (`PartitionSums`). `DealInv`: once dealt, the shares are a partition of the samples, all of
one size, and with `balance_data` no group is in two of them. `MicroBatchInv`: the micro-batches planned for a step
have each of its places once, in some order (`Cut`), and none exceeds its bound (`Fits`). `PassInv`: what a rank has
recomputed or trained on is what its share has at the places of the micro-batches taken so far.

`MicroBatchBound` then compares the micro-batches of a step with the bins of first fit. First fit never adds a
sample to a bin that would then be over the cap, so a bin is within it or has one sample only: if every
sample counts for no more than the cap, the bins of a step still weigh what its samples weigh, and all of them at most
the cap times the number of bins (`FirstFitIs`). The ranks agree on the largest number, so that no rank has fewer
micro-batches than bins. Either some micro-batch is then within the cap, and every other differs from it by at most
one sequence of its own (`Even`, the invariant of the heap that `Balanced` states too), so that it is within the cap
without that one; or all of them are over it, and since they weigh no more than the cap each when samples count for
that much at most, each has a sample over the cap and nothing else (`PartitionsFit`; the second case needs a
cap that is positive). `EverySampleOnce` holds at
the end of a call because the places in the order of the micro-batches (`Origin`) are a permutation of the places of
the share: log-probs put back by its inverse are those of the sample (`ReorderedIs`), and counting the samples of a
step is counting places.

`TrainLoop_proofs` proves for every job (script, save and evaluation interval), every update interval, number of
rollouts and of crashes, from `TrainAssumption` (types of the constants):

* `LoopIsKept`: The inductive invariant: which calls are out at every line of either script, where the data of a rollout is, how far the engines are behind the model, in every job and through every crash.
* `LoopTypes`: Every variable of driver, manager and files keeps its type.
* `InOrder` (`TrainedInOrder`): Both scripts train rollout after rollout, each on the data generated for it, for any number of rollouts, update interval, save interval and checkpoint to resume from.
* `PushAlone` (`NoPushWhileServing`): update_weights never overlaps with a generation or an evaluation that the manager serves, the early launched one included.
* `LagIsBounded` (`OffPolicyBound`): train.py trains on data of the current weights; with train_async.py it was generated at most update_weights_interval versions before.
* `NothingTwice` (`NoGroupTwice`): No group is trained on twice through any number of crashes and resumptions, unless a crash fell between the two files of a checkpoint.

**The argument.** None of the properties is inductive, as each is about the models while the reason lies
in the driver's counter and the queue of calls. `LoopInv` says for every line of either script which calls are
out (`CallsInv`; `push` has none, which is `NoPushWhileServing`), where the data of the next rollout is or will
be (`DriverInv`, `Covered`: in the future, or already current and its own `ray.get` skipped), that data is
there for no later rollout than has been asked for (`ResultsInv`), and by how many versions the engines are
behind (`EnginesInv`: in the asynchronous loop by the number of rollouts since the last multiple of the update
interval). What a step trains on is then its own (`OrderInv`) and young enough (`FreshInv`).
`OnceInv`, for jobs that no crash has torn, adds where each group is: trained on, waiting as data, in the buffer,
each in one of these and all of them before the position of the data source; and of a whole checkpoint that
its data position is behind everything its model was trained on, which is why a restart repeats none. The
manager's steps and the driver's have a lemma each, and `OnceInv` is proved relative to `LoopInv`.

`Composed_proofs` proves about `WeightTags`, with the options of the actor (reference, its interval, old actor,
colocation) arbitrary as well, from `TrainAssumption` and `TagsAssumption`:

* `TagsRefineLoop`: The loop with tags refines the train loop, so that its invariants hold of it.
* `TagsAreKept`: The inductive invariant: which version each backup and the live model hold at every line of the scripts.
* `ActorIsTrained` (`TrainsTheActor`): The gradient of every training step is taken from the actor's own latest weights, in every job and every combination of options.
* `ActorIsServed` (`UntouchedActorIsServed`): The engines hold the actor as it was last pushed, unless a resumed job left the reference model in the live one.
* `RefIsRenewed` (`RefIsTheLatest`): The reference of every training step is the actor as of the last multiple of ref_update_interval, for every interval, in a job that no crash restarted.
* `OldActorMadeIt` (`LogProbsOfTheRollout`): In train_async.py with an update after every rollout, log_probs are computed with the weights that generated the rollout.

`TagsRefineLoop` comes first, so that `LoopInv` may be used. `TagsInv` then says which version is in
each backup at each line: `actor` is always the model as trained, and the live model is too unless `init` left
the reference in it (`LeftByInit`); `ref` is the version of the last due update; and `old_actor` is what the next
rollout to train on was generated with, `rollout_actor` what the one under way is generated with (`OldInv`),
which is the step in the queue of actors that has to go with each rollout.

`Composed_proofs` proves about `EngineFleet`, for every number of engines and of nodes an engine, any faults at any
time, from `TrainAssumption` and `FleetAssumption`:

* `FleetIsLoop`: The fleet refines the train loop: with engines that fail and are restarted the driver, the manager and the files behave as TrainLoop says.
* `FleetIsKept`: The inductive invariant, if no join times out: one thread at most, whose snapshot is true of every engine its sweep has still to visit.
* `OnlySick` (`OnlySickAreKilled`): If no join times out, the monitor only takes down servers that had stopped answering, with any number of engines, nodes and faults.
* `Replaced` (`KilledIsReplaced`): If no join times out, all nodes of all engines are there between rollouts, in both scripts.
* `UpToDateFleet` (`EveryServerIsUpToDate`): If no join times out, under train.py every engine serves with the weights of the last update, whichever were restarted before it. Under train_async.py it is false (run fleet_async).
* `CaughtIsSurvived` (`CaughtFaultsAreSurvived`): If no join times out, under train.py an update fails only while an engine in the table is sick: one that the monitor caught, and whose restart succeeded, never costs the job.

The two hypotheses are about the configuration, and the models show what happens without them: with
`JoinTimesOut` a thread outlives `stop` and `KilledIsReplaced` is false (section 5); with a job of
`train_async.py` the weights are not current (run `fleet_async`), so that the last two theorems assume that
`Jobs` has only `train.py` (`AllSync`). `MonitorInv` is about the thread and the table: a thread that runs is the
one that `stop` joins; its snapshot is true of the engines its sweep has still to visit, as nobody else changes
the table while it lives; within a kill, the nodes before the one at hand are emptied and the others are still
those of the sick engine (`SweepInv`); outside of one the nodes of an engine are all there or none
(`TogetherInv`). `SyncInv` follows `num_new_engines`: after a rollout and until the updater looks, either it
is positive or the updater's list is the table's (`Linked`), and in a rollout all engines that are not taken down
have the weights of the last update. TLC checked both invariants on the two configurations before they were
proved.

`FullyAsync_proofs` proves for every batch size, queue size and number of rollouts, updates and failures,
from `FullyAsyncAssumption`:

* `AsyncIsKept`: The inductive invariant: types, and from which rollout on whatever is queued, blocked or drained was finished.
* `AsyncTypes`: At most rollout_batch_size groups are in generation, the queue stays within its size and a batch within its own.
* `RecentGroups` (`FinishedRecently`): Every group of a batch was finished within the last three rollouts, however large the queue is and however long a put is blocked.

`AgeInv` is the reason for the number three. A rollout empties the queue in a sweep, so that what it leaves was
put there later; the one result that can be older than its neighbours is that whose `put` was blocked, and it
gets in only when the queue was emptied, so that the next rollout takes it.

`DataSource_proofs` proves for every dataset, every shuffle, every draw and every number of epochs, checkpoints and
restarts, from `DataAssumption`:

* `SourceIsKept`: The inductive invariant: the numbers of the cursor go together, and every group out or in the buffer lies behind it at a place of its own.
* `UniqueNumbers` (`NumbersAreUnique`): No two groups of a job that are still somewhere share a number, nor two of their samples, for every dataset, draw and order of recycling.
* `IsPromptStream` (`StreamSpec`): The data source implements PromptStream: every draw, across the end of an epoch or not, hands out the next prompts of the stream, and a restart goes on at the place of the checkpoint.

`CursorInv` ties the four numbers of the cursor together: the number of groups is epoch times size plus offset,
where an offset may be the size itself until the next draw turns it into the next epoch. `LiveInv` says that a
group's number is its place in the stream and that no two live groups share a place, which cutting a
prefix off the buffer and giving back any of the groups in any order preserve. For the refinement, the prompt of
the i-th group of a draw is compared with the stream's prompt at its place, by the uniqueness of quotient and
remainder, in the three cases of a draw within the epoch, before the wrap and after it.

`SlimeRouter_proofs` proves for every set of servers and of posts, every vocabulary, every text and every
tokenization that the servers generate, any number of retries and tries, and every combination of failures, from
`RouterAssumption` and `VocabularyAssumption` (types; that a server's address is registered once at the start, and
that a letter is in a text):

* `RouterSafety`: The inductive invariant: types, one request a post, what every count counts, and that what is sent, answered and kept by the trie spells its text.
* `PostsHaveOneRequest`: No post has two requests in the router whose answers somebody waits for, through any retries, repeated generations and poster actors that die.
* `CountsHold`: The count of a server is that of its requests under way and of those whose client went away while the body was read, through errors, aborts and late registrations.
* `TokensAlwaysSpell` (`TokensSpellTheText`): What the trie gives for a text it was told spells that text, for every vocabulary, every text and every tokenization the servers generate, as long as texts that begin alike have tokens that do.
* `AlwaysLeastLoaded` (`LeastLoaded`): Every request goes to a server with no more requests under way than any other, for any number of servers and posts.

`OneRequest` counts, for each post, the requests that somebody still waits for: a new one is made only by the
client, the poster or the middleware that has just seen the end of the one before. `CountsAreTrue` says what the
count of a server counts: the requests that `proxy` has sent on and not yet finished, and those
left behind by a client that went away while the body was read; `LeastLoaded` follows, since the step that chooses a
server looks at these counts. `Spelling` is about the trie. Its core is `Kept`: the tokens on the way to every node are
those of a text the trie was told. `InsertKeeps` proves it for each way an insertion goes on at a node (a child that
goes further, a child that ends earlier, no child), and `RetrievedSpells` concludes for what is found. That it is enough for
texts that begin alike to have tokens that do is the hypothesis of the property, `AlikeFromTheStart`, and section 5 says
what happens without it. Concatenations of all tokens and the tokenizer, which are folds, are proved by
counting up to a length.

**What stays with TLC.** Liveness (the properties of the runs that say that something happens:
`Completes`, `JobEnds`, `RunEnds`, `RolloutReturns`, `AllRanksFinish`, `PostsReturn`) and `ENABLED`. Every
invariant, action property and refinement that a passing run checks is a theorem. No module here has a RECURSIVE operator.

## 8. What is not modelled

* Tensors: what forward and backward passes compute, losses, expert masks, parameter conversion,
  quantisation. `WeightTags` keeps which weights a computation uses, `TrainStep` which samples.
* `eval_rollout` (shares only the semaphore with training), custom generate functions, multimodal
  inputs, the critic, offload and onload of GPU memory, the FSDP backend.
* Port allocation; the start of the router; SGLang's own router, which is the default.
* Answer verifiers and statistics of the evaluation.
* The vendored trees. The two things the models use of them: an aborted request answers with the text
  it has, and `pause_generation` aborts every request of its engine and holds new ones back.
* The rollout buffer plugin: its endpoints read and clear the queue without an await in between, so that
  they do not interleave; a reply that is lost takes its groups with it, by construction.
* `greedy_partition`, `remove`, `clear` of the trie: nobody calls them.
* The garbage collection of the trie, which never gets to remove a node (section 5).
