----------------------------- MODULE TrainStep -----------------------------
(***************************************************************************)
(* One train call of the actors: the samples of a rollout are split over   *)
(* the data-parallel ranks (SeqlenBalancing), each rank packs its share of *)
(* every step into micro-batches, and all ranks take them through the      *)
(* forward-only passes and the training pass.  Routing replay makes the    *)
(* experts chosen for a token the same in all of them.                     *)
(*                                                                         *)
(* The ranks share the experts, so a forward or a backward of one is a     *)
(* collective of all.                                                      *)
(***************************************************************************)
EXTENDS SeqlenBalancing, SequencesExt

CONSTANTS
  dp_size,
  n_samples_per_prompt, global_batch_size, micro_batch_size,
  max_tokens_per_gpu,   \* times the context parallel size
  MaxInFlight,          \* micro-batches between their forward and their backward
  Options,              \* the arguments of the jobs, see below
  Rollouts,             \* lengths of the samples of a rollout, for each train call
  NumRollouts           \* bound

Ranks == 1 .. dp_size
num_local_gbs == global_batch_size \div dp_size

\* balance: --balance-data.  dynamic: --use-dynamic-batch-size.  vp_group: the
\* microbatch group of virtual pipelining, 0 without.  ref: there is a reference
\* model.  log_probs: they are recomputed (not use_rollout_logprobs).  replay:
\* "none", "train" (--use-routing-replay) or "rollout" (with the experts of the
\* rollout, R3).  Without recomputed log-probs nothing is recorded in a "train" job.
\* A rollout fills a step (arguments.py asserts it) and can be dealt to the ranks.
ASSUME StepAssumption ==
  /\ dp_size \in Nat \ {0} /\ NumRollouts \in Nat /\ Rollouts \subseteq Seq(Nat)
  /\ n_samples_per_prompt \in Nat \ {0} /\ max_tokens_per_gpu \in Nat \ {0} /\ MaxInFlight \in Nat \ {0}
  /\ global_batch_size \in Nat \ {0} /\ micro_batch_size \in Nat \ {0}
  /\ global_batch_size % (micro_batch_size * dp_size) = 0
  /\ \A r \in Rollouts :
       /\ Len(r) >= global_batch_size
       /\ (Len(r) \div global_batch_size) * global_batch_size % (n_samples_per_prompt * dp_size) = 0
  /\ Options \subseteq [balance : BOOLEAN, dynamic : BOOLEAN, vp_group : Nat, ref : BOOLEAN,
                       log_probs : BOOLEAN, replay : {"none", "train", "rollout"}]
  /\ \A o \in Options : o.replay = "train" => o.log_probs

VARIABLES
  options,
  phase,          \* "waiting", "balancing", "scheduling", "packing", "computing"
  round,          \* train calls so far
  total_lengths,
  share,          \* the samples of each rank, rollout_data
  num_microbatches,     \* per rank and step
  micro_batch_indices,  \* per rank and step, places in the share
  rank,           \* where each rank is: pass, step, forwards and backwards in the
                  \* step, offset of the iterator, ROUTING_REPLAY_STAGE
  replay,         \* RoutingReplay: top_indices_list and the two indices
  results,        \* forward_data_store of the log-prob pass
  log_probs,      \* whose log-probs each place of the share has
  trained,        \* samples each rank has trained on, with step and log-probs
  routed          \* <<micro-batch, the one whose experts it got>> of every replay

data == <<total_lengths, share, num_microbatches, micro_batch_indices>>
work == <<rank, replay, results, log_probs, trained, routed>>
vars == <<balanceVars, options, phase, round, data, work>>

NoReplay == [top_indices_list |-> <<>>, forward_index |-> 0, backward_index |-> 0]
Resting == [pass |-> "none", step |-> 1, forwards |-> 0, backwards |-> 0, offset |-> 0,
            stage |-> "fallthrough"]
Of(x) == [r \in Ranks |-> x]

Init ==
  /\ options \in Options
  /\ phase = "waiting" /\ round = 0
  /\ BalanceInit
  /\ total_lengths = <<>> /\ share = Of(<<>>)
  /\ num_microbatches = Of(<<>>) /\ micro_batch_indices = Of(<<>>)
  /\ rank = Of(Resting) /\ replay = Of(NoReplay)
  /\ results = Of(<<>>) /\ log_probs = Of(<<>>) /\ trained = Of(<<>>) /\ routed = {}
-----------------------------------------------------------------------------
(* process_rollout_data *)

SumOver(lengths, indices) == FoldLeft(LAMBDA sum, x : sum + lengths[x], 0, indices)
Places(first, last) == [i \in 1 .. last - first + 1 |-> first + i - 1]

\* RolloutManager._get_rollout_data leaves out what does not fill a step.
Trimmed(lengths) ==
  SubSeq(lengths, 1, (Len(lengths) \div global_batch_size) * global_batch_size)

GroupPlaces(g) == Places((g - 1) * n_samples_per_prompt + 1, g * n_samples_per_prompt)
GroupLengths(lengths) ==
  [g \in 1 .. Len(lengths) \div n_samples_per_prompt |-> SumOver(lengths, GroupPlaces(g))]

\* val[dp_rank::dp_size]
Strided(lengths) ==
  [r \in Ranks |-> [n \in 1 .. (Len(lengths) + dp_size - r) \div dp_size |-> (n - 1) * dp_size + r]]

\* karmarkar_karp is called, works, and returns to the caller.
Calls(list, k, equal) ==
  /\ seqlen_list' = list /\ k_partitions' = k /\ equal_size' = equal
  /\ Call

Receive ==
  /\ phase = "waiting" /\ round < NumRollouts
  /\ \E lengths \in Rollouts :
       LET kept == Trimmed(lengths) IN
       /\ total_lengths' = kept
       /\ IF options.balance
          THEN /\ Calls(GroupLengths(kept), dp_size, TRUE)
               /\ phase' = "balancing" /\ share' = Of(<<>>)
          ELSE /\ UNCHANGED balanceVars
               /\ phase' = "scheduling" /\ share' = Strided(kept)
  /\ round' = round + 1
  /\ trained' = Of(<<>>) /\ routed' = {}
  /\ num_microbatches' = Of(<<>>) /\ micro_batch_indices' = Of(<<>>)
  /\ UNCHANGED <<options, rank, replay, results, log_probs>>

Balance ==
  /\ Merge
  /\ UNCHANGED <<options, phase, round, data, work>>

\* sorted(indices): before the n-th there are n - 1.
InOrder(indices) ==
  [n \in 1 .. Cardinality(indices) |->
     CHOOSE x \in indices : Cardinality({y \in indices : y < x}) = n - 1]

\* The groups of a partition, in their order, with all their samples.
Expanded(groups) == FlattenSeq([n \in DOMAIN groups |-> GroupPlaces(groups[n])])
Deal ==
  /\ phase = "balancing"
  /\ Return
  /\ \E s \in states_pq :
       share' = [r \in Ranks |-> Expanded(InOrder(Indices(s[r])))]
  /\ phase' = "scheduling"
  /\ UNCHANGED <<options, round, total_lengths, num_microbatches, micro_batch_indices, work>>
-----------------------------------------------------------------------------
(* get_data_iterator *)

\* get_minimum_num_micro_batch_size: the bins that first fit opens.
FirstFit(lengths) ==
  LET Put(bins, length) ==
        LET fits == {i \in DOMAIN bins : bins[i] + length <= max_tokens_per_gpu}
        IN IF fits = {} THEN Append(bins, length) ELSE [bins EXCEPT ![Min(fits)] = @ + length]
  IN FoldLeft(Put, <<>>, lengths)

\* The places in the share of rank r that belong to one step, and their lengths.
StepPlaces(i) == Places((i - 1) * num_local_gbs + 1, i * num_local_gbs)
LengthsOf(r, places) == [n \in DOMAIN places |-> total_lengths[share[r][places[n]]]]
Steps == 1 .. Len(total_lengths) \div global_batch_size

Needed(r, i) == Len(FirstFit(LengthsOf(r, StepPlaces(i))))

\* dist.all_reduce with ReduceOp.MAX, over the data-parallel group.
Agreed_never(r, i) == Needed(r, i)
Agreed_min(r, i) == Min({Needed(q, i) : q \in Ranks})
Agreed(r, i) == Max({Needed(q, i) : q \in Ranks})

Clamped(n) == IF options.vp_group = 0 THEN n
              ELSE Max({1, (n \div options.vp_group) * options.vp_group})
Count(r, i) == IF options.dynamic THEN Clamped(Agreed(r, i)) ELSE num_local_gbs \div micro_batch_size

Sliced(i) ==
  [j \in 1 .. num_local_gbs \div micro_batch_size |->
     SubSeq(StepPlaces(i), (j - 1) * micro_batch_size + 1, j * micro_batch_size)]

\* The collective, and what is settled with it.
Schedule ==
  /\ phase = "scheduling"
  /\ num_microbatches' = [r \in Ranks |-> [i \in Steps |-> Count(r, i)]]
  /\ micro_batch_indices' =
       IF options.dynamic THEN Of(<<>>) ELSE Of([i \in Steps |-> Sliced(i)])
  /\ phase' = "packing"
  /\ UNCHANGED <<balanceVars, options, round, total_lengths, share, work>>

\* Each rank partitions its samples of one step after the other.
NextToPack(r) == Len(micro_batch_indices[r]) + 1
Unpacked == {r \in Ranks : NextToPack(r) \in Steps}
Pack ==
  /\ phase = "packing" /\ Unpacked # {}
  /\ LET r == Min(Unpacked)
         i == NextToPack(r)
     IN Calls(LengthsOf(r, StepPlaces(i)), num_microbatches[r][i], FALSE)
  /\ UNCHANGED <<options, phase, round, data, work>>

Packed(r, s) ==
  [j \in DOMAIN s |-> LET part == InOrder(Indices(s[j]))
                          places == StepPlaces(NextToPack(r))
                      IN [n \in DOMAIN part |-> places[part[n]]]]
Keep ==
  /\ phase = "packing" /\ Return
  /\ \E s \in states_pq :
       LET r == Min(Unpacked)
       IN micro_batch_indices' = [micro_batch_indices EXCEPT ![r] = Append(@, Packed(r, s))]
  /\ UNCHANGED <<options, phase, round, total_lengths, share, num_microbatches, work>>

Batches(r) == FlattenSeq(micro_batch_indices[r])
Samples(r, places) == [n \in DOMAIN places |-> share[r][places[n]]]
-----------------------------------------------------------------------------
(* train_actor: which pass comes next, and what lies between two passes *)

UsesR3 == options.replay = "rollout"
FirstPass == IF options.ref THEN "ref" ELSE IF options.log_probs THEN "log_probs" ELSE "train"
After(pass) == CASE pass = "ref" -> IF options.log_probs THEN "log_probs" ELSE "train"
                 [] pass = "log_probs" -> "train"
                 [] pass = "train" -> "none"

StageOf(pass) ==
  CASE pass = "ref" -> "fallthrough"
    [] pass = "log_probs" -> IF UsesR3 THEN "replay_forward" ELSE "record"
    [] pass = "train" -> "replay_backward"
    [] pass = "none" -> "replay_backward"

\* The iterators are reset when a pass begins.
Entering(pass) == [Resting EXCEPT !.pass = pass, !.stage = StageOf(pass)]

\* fill_routing_replay records the experts of the rollout, micro-batch by micro-batch.
Filled(old, batches) ==
  IF UsesR3 THEN [old EXCEPT !.top_indices_list = @ \o batches] ELSE old

Begin ==
  /\ phase = "packing" /\ Unpacked = {}
  /\ replay' = [r \in Ranks |->
       Filled(replay[r], [m \in DOMAIN Batches(r) |-> Samples(r, Batches(r)[m])])]
  /\ rank' = Of(Entering(FirstPass))
  /\ log_probs' = share       \* rollout_log_probs, until they are recomputed
  /\ phase' = "computing"
  /\ UNCHANGED <<balanceVars, options, round, data, results, trained, routed>>
-----------------------------------------------------------------------------
(* compute_topk: the experts of a micro-batch under a stage *)

Recorded(rr, batch) == [rr EXCEPT !.top_indices_list = Append(@, batch)]
Popped_forward(rr) == [rr EXCEPT !.forward_index = @ + 1]
Popped_backward(rr) == [rr EXCEPT !.backward_index = @ + 1]
CanPop(rr, stage) ==
  CASE stage = "replay_forward" -> rr.forward_index < Len(rr.top_indices_list)
    [] stage = "replay_backward" -> rr.backward_index < Len(rr.top_indices_list)
    [] OTHER -> TRUE

Routed(rr, stage, batch) ==
  IF options.replay = "none" THEN rr
  ELSE CASE stage = "fallthrough" -> rr
         [] stage = "record" -> Recorded(rr, batch)
         [] stage = "replay_forward" -> Popped_forward(rr)
         [] stage = "replay_backward" -> Popped_backward(rr)

Replays(rr, stage, batch) ==
  IF options.replay = "none" THEN {}
  ELSE CASE stage = "replay_forward" -> {<<batch, rr.top_indices_list[rr.forward_index + 1]>>}
         [] stage = "replay_backward" -> {<<batch, rr.top_indices_list[rr.backward_index + 1]>>}
         [] OTHER -> {}
-----------------------------------------------------------------------------
(* The passes *)

\* forward_step of training replays, whatever the stage, and puts the stage back.
ForwardStage(r) == IF rank[r].pass = "train" THEN "replay_forward" ELSE rank[r].stage
StageRestored_not(old) == "replay_forward"
StageRestored(old) == old

Batch(r, n) == Batches(r)[n]
CanRoute(r, stage) == options.replay = "none" \/ CanPop(replay[r], stage)

CanForward(r) ==
  /\ rank[r].pass # "none"
  /\ rank[r].forwards < num_microbatches[r][rank[r].step]
  /\ rank[r].pass = "train" => rank[r].forwards - rank[r].backwards < MaxInFlight
  /\ CanRoute(r, ForwardStage(r))

Learned(r, places) ==
  [n \in DOMAIN places |->
     [sample |-> share[r][places[n]], log_prob |-> log_probs[r][places[n]], step |-> rank[r].step]]

\* One micro-batch on every rank: get_batch and the model.
Forward ==
  /\ phase = "computing" /\ \A r \in Ranks : CanForward(r)
  /\ LET places == [r \in Ranks |-> Batch(r, rank[r].offset + 1)]
         batch == [r \in Ranks |-> Samples(r, places[r])] IN
     /\ rank' = [r \in Ranks |-> [rank[r] EXCEPT !.forwards = @ + 1, !.offset = @ + 1,
                                                 !.stage = StageRestored(@)]]
     /\ replay' = [r \in Ranks |-> Routed(replay[r], ForwardStage(r), batch[r])]
     /\ routed' = routed \cup UNION {Replays(replay[r], ForwardStage(r), batch[r]) : r \in Ranks}
     /\ results' = [r \in Ranks |->
          IF rank[r].pass = "log_probs" THEN results[r] \o batch[r] ELSE results[r]]
     /\ trained' = [r \in Ranks |->
          IF rank[r].pass = "train" THEN trained[r] \o Learned(r, places[r]) ELSE trained[r]]
  /\ UNCHANGED <<balanceVars, options, phase, round, data, log_probs>>

CanBackward(r) ==
  /\ rank[r].pass = "train" /\ rank[r].backwards < rank[r].forwards
  /\ CanRoute(r, rank[r].stage)

\* The backward of the oldest one in flight, which computes the layers once more.
Backward ==
  /\ phase = "computing" /\ \A r \in Ranks : CanBackward(r)
  /\ LET batch == [r \in Ranks |->
           Samples(r, Batch(r, rank[r].offset - rank[r].forwards + rank[r].backwards + 1))] IN
     /\ rank' = [r \in Ranks |-> [rank[r] EXCEPT !.backwards = @ + 1]]
     /\ replay' = [r \in Ranks |-> Routed(replay[r], rank[r].stage, batch[r])]
     /\ routed' = routed \cup UNION {Replays(replay[r], rank[r].stage, batch[r]) : r \in Ranks}
  /\ UNCHANGED <<balanceVars, options, phase, round, data, results, log_probs, trained>>

StepDone(r) == rank[r].forwards = num_microbatches[r][rank[r].step]
LastStep(r) == rank[r].step = Len(num_microbatches[r])
NextStep(r) == [rank[r] EXCEPT !.step = @ + 1, !.forwards = 0, !.backwards = 0]

\* forward_only puts the results of the micro-batches back in the order of the share.
Reordered_not(r, values) == values
Reordered(r, values) ==
  LET origin_indices == FlattenSeq(Batches(r))
  IN IF options.dynamic
     THEN [i \in DOMAIN values |-> values[CHOOSE n \in DOMAIN values : origin_indices[n] = i]]
     ELSE values

\* clear_all_forward, with the experts of the rollout.
ClearedForward(rr) == IF UsesR3 THEN [rr EXCEPT !.forward_index = 0] ELSE rr

\* A rank comes to the end of a step, and of a pass, that only goes forward.
EndForwardOnly(r) ==
  /\ phase = "computing" /\ rank[r].pass \in {"ref", "log_probs"} /\ StepDone(r)
  /\ IF ~LastStep(r)
     THEN rank' = [rank EXCEPT ![r] = NextStep(r)] /\ UNCHANGED <<replay, results, log_probs>>
     ELSE /\ rank' = [rank EXCEPT ![r] = Entering(After(rank[r].pass))]
          /\ IF rank[r].pass = "ref" THEN UNCHANGED <<replay, results, log_probs>>
             ELSE /\ log_probs' = [log_probs EXCEPT ![r] = Reordered(r, results[r])]
                  /\ results' = [results EXCEPT ![r] = <<>>]
                  /\ replay' = [replay EXCEPT ![r] = ClearedForward(@)]
  /\ UNCHANGED <<balanceVars, options, phase, round, data, trained, routed>>

\* The gradients are reduced over all ranks and the optimizer steps.  After the
\* last step clear_all empties the replays.
Optimize ==
  /\ phase = "computing"
  /\ \A r \in Ranks : rank[r].pass = "train" /\ StepDone(r) /\ rank[r].backwards = rank[r].forwards
  /\ IF \A r \in Ranks : ~LastStep(r)
     THEN rank' = [r \in Ranks |-> NextStep(r)] /\ UNCHANGED <<phase, replay>>
     ELSE /\ rank' = Of(Resting) /\ phase' = "waiting"
          /\ replay' = IF options.replay = "none" THEN replay ELSE Of(NoReplay)
  /\ UNCHANGED <<balanceVars, options, round, data, results, log_probs, trained, routed>>

Work == Balance \/ Deal \/ Schedule \/ Pack \/ Keep \/ Begin \/ Forward \/ Backward \/ Optimize
        \/ \E r \in Ranks : EndForwardOnly(r)
Next == Receive \/ Work

\* Ranks that can go on do, and the pipeline schedule gets to its backwards.
Spec == Init /\ [][Next]_vars /\ WF_vars(Work)
-----------------------------------------------------------------------------
(* Properties *)

Trained(r) == {trained[r][n] : n \in DOMAIN trained[r]}
GroupOf(x) == (x - 1) \div n_samples_per_prompt

\* The n-th sample that rank r trained on is x, with its own log-probs.
TrainsAt(r, n, x) ==
  n \in DOMAIN trained[r] /\ trained[r][n].sample = x /\ trained[r][n].log_prob = x

\* After a train call every sample was trained on once, with its own log-probs,
\* in steps of global_batch_size samples, and with balance_data "each group
\* together" on one rank (data.py:217).
EverySampleOnce ==
  phase = "waiting" =>
    /\ \A x \in DOMAIN total_lengths :
         Cardinality({at \in Ranks \X DOMAIN total_lengths : TrainsAt(at[1], at[2], x)}) = 1
    /\ \A i \in Steps :
         Cardinality({t \in UNION {Trained(r) : r \in Ranks} : t.step = i}) = global_batch_size
    /\ options.balance => \A q, r \in Ranks : q # r =>
         \A t \in Trained(q) : \A u \in Trained(r) : GroupOf(t.sample) # GroupOf(u.sample)

\* What a replay in the forward or the backward pass of training yields was
\* recorded for the same samples in the same order.
ReplayedIsItsOwn == \A ir \in routed : ir[1] = ir[2]

\* A micro-batch may exceed max_tokens_per_gpu, since first fit only counts and
\* another algorithm packs, but all its samples but one are within it.
BoundedButForOne(batch) ==
  LET tokens == SumOver(total_lengths, batch)
  IN tokens > max_tokens_per_gpu =>
       \E n \in DOMAIN batch : tokens - total_lengths[batch[n]] <= max_tokens_per_gpu
MicroBatchBound ==
  (phase = "computing" /\ options.dynamic /\ options.vp_group = 0) =>
    \A r \in Ranks : \A m \in DOMAIN Batches(r) : BoundedButForOne(Samples(r, Batch(r, m)))

\* No rank waits in a collective for one that is past it.
AllRanksFinish == []<>(phase = "waiting")
=============================================================================
