----------------------------- MODULE DataSource -----------------------------
(***************************************************************************)
(* RolloutDataSourceWithBuffer and its Dataset: the prompts of a rollout   *)
(* come from the buffer of recycled groups and then from the dataset,      *)
(* epoch after epoch, across checkpoints and restarts.  Groups and samples *)
(* are numbered as they are drawn.                                         *)
(*                                                                         *)
(* Order[e] is the permutation of the prompts that the seed of epoch e     *)
(* yields; without rollout_shuffle every Order[e] is that of the file.     *)
(***************************************************************************)
EXTENDS Integers, Sequences, Functions

CONSTANTS
  Size,         \* prompts in the dataset
  NSamples,     \* args.n_samples_per_prompt
  Order,
  MaxAsked,     \* groups asked for in one call; at most one epoch, since a
                \* longer draw is cut short by the code
  MaxLive,      \* bound: groups out or in the buffer
  MaxEpochs,    \* bound
  MaxCrashes    \* bound

ASSUME DataAssumption ==
  /\ Size \in Nat \ {0} /\ NSamples \in Nat \ {0}
  /\ Order \in [0 .. MaxEpochs -> [1 .. Size -> 1 .. Size]]
  /\ MaxAsked \in 0 .. Size /\ MaxLive \in Nat /\ MaxEpochs \in Nat /\ MaxCrashes \in Nat

VARIABLES
  cursor,    \* [epoch, offset, group, sample]: epoch_id ... sample_index
  samples,   \* dataset.samples
  shuffled,  \* dataset.epoch_id
  buffer,    \* recycled groups
  out,       \* groups of the rollout under way
  last,      \* the groups the last get_samples took from the dataset
  file,      \* the state of the last checkpoint, if any
  crashes

vars == <<cursor, samples, shuffled, buffer, out, last, file, crashes>>

Start == [epoch |-> 0, offset |-> 0, group |-> 0, sample |-> 0]
NoFile == {}

Untouched == <<>>

\* __init__, then dataset.shuffle(0).
Init ==
  /\ cursor = Start /\ samples = Order[0] /\ shuffled = 0
  /\ buffer = <<>> /\ out = <<>> /\ last = Untouched
  /\ file = NoFile /\ crashes = 0
-----------------------------------------------------------------------------
(* Dataset.shuffle permutes the samples of the file, not those of the epoch   *)
(* before.                                                                    *)
Shuffled(e) == IF shuffled = e THEN samples ELSE Order[e]

\* The prompts of one call of RolloutDataSource.get_samples, and where it ends.
Wraps(n) == cursor.offset + n > Size
Prompts(n) ==
  IF Wraps(n)
  THEN LET tail == SubSeq(samples, cursor.offset + 1, Size)
           more == n - Len(tail)
       IN tail \o SubSeq(Shuffled(cursor.epoch + 1), 1, IF more < Size THEN more ELSE Size)
  ELSE SubSeq(samples, cursor.offset + 1, cursor.offset + n)

Offset(n) ==
  IF Wraps(n) THEN n - Len(SubSeq(samples, cursor.offset + 1, Size)) ELSE cursor.offset + n

\* Groups of NSamples copies of each prompt, numbered on from the cursor.
Groups(prompts) ==
  [i \in 1 .. Len(prompts) |->
     [place |-> cursor.group + i - 1, prompt |-> prompts[i],
      first |-> cursor.sample + (i - 1) * NSamples]]

Draw(n) ==
  /\ Wraps(n) => cursor.epoch < MaxEpochs
  /\ cursor' = [epoch  |-> IF Wraps(n) THEN cursor.epoch + 1 ELSE cursor.epoch,
                offset |-> Offset(n),
                group  |-> cursor.group + Len(Prompts(n)),
                sample |-> cursor.sample + Len(Prompts(n)) * NSamples]
  /\ samples' = IF Wraps(n) THEN Shuffled(cursor.epoch + 1) ELSE samples
  /\ shuffled' = IF Wraps(n) THEN cursor.epoch + 1 ELSE shuffled

\* pop_first
Reused(n) == SubSeq(buffer, 1, n)
Left_whole(n) == buffer
Left(n) == SubSeq(buffer, n + 1, Len(buffer))

\* get_samples: the buffer first, and only what is missing from the dataset.
GetSamples(n) ==
  LET k == IF n < Len(buffer) THEN n ELSE Len(buffer) IN
  /\ Len(out) + Len(buffer) + n - k <= MaxLive
  /\ buffer' = Left(k)
  /\ IF n = k
     THEN last' = Untouched /\ UNCHANGED <<cursor, samples, shuffled>>
     ELSE Draw(n - k) /\ last' = Groups(Prompts(n - k))
  /\ out' = out \o Reused(k) \o last'
  /\ UNCHANGED <<file, crashes>>

\* The rollout ends: add_samples gets the groups it did not use, in the order in
\* which their tasks came back.
Unused(pick) == [i \in DOMAIN pick |-> out[pick[i]]]

AddSamples ==
  /\ out # <<>>
  /\ \E n \in 0 .. Len(out) : \E pick \in Injection(1 .. n, 1 .. Len(out)) :
       buffer' = buffer \o Unused(pick)
  /\ out' = <<>>
  /\ UNCHANGED <<cursor, samples, shuffled, last, file, crashes>>

Save ==
  /\ out = <<>>
  /\ file' = {cursor}
  /\ UNCHANGED <<cursor, samples, shuffled, buffer, out, last, crashes>>

\* A crash, and the load of the resumed job; without a file it starts anew.
Restored_offsetOnly(state) == [Start EXCEPT !.offset = state.offset, !.group = state.group,
                                            !.sample = state.sample]
Restored(state) == state

Restart ==
  /\ crashes < MaxCrashes
  /\ crashes' = crashes + 1
  /\ cursor' = IF file = NoFile THEN Start ELSE Restored(CHOOSE state \in file : TRUE)
  /\ samples' = Order[cursor'.epoch] /\ shuffled' = cursor'.epoch
  /\ buffer' = <<>> /\ out' = <<>> /\ last' = Untouched
  /\ UNCHANGED file

Next == AddSamples \/ Save \/ Restart \/ \E n \in 1 .. MaxAsked : GetSamples(n)

Spec == Init /\ [][Next]_vars
-----------------------------------------------------------------------------
(* Properties *)

Live == out \o buffer

\* The groups of a job that are still somewhere have different numbers, and so
\* have their samples, however often they are recycled, and across restarts.
NumbersAreUnique ==
  \A i, j \in 1 .. Len(Live) : i # j =>
    /\ Live[i].place # Live[j].place
    /\ (Live[i].first + NSamples <= Live[j].first \/ Live[j].first + NSamples <= Live[i].first)

\* The dataset is drawn as one stream that a restart resumes where it was saved.
Handed == [i \in DOMAIN last |-> [place |-> last[i].place, prompt |-> last[i].prompt]]
Stream == INSTANCE PromptStream WITH
  next <- cursor.group,
  kept <- IF file = NoFile THEN 0 ELSE (CHOOSE state \in file : TRUE).group,
  handed <- Handed
StreamSpec == Stream!Spec
=============================================================================
