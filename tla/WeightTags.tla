----------------------------- MODULE WeightTags -----------------------------
(***************************************************************************)
(* The several sets of weights of one MegatronTrainRayActor: a single live *)
(* model is loaded, in turn, with the actor, the reference model and the   *)
(* actor the rollouts were made with, out of the backups of TensorBackuper.*)
(* Composed with TrainLoop, whose Load, Train and EndPush are init,        *)
(* train_actor and update_weights of this actor.                           *)
(*                                                                         *)
(* Weights are the number of rollouts they were trained on: 0 is the       *)
(* checkpoint of ref_load, from which a new job starts.                    *)
(***************************************************************************)
EXTENDS TrainLoop

\* The options of a job that this actor reads
WithRef      == job.withRef        \* kl_coef # 0 or use_kl_loss
KeepOldActor == job.keepOldActor   \* args.keep_old_actor
Colocate     == job.colocate       \* args.colocate, which implies offload_train
RefInterval  == job.refInterval    \* args.ref_update_interval, 0 for None

ASSUME TagsAssumption ==
  \A j \in Jobs :
    /\ j.withRef \in BOOLEAN /\ j.keepOldActor \in BOOLEAN /\ j.colocate \in BOOLEAN
    /\ j.colocate => j.script = "train"
    /\ j.refInterval \in Nat

Tags == {"actor", "ref", "old_actor", "rollout_actor"}

VARIABLES
  w,        \* [live, active, tags]: the model, its _active_model_tag, the backups
  engines,  \* weights of the rollout engines
  trained   \* per rollout trained on: the weights used for each purpose

tagVars == <<w, engines, trained>>
allVars == <<vars, tagVars>>

NoWeights == [live |-> None, active |-> "actor", tags |-> [t \in Tags |-> None]]
-----------------------------------------------------------------------------
(* TensorBackuper and load_other_checkpoint *)

Backup(x, tag) == [x EXCEPT !.tags[tag] = x.live]

Restore_untagged(x, tag) == [x EXCEPT !.active = tag]
Restore(x, tag) == [x EXCEPT !.live = x.tags[tag], !.active = tag]

\* copy goes over the parameters the destination already has.
Copy_swapped(x, src, dst) == [x EXCEPT !.tags[src] = x.tags[dst]]
Copy(x, src, dst) ==
  [x EXCEPT !.tags[dst] = IF x.tags[dst] = None THEN None ELSE x.tags[src]]

LoadOther(x, tag, version) ==
  Backup([x EXCEPT !.live = version, !.active = tag], tag)

Has(x, tag) == x.tags[tag] # None
-----------------------------------------------------------------------------
(* init *)

OneBehind == UpdateInterval = 1

AfterInit(version) ==
  LET x1 == Backup([NoWeights EXCEPT !.live = version], "actor")
      x2 == IF WithRef THEN LoadOther(x1, "ref", 0) ELSE x1
      x3 == IF KeepOldActor THEN LoadOther(x2, "old_actor", version) ELSE x2
      x4 == IF KeepOldActor /\ OneBehind THEN Backup(x3, "rollout_actor") ELSE x3
  IN IF Colocate THEN Restore(x4, "actor") ELSE x4

TagsLoad ==
  /\ Load
  /\ w' = AfterInit(Len(saved))
  /\ UNCHANGED <<engines, trained>>
-----------------------------------------------------------------------------
(* train_actor *)

\* The weights under which log_probs is computed, those that are trained on.
OldTag == IF KeepOldActor THEN "old_actor" ELSE "actor"
ForRef(x) == IF Has(x, "ref") THEN Restore(x, "ref") ELSE x
ForLogProbs(x) == Restore(ForRef(x), OldTag)
ForTraining_asLeft(x) == ForLogProbs(x)
ForTraining(x) ==
  IF ForLogProbs(x).active = "actor" THEN ForLogProbs(x)
                                     ELSE Restore(ForLogProbs(x), "actor")

RefUpdateDue_early == RefInterval # 0 /\ rollout % RefInterval = 0
RefUpdateDue == RefInterval # 0 /\ (rollout + 1) % RefInterval = 0

AfterTrain(x) ==
  LET stepped == [ForTraining(x) EXCEPT !.live = @ + 1]
      kept    == Backup(stepped, "actor")
  IN IF RefUpdateDue /\ Has(x, "ref") THEN Backup(kept, "ref") ELSE kept

TagsTrain ==
  /\ Train
  /\ w' = AfterTrain(w)
  /\ trained' = Append(trained, [from |-> ForTraining(w).live,
                                 logProbs |-> ForLogProbs(w).live,
                                 ref |-> ForRef(w).live])
  /\ UNCHANGED engines
-----------------------------------------------------------------------------
(* update_weights: UpdateWeightFromTensor sends the backup of the actor,      *)
(* UpdateWeightFromDistributed the live model.                                *)

Pushed == IF Colocate THEN w.tags["actor"] ELSE w.live

\* The queue actor -> rollout_actor -> old_actor moves by one place.
AfterPush(x) ==
  IF ~KeepOldActor THEN x
  ELSE IF OneBehind THEN Backup(Copy(x, "rollout_actor", "old_actor"), "rollout_actor")
  ELSE Backup(x, "old_actor")

TagsPush ==
  /\ EndPush
  /\ engines' = Pushed
  /\ w' = AfterPush(w)
  /\ UNCHANGED trained
-----------------------------------------------------------------------------
TagsCrash ==
  /\ Crash
  /\ w' = NoWeights /\ engines' = None /\ trained' = <<>>

Untagged ==
  /\ \/ BeginPush \/ Launch \/ FetchSync \/ Await \/ FetchAsync \/ SaveModel \/ Saved
     \/ Sync \/ Eval \/ NextRollout \/ Manager
  /\ UNCHANGED tagVars

TagsInit == Init /\ w = NoWeights /\ engines = None /\ trained = <<>>
TagsNext == TagsLoad \/ TagsTrain \/ TagsPush \/ TagsCrash \/ Untagged
TagsSpec == TagsInit /\ [][TagsNext]_allVars

\* Both processes run; calls of the manager end (a rollout returns).
DriverStep ==
  \/ TagsLoad \/ TagsTrain \/ TagsPush
  \/ /\ \/ BeginPush \/ Launch \/ FetchSync \/ Await \/ FetchAsync \/ SaveModel \/ Saved
        \/ Sync \/ Eval \/ NextRollout
     /\ UNCHANGED tagVars
ManagerStep == Manager /\ UNCHANGED tagVars
FairTagsSpec == TagsSpec /\ WF_allVars(DriverStep) /\ WF_allVars(ManagerStep)
-----------------------------------------------------------------------------
(* Properties *)

\* Rollouts are served by the actor as last trained and pushed: "always update
\* weight first so that sglang has the loaded weights from training" (train.py:32).
EnginesHoldTheActor == engines = served

\* So they are whenever no reference model is left in the live model by init.
UntouchedActorIsServed ==
  Colocate \/ ~WithRef \/ crashes = 0 => EnginesHoldTheActor

\* However often the model was switched, the gradient is taken from, and the
\* checkpoint written with, the actor's own weights.
TrainsTheActor ==
  /\ \A k \in 1 .. Len(trained) :
       trained[k].from = Len(model) - Len(trained) + k - 1
  /\ pc = "saveModel" => w.live = Len(model)

\* With keep_old_actor, log_probs is computed with the very weights the rollout
\* was generated with ("keep the rollout model on training process"), as long as
\* every rollout is followed by an update.
LogProbsOfTheRollout ==
  KeepOldActor /\ Async /\ OneBehind =>
    \A k \in 1 .. Len(trained) :
      model[Len(model) - Len(trained) + k].versions = {trained[k].logProbs}

\* The reference model is the actor of the last multiple of ref_update_interval,
\* until a restart, which goes back to ref_load.
RefIsTheLatest ==
  WithRef /\ crashes = 0 =>
    \A k \in 1 .. Len(trained) :
      trained[k].ref = IF RefInterval = 0 THEN 0 ELSE RefInterval * ((k - 1) \div RefInterval)
=============================================================================
