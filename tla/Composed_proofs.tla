-------------------------- MODULE Composed_proofs --------------------------
(***************************************************************************)
(* Proofs about what is composed with TrainLoop.                           *)
(*                                                                         *)
(* WeightTags: which weights are trained, kept as reference, used for      *)
(* log_probs and served, however often one live model is switched among    *)
(* them.                                                                   *)
(*                                                                         *)
(* EngineFleet: which servers the health monitor takes down, what fills    *)
(* their place, and with which weights the fleet serves, for any number of *)
(* engines and of nodes an engine, and for any faults.                     *)
(*                                                                         *)
(* A step of either is a step of TrainLoop or leaves it alone, so that     *)
(* what TrainLoop_proofs shows holds of both.                              *)
(***************************************************************************)
EXTENDS WeightTags, EngineFleet, TrainLoop_proofs, FiniteSetTheorems

(* WeightTags *)

Tagged == [live : Int, active : Tags, tags : [Tags -> Int]]
Use == [from : Int, logProbs : Int, ref : Int]

TagsTypeOK ==
  /\ w \in Tagged
  /\ engines \in Int
  /\ trained \in Seq(Use) /\ Len(trained) <= Len(model)

\* A job that never crashed started from ref_load.
NewJobInv ==
  crashes = 0 =>
    /\ pc = "load" => saved = <<>>
    /\ pc \in {"load", "firstPush"} => model = <<>>
    /\ Len(trained) = Len(model)

\* The backup of the actor is the actor; the live model is too, but for a
\* reference model that init left there, until the first training.
LeftByInit == trained = <<>> /\ WithRef /\ ~KeepOldActor /\ ~Colocate /\ w.live = 0
ActorInv ==
  /\ pc # "load" => w.tags["actor"] = Len(model) /\ (w.live = Len(model) \/ LeftByInit)
  /\ pc \in Trained \cup Settled => trained # <<>>
  /\ \A k \in 1 .. Len(trained) : trained[k].from = Len(model) - Len(trained) + k - 1

RefVersion(n) == IF RefInterval = 0 THEN 0 ELSE RefInterval * (n \div RefInterval)
RefInv ==
  WithRef /\ crashes = 0 =>
    /\ pc # "load" => w.tags["ref"] = RefVersion(Len(model))
    /\ \A k \in 1 .. Len(trained) : trained[k].ref = RefVersion(k - 1)

\* The rollout that is trained next was generated with old_actor; the data that
\* is generated meanwhile, with rollout_actor.
OldActor == w.tags["old_actor"]
Early == KeepOldActor /\ Async /\ OneBehind
Made(r, v) == results[r].versions = {v}
OldInv ==
  Early =>
    /\ pc # "load" =>
         /\ OldActor \in Nat
         /\ w.tags["rollout_actor"] = (IF pc = "firstPush" THEN Len(model) ELSE served)
    /\ pc \in {"firstPush", "launch"} => OldActor = Len(model)
    /\ pc = "fetch" => IF Ready(rollout) THEN Made(rollout, OldActor) ELSE served = OldActor
    /\ pc = "train" => Made(rollout, OldActor)
    /\ pc \in {"train"} \cup Trained /\ results[rollout + 1] # NoData =>
         Made(rollout + 1, served)
    /\ pc \in Settled =>
         /\ future = None
         /\ rollout + 1 < NumRollouts => Ready(rollout + 1) /\ Made(rollout + 1, OldActor)
    /\ \A k \in 1 .. Len(trained) :
         model[Len(model) - Len(trained) + k].versions = {trained[k].logProbs}

TagsInv ==
  /\ LoopInv
  /\ TagsTypeOK /\ NewJobInv /\ ActorInv /\ RefInv /\ OldInv /\ UntouchedActorIsServed
-----------------------------------------------------------------------------
(* What the operations on the backups do *)

LEMMA Backups ==
  ASSUME NEW x \in Tagged, NEW tag \in Tags
  PROVE  /\ Backup(x, tag) \in Tagged /\ Backup(x, tag).live = x.live
         /\ Backup(x, tag).active = x.active /\ Backup(x, tag).tags[tag] = x.live
         /\ \A t \in Tags : t # tag => Backup(x, tag).tags[t] = x.tags[t]
BY DEF Backup, Tagged

LEMMA Restores ==
  ASSUME NEW x \in Tagged, NEW tag \in Tags
  PROVE  /\ Restore(x, tag) \in Tagged /\ Restore(x, tag).live = x.tags[tag]
         /\ Restore(x, tag).active = tag /\ Restore(x, tag).tags = x.tags
BY DEF Restore, Tagged

LEMMA Copies ==
  ASSUME NEW x \in Tagged, NEW src \in Tags, NEW dst \in Tags
  PROVE  /\ Copy(x, src, dst) \in Tagged /\ Copy(x, src, dst).live = x.live
         /\ Copy(x, src, dst).tags[dst] = IF x.tags[dst] = None THEN None ELSE x.tags[src]
         /\ \A t \in Tags : t # dst => Copy(x, src, dst).tags[t] = x.tags[t]
BY DEF Copy, Tagged, None

LEMMA OtherLoaded ==
  ASSUME NEW x \in Tagged, NEW tag \in Tags, NEW v \in Int
  PROVE  /\ LoadOther(x, tag, v) \in Tagged /\ LoadOther(x, tag, v).live = v
         /\ LoadOther(x, tag, v).tags[tag] = v
         /\ \A t \in Tags : t # tag => LoadOther(x, tag, v).tags[t] = x.tags[t]
<1> DEFINE y == [x EXCEPT !.live = v, !.active = tag]
<1>1. y \in Tagged /\ y.live = v /\ y.tags = x.tags
  BY DEF Tagged
<1>2. LoadOther(x, tag, v) = Backup(y, tag)
  BY DEF LoadOther
<1> HIDE DEF y
<1>3. QED
  BY <1>1, <1>2, Backups

LEMMA FourTags == {"actor", "ref", "old_actor", "rollout_actor"} = Tags
BY DEF Tags

LEMMA InitialWeights ==
  ASSUME NEW v \in Nat, NEW y, y = AfterInit(v)
  PROVE  /\ y \in Tagged /\ y.tags["actor"] = v
         /\ WithRef => y.tags["ref"] = 0
         /\ KeepOldActor => y.tags["old_actor"] = v
         /\ KeepOldActor /\ OneBehind => y.tags["rollout_actor"] = v
         /\ y.live = v \/ (WithRef /\ ~KeepOldActor /\ ~Colocate /\ y.live = 0)
<1> DEFINE x0 == [NoWeights EXCEPT !.live = v]
           x1 == Backup(x0, "actor")
           x2 == IF WithRef THEN LoadOther(x1, "ref", 0) ELSE x1
           x3 == IF KeepOldActor THEN LoadOther(x2, "old_actor", v) ELSE x2
           x4 == IF KeepOldActor /\ OneBehind THEN Backup(x3, "rollout_actor") ELSE x3
<1>0. x0 \in Tagged /\ x0.live = v
  BY DEF NoWeights, Tagged, Tags, None
<1>1. y = IF Colocate THEN Restore(x4, "actor") ELSE x4
  BY DEF AfterInit
<1> HIDE DEF x0
<1>2. x1 \in Tagged /\ x1.live = v /\ x1.tags["actor"] = v
  BY <1>0, Backups, FourTags
<1> HIDE DEF x1
<1>3. /\ x2 \in Tagged /\ x2.tags["actor"] = v
      /\ WithRef => x2.tags["ref"] = 0
      /\ x2.live = v \/ (WithRef /\ x2.live = 0)
  <2> DEFINE z == LoadOther(x1, "ref", 0)
  <2>1. z \in Tagged /\ z.live = 0 /\ z.tags["ref"] = 0 /\ z.tags["actor"] = v
    BY <1>2, OtherLoaded, FourTags
  <2>2. x2 = IF WithRef THEN z ELSE x1
    OBVIOUS
  <2> HIDE DEF z, x2
  <2>3. QED
    BY <1>2, <2>1, <2>2
<1> HIDE DEF x2
<1>4. /\ x3 \in Tagged /\ x3.tags["actor"] = v
      /\ WithRef => x3.tags["ref"] = 0
      /\ KeepOldActor => x3.tags["old_actor"] = v
      /\ x3.live = v \/ (WithRef /\ ~KeepOldActor /\ x3.live = 0)
  <2> DEFINE z == LoadOther(x2, "old_actor", v)
  <2>1. /\ z \in Tagged /\ z.live = v /\ z.tags["old_actor"] = v
        /\ z.tags["actor"] = v /\ z.tags["ref"] = x2.tags["ref"]
    <3>1. x2 \in Tagged /\ x2.tags["actor"] = v
      BY <1>3
    <3> HIDE DEF x2
    <3>2. /\ z \in Tagged /\ z.live = v /\ z.tags["old_actor"] = v
          /\ \A t \in Tags : t # "old_actor" => z.tags[t] = x2.tags[t]
      <4>1. v \in Int /\ "old_actor" \in Tags
        BY FourTags
      <4>2. QED
        BY <3>1, <4>1, OtherLoaded
    <3>3. QED
      BY <3>1, <3>2, FourTags
  <2>2. x3 = IF KeepOldActor THEN z ELSE x2
    OBVIOUS
  <2> HIDE DEF z, x3
  <2>3. QED
    BY <1>3, <2>1, <2>2
<1> HIDE DEF x3
<1>5. /\ x4 \in Tagged /\ x4.tags["actor"] = v
      /\ WithRef => x4.tags["ref"] = 0
      /\ KeepOldActor => x4.tags["old_actor"] = v
      /\ KeepOldActor /\ OneBehind => x4.tags["rollout_actor"] = v
      /\ x4.live = v \/ (WithRef /\ ~KeepOldActor /\ x4.live = 0)
  BY <1>4, Backups, FourTags
<1> HIDE DEF x4
<1>6. QED
  BY <1>1, <1>5, Restores, FourTags

\* However it was left, the model is trained as the actor.
LEMMA TrainedWeights ==
  ASSUME NEW x \in Tagged, NEW y, y = AfterTrain(x)
  PROVE  /\ ForTraining(x).live = x.tags["actor"]
         /\ ForLogProbs(x).live = x.tags[OldTag] /\ x.tags[OldTag] \in Int
         /\ Has(x, "ref") => ForRef(x).live = x.tags["ref"]
         /\ ForRef(x).live \in Int
         /\ y \in Tagged /\ y.live = x.tags["actor"] + 1 /\ y.tags["actor"] = x.tags["actor"] + 1
         /\ y.tags["ref"] = IF RefUpdateDue /\ Has(x, "ref") THEN x.tags["actor"] + 1 ELSE x.tags["ref"]
         /\ y.tags["old_actor"] = x.tags["old_actor"]
         /\ y.tags["rollout_actor"] = x.tags["rollout_actor"]
<1>0. OldTag \in Tags
  BY FourTags DEF OldTag
<1>1. /\ ForRef(x) \in Tagged /\ ForRef(x).tags = x.tags /\ (Has(x, "ref") => ForRef(x).live = x.tags["ref"])
  BY Restores, FourTags DEF ForRef
<1>2. /\ ForLogProbs(x) \in Tagged /\ ForLogProbs(x).tags = x.tags
      /\ ForLogProbs(x).live = x.tags[OldTag] /\ ForLogProbs(x).active = OldTag
  BY <1>0, <1>1, Restores DEF ForLogProbs
<1>3. /\ ForTraining(x) \in Tagged /\ ForTraining(x).tags = x.tags /\ ForTraining(x).live = x.tags["actor"]
  BY <1>2, Restores, FourTags DEF ForTraining
<1> DEFINE stepped == [ForTraining(x) EXCEPT !.live = @ + 1]
           kept    == Backup(stepped, "actor")
<1>4. y = IF RefUpdateDue /\ Has(x, "ref") THEN Backup(kept, "ref") ELSE kept
  BY DEF AfterTrain
<1>5. stepped \in Tagged /\ stepped.live = x.tags["actor"] + 1 /\ stepped.tags = x.tags
  BY <1>3 DEF Tagged
<1> HIDE DEF stepped
<1>6. /\ kept \in Tagged /\ kept.live = x.tags["actor"] + 1 /\ kept.tags["actor"] = x.tags["actor"] + 1
      /\ \A t \in Tags : t # "actor" => kept.tags[t] = x.tags[t]
  BY <1>5, Backups, FourTags
<1> HIDE DEF kept
<1>7. /\ y \in Tagged /\ y.live = x.tags["actor"] + 1 /\ y.tags["actor"] = x.tags["actor"] + 1
      /\ y.tags["ref"] = IF RefUpdateDue /\ Has(x, "ref") THEN x.tags["actor"] + 1 ELSE x.tags["ref"]
      /\ y.tags["old_actor"] = x.tags["old_actor"]
      /\ y.tags["rollout_actor"] = x.tags["rollout_actor"]
  <2> DEFINE z == Backup(kept, "ref")
  <2>1. /\ z \in Tagged /\ z.live = x.tags["actor"] + 1 /\ z.tags["ref"] = x.tags["actor"] + 1
        /\ \A t \in Tags : t # "ref" => z.tags[t] = kept.tags[t]
    BY <1>6, Backups, FourTags
  <2>2. y = IF RefUpdateDue /\ Has(x, "ref") THEN z ELSE kept
    BY <1>4
  <2> HIDE DEF z
  <2>3. CASE RefUpdateDue /\ Has(x, "ref")
    BY <1>6, <2>1, <2>2, <2>3, FourTags
  <2>4. CASE ~(RefUpdateDue /\ Has(x, "ref"))
    BY <1>6, <2>2, <2>4, FourTags
  <2>5. QED
    BY <2>3, <2>4
<1>8. x.tags[OldTag] \in Int /\ ForRef(x).live \in Int
  BY <1>0, <1>1 DEF Tagged
<1>9. QED
  BY <1>1, <1>2, <1>3, <1>7, <1>8

LEMMA PushedWeights ==
  ASSUME NEW x \in Tagged, NEW y, y = AfterPush(x)
  PROVE  /\ y \in Tagged /\ y.live = x.live
         /\ y.tags["actor"] = x.tags["actor"] /\ y.tags["ref"] = x.tags["ref"]
         /\ KeepOldActor /\ OneBehind =>
              /\ y.tags["rollout_actor"] = x.live
              /\ x.tags["old_actor"] # None => y.tags["old_actor"] = x.tags["rollout_actor"]
<1>1. CASE ~KeepOldActor
  BY <1>1 DEF AfterPush
<1>2. CASE KeepOldActor /\ OneBehind
  <2> DEFINE z == Copy(x, "rollout_actor", "old_actor")
  <2>1. /\ z \in Tagged /\ z.live = x.live
        /\ z.tags["old_actor"] = IF x.tags["old_actor"] = None THEN None ELSE x.tags["rollout_actor"]
        /\ \A t \in Tags : t # "old_actor" => z.tags[t] = x.tags[t]
    BY Copies, FourTags
  <2>2. y = Backup(z, "rollout_actor")
    BY <1>2 DEF AfterPush
  <2> HIDE DEF z
  <2>3. QED
    BY <2>1, <2>2, Backups, FourTags, SMTT(30)
<1>3. CASE KeepOldActor /\ ~OneBehind
  BY <1>3, Backups, FourTags DEF AfterPush
<1>4. QED
  BY <1>1, <1>2, <1>3
-----------------------------------------------------------------------------
(* The jobs with tags are jobs of TrainLoop. *)

LEMMA TagsStepIsStep == [TagsNext]_allVars => [Next]_vars
BY DEF TagsNext, TagsLoad, TagsTrain, TagsPush, TagsCrash, Untagged, Next, Driver, allVars

LEMMA LoopUnderTags == LoopInv /\ [TagsNext]_allVars => LoopInv'
BY TagsStepIsStep, LoopStep

\* Every behaviour with tags is one of the driver, the manager and the files.
THEOREM TagsRefineLoop == TagsSpec => Spec
<1>1. TagsInit => Init
  BY DEF TagsInit
<1>2. [TagsNext]_allVars => [Next]_vars
  BY TagsStepIsStep
<1>3. QED
  BY <1>1, <1>2, PTL DEF TagsSpec, Spec
-----------------------------------------------------------------------------
(* The reference model *)

LEMMA NextMultiple ==
  ASSUME NEW n \in Nat, NEW u \in Nat \ {0}
  PROVE  /\ (n + 1) % u = 0 => u * ((n + 1) \div u) = n + 1
         /\ (n + 1) % u # 0 => u * ((n + 1) \div u) = u * (n \div u)
<1> DEFINE p == n \div u
           r == n % u
           q == (n + 1) \div u
           s == (n + 1) % u
<1>1. n = u * p + r /\ r \in 0 .. u - 1 /\ p \in Nat
  BY Division
<1>2. n + 1 = u * q + s /\ s \in 0 .. u - 1 /\ q \in Nat
  BY Division, n + 1 \in Nat
<1>3. s # 0 => s = r + 1
  BY NextRemainder
<1> HIDE DEF p, q, r, s
<1>4. u * p \in Int /\ u * q \in Int
  BY <1>1, <1>2
<1>5. (s = 0 => u * q = n + 1) /\ (s # 0 => u * q = u * p)
  BY <1>1, <1>2, <1>3, <1>4
<1>6. QED
  BY <1>5 DEF p, q, s

LEMMA NoneTrained == job \in Jobs => RefVersion(0) = 0
<1> SUFFICES ASSUME job \in Jobs, RefInterval # 0
             PROVE  RefInterval * (0 \div RefInterval) = 0
  BY DEF RefVersion
<1>1. RefInterval \in Nat \ {0}
  BY TagsAssumption DEF RefInterval
<1>2. \A u \in Nat \ {0} : u * (0 \div u) = 0
  <2> TAKE u \in Nat \ {0}
  <2>1. 0 = u * (0 \div u) + (0 % u) /\ 0 % u \in 0 .. u - 1 /\ 0 \div u \in Nat
    BY Division, 0 \in Nat
  <2>2. \A d \in Nat : u * d \in Nat
    OBVIOUS
  <2>3. QED
    BY <2>1, <2>2
<1>3. QED
  BY <1>1, <1>2

\* An update of the weights is due after every rollout.
LEMMA DueEachTime == ASSUME OneBehind, NEW r \in Nat PROVE (r + 1) % UpdateInterval = 0
<1>1. (r + 1) % 1 \in 0 .. 1 - 1
  BY Remainder, 1 \in Nat \ {0}, r + 1 \in Nat
<1>2. QED
  BY <1>1 DEF OneBehind
-----------------------------------------------------------------------------
(* Every step keeps the invariant. *)

LEMMA TagsInitInv == TagsInit => TagsInv
<1> SUFFICES ASSUME TagsInit
             PROVE  TagsInv
  OBVIOUS
<1>1. LoopInv
  BY LoopInit DEF TagsInit
<1>2. TagsTypeOK
  BY DEF TagsInit, Init, TagsTypeOK, Tagged, NoWeights, Tags, None
<1>3. NewJobInv /\ ActorInv /\ UntouchedActorIsServed
  BY DEF TagsInit, Init, NewJobInv, ActorInv, Trained, Settled, UntouchedActorIsServed, EnginesHoldTheActor
<1>4. RefInv /\ OldInv
  BY DEF TagsInit, Init, RefInv, OldInv, Trained, Settled
<1>5. QED
  BY <1>1, <1>2, <1>3, <1>4 DEF TagsInv

LEMMA TagsLoadKeeps == TagsInv /\ TagsLoad => TagsInv'
<1> SUFFICES ASSUME TagsInv, TagsLoad
             PROVE  TagsInv'
  OBVIOUS
<1>0. /\ pc = "load" /\ pc' = "firstPush" /\ model' = saved /\ Len(saved) \in Nat /\ model = <<>>
      /\ w' = AfterInit(Len(saved)) /\ trained = <<>> /\ trained' = <<>>
      /\ UNCHANGED <<job, crashes, saved, served, engines>>
  <2>1. model = <<>> /\ Len(saved) \in Nat
    BY DEF TagsInv, LoopInv, TypeOK, ModelInv, TagsLoad, Load
  <2>2. trained = <<>>
    BY <2>1 DEF TagsInv, TagsTypeOK
  <2>3. QED
    BY <2>1, <2>2 DEF TagsLoad, Load, diskVars
<1>1. LoopInv'
  BY LoopUnderTags DEF TagsInv, TagsNext
<1>2. /\ w' \in Tagged /\ w'.tags["actor"] = Len(model')
      /\ (WithRef => w'.tags["ref"] = 0) /\ (KeepOldActor => w'.tags["old_actor"] = Len(model'))
      /\ (KeepOldActor /\ OneBehind => w'.tags["rollout_actor"] = Len(model'))
      /\ (w'.live = Len(model') \/ (WithRef /\ ~KeepOldActor /\ ~Colocate /\ w'.live = 0))
  BY <1>0, InitialWeights
<1>3. TagsTypeOK'
  BY <1>0, <1>2 DEF TagsInv, TagsTypeOK
<1>4. NewJobInv'
  BY <1>0 DEF TagsInv, NewJobInv
<1>5. ActorInv'
  <2>1. w'.live = Len(model') \/ LeftByInit'
    BY <1>0, <1>2 DEF LeftByInit, WithRef, KeepOldActor, Colocate
  <2>2. QED
    BY <1>0, <1>2, <2>1 DEF ActorInv, Trained, Settled
<1>6. RefInv'
  <2>1. crashes = 0 => Len(model') = 0
    BY <1>0 DEF TagsInv, NewJobInv
  <2>2. RefVersion(0)' = RefVersion(0) /\ RefVersion(0) = 0
    BY <1>0, NoneTrained DEF RefVersion, RefInterval, TagsInv, LoopInv, TypeOK
  <2>3. QED
    BY <1>0, <1>2, <2>1, <2>2 DEF RefInv, RefVersion, RefInterval, WithRef
<1>7. OldInv'
  BY <1>0, <1>2 DEF OldInv, Early, OldActor, KeepOldActor, Async, OneBehind, UpdateInterval, Trained, Settled
<1>8. UntouchedActorIsServed'
  BY <1>0 DEF TagsInv, UntouchedActorIsServed, EnginesHoldTheActor, Colocate, WithRef
<1>9. QED
  BY <1>1, <1>3, <1>4, <1>5, <1>6, <1>7, <1>8 DEF TagsInv

LEMMA TagsTrainKeeps == TagsInv /\ TagsTrain => TagsInv'
<1> SUFFICES ASSUME TagsInv, TagsTrain
             PROVE  TagsInv'
  OBVIOUS
<1> DEFINE n   == Len(model)
           t   == Len(trained)
           use == [from |-> ForTraining(w).live, logProbs |-> ForLogProbs(w).live, ref |-> ForRef(w).live]
<1>0. /\ pc = "train" /\ pc' \in Trained \cup Settled /\ pc' # "load" /\ pc' # "firstPush"
      /\ rollout = n /\ n \in Nat /\ t \in Nat /\ t <= n /\ n < NumRollouts
      /\ model \in Seq(Step) /\ current = rollout /\ job \in Jobs
      /\ UNCHANGED <<job, crashes, rollout, future, results, served, engines>>
  BY DEF TagsInv, LoopInv, TypeOK, ModelInv, DriverInv, Before, Trained, Settled, Outside, Rollouts, TagsTypeOK,
     TagsTrain, Train, AfterSave, managerVars, diskVars
<1>1. LoopInv'
  BY LoopUnderTags DEF TagsInv, TagsNext
<1>2. /\ Len(model') = n + 1 /\ model'[n + 1].versions = results[rollout].versions
      /\ \A k \in 1 .. n : model'[k] = model[k]
  <2>1. PICK step : model' = Append(model, step) /\ step.versions = results[current].versions
    BY DEF TagsTrain, Train
  <2>2. QED
    BY <1>0, <2>1
<1>3. /\ w.tags["actor"] = n /\ w.tags["actor"] \in Int /\ w \in Tagged /\ w' = AfterTrain(w)
      /\ trained' = Append(trained, use)
  BY <1>0 DEF TagsInv, ActorInv, TagsTypeOK, TagsTrain
<1>4. /\ use.from = n /\ use.logProbs = w.tags[OldTag] /\ use.logProbs \in Int /\ use.ref \in Int
      /\ Has(w, "ref") => use.ref = w.tags["ref"]
      /\ w' \in Tagged /\ w'.live = n + 1 /\ w'.tags["actor"] = n + 1
      /\ w'.tags["ref"] = IF RefUpdateDue /\ Has(w, "ref") THEN n + 1 ELSE w.tags["ref"]
      /\ w'.tags["old_actor"] = OldActor
      /\ w'.tags["rollout_actor"] = w.tags["rollout_actor"]
  BY <1>3, TrainedWeights DEF OldActor
<1>5. use \in Use
  BY <1>0, <1>4 DEF Use
<1> HIDE DEF use
<1>6. /\ trained' \in Seq(Use) /\ Len(trained') = t + 1 /\ trained'[t + 1] = use
      /\ \A k \in 1 .. t : trained'[k] = trained[k]
  BY <1>3, <1>5 DEF TagsInv, TagsTypeOK
<1>7. \A k \in 1 .. t + 1 : k \in 1 .. t \/ k = t + 1
  BY <1>0
<1>8. TagsTypeOK'
  BY <1>0, <1>2, <1>4, <1>6 DEF TagsInv, TagsTypeOK
<1>9. NewJobInv'
  BY <1>0, <1>2, <1>6 DEF TagsInv, NewJobInv
<1>10. ActorInv'
  <2>1. \A k \in 1 .. t + 1 : trained'[k].from = (n + 1) - (t + 1) + k - 1
    <3> TAKE k \in 1 .. t + 1
    <3>1. CASE k = t + 1
      BY <1>0, <1>4, <1>6, <3>1
    <3>2. CASE k \in 1 .. t
      <4>1. trained[k].from = n - t + k - 1
        BY <3>2 DEF TagsInv, ActorInv
      <4>2. QED
        BY <1>0, <1>6, <3>2, <4>1
    <3>3. QED
      BY <1>7, <3>1, <3>2
  <2>2. trained' # <<>>
    BY <1>0, <1>6
  <2>3. QED
    BY <1>0, <1>2, <1>4, <1>6, <2>1, <2>2 DEF ActorInv
<1>11. RefInv'
  <2> SUFFICES ASSUME WithRef, crashes = 0
               PROVE  /\ w'.tags["ref"] = RefVersion(n + 1)
                      /\ \A k \in 1 .. t + 1 : trained'[k].ref = RefVersion(k - 1)
    BY <1>0, <1>2, <1>6 DEF RefInv, RefVersion, RefInterval, WithRef
  <2>1. t = n /\ w.tags["ref"] = RefVersion(n)
    BY <1>0 DEF TagsInv, NewJobInv, RefInv
  <2>2. RefInterval \in Nat /\ RefVersion(n) \in Nat
    <3>1. RefInterval \in Nat
      BY <1>0, TagsAssumption DEF RefInterval
    <3>2. RefInterval # 0 => n \div RefInterval \in Nat
      BY <1>0, <3>1, Division
    <3>3. QED
      BY <3>1, <3>2 DEF RefVersion
  <2>3. Has(w, "ref")
    BY <2>1, <2>2 DEF Has, None
  <2>4. w'.tags["ref"] = RefVersion(n + 1)
    <3>1. CASE RefInterval = 0
      BY <1>4, <2>1, <3>1 DEF RefUpdateDue, RefVersion
    <3>2. CASE RefInterval # 0 /\ (n + 1) % RefInterval = 0
      <4>1. RefInterval * ((n + 1) \div RefInterval) = n + 1
        BY <1>0, <2>2, <3>2, NextMultiple
      <4>2. RefUpdateDue
        BY <1>0, <3>2 DEF RefUpdateDue
      <4>3. QED
        BY <1>4, <2>3, <3>2, <4>1, <4>2 DEF RefVersion
    <3>3. CASE RefInterval # 0 /\ (n + 1) % RefInterval # 0
      <4>1. RefInterval * ((n + 1) \div RefInterval) = RefInterval * (n \div RefInterval)
        BY <1>0, <2>2, <3>3, NextMultiple
      <4>2. ~RefUpdateDue
        BY <1>0, <3>3 DEF RefUpdateDue
      <4>3. QED
        BY <1>4, <2>1, <3>3, <4>1, <4>2 DEF RefVersion
    <3>4. QED
      BY <3>1, <3>2, <3>3
  <2>5. \A k \in 1 .. t + 1 : trained'[k].ref = RefVersion(k - 1)
    <3> TAKE k \in 1 .. t + 1
    <3>1. CASE k = t + 1
      <4>1. k - 1 = n
        BY <1>0, <2>1, <3>1
      <4>2. trained'[k].ref = RefVersion(n)
        BY <1>4, <1>6, <2>1, <2>3, <3>1
      <4>3. QED
        BY <4>1, <4>2
    <3>2. CASE k \in 1 .. t
      BY <1>6, <3>2 DEF TagsInv, RefInv
    <3>3. QED
      BY <1>7, <3>1, <3>2
  <2>6. QED
    BY <2>4, <2>5
<1>12. OldInv'
  <2> SUFFICES ASSUME Early
               PROVE  OldInv'
    BY <1>0 DEF OldInv, Early, KeepOldActor, Async, OneBehind, UpdateInterval
  <2>1. /\ OldActor \in Nat /\ w.tags["rollout_actor"] = served /\ Made(rollout, OldActor)
        /\ (results[rollout + 1] # NoData => Made(rollout + 1, served))
    BY <1>0 DEF TagsInv, OldInv
  <2>2. pc' \in {"saveModel", "sync"}
    <3>1. UpdateDue
      BY <1>0, DueEachTime DEF Early, UpdateDue
    <3>2. QED
      BY <3>1 DEF Early, TagsTrain, Train, AfterSave
  <2>3. use.logProbs = OldActor
    BY <1>4 DEF Early, OldTag, OldActor
  <2>4. \A k \in 1 .. t + 1 : model'[(n + 1) - (t + 1) + k].versions = {trained'[k].logProbs}
    <3> TAKE k \in 1 .. t + 1
    <3>1. CASE k = t + 1
      <4>1. (n + 1) - (t + 1) + k = n + 1
        BY <1>0, <3>1
      <4>2. model'[n + 1].versions = {OldActor}
        BY <1>2, <2>1 DEF Made
      <4>3. QED
        BY <1>6, <2>3, <3>1, <4>1, <4>2
    <3>2. CASE k \in 1 .. t
      <4>1. (n + 1) - (t + 1) + k = n - t + k /\ n - t + k \in 1 .. n
        BY <1>0, <3>2
      <4>2. model[n - t + k].versions = {trained[k].logProbs}
        BY <3>2 DEF TagsInv, OldInv
      <4>3. QED
        BY <1>2, <1>6, <3>2, <4>1, <4>2
    <3>3. QED
      BY <1>7, <3>1, <3>2
  <2>5. OldActor' = OldActor /\ w'.tags["rollout_actor"] = served
    BY <1>4, <2>1 DEF OldActor
  <2>6. results[rollout + 1] # NoData => Made(rollout + 1, served)'
    BY <1>0, <2>1 DEF Made
  <2>7. QED
    BY <1>0, <1>2, <1>6, <2>1, <2>2, <2>4, <2>5, <2>6 DEF OldInv, Settled
<1>13. UntouchedActorIsServed'
  BY <1>0 DEF TagsInv, UntouchedActorIsServed, EnginesHoldTheActor, Colocate, WithRef
<1>14. QED
  BY <1>1, <1>8, <1>9, <1>10, <1>11, <1>12, <1>13 DEF TagsInv

LEMMA TagsPushKeeps == TagsInv /\ TagsPush => TagsInv'
<1> SUFFICES ASSUME TagsInv, TagsPush
             PROVE  TagsInv'
  OBVIOUS
<1>0. /\ pc \in {"firstPush", "push"} /\ Len(model) \in Nat
      /\ pc' = IF pc = "push" THEN "eval" ELSE IF Async THEN "launch" ELSE Top
      /\ served' = Len(model) /\ engines' = Pushed /\ w \in Tagged /\ w' = AfterPush(w)
      /\ UNCHANGED <<job, crashes, rollout, future, current, results, model, saved, trained>>
  BY DEF TagsInv, LoopInv, TypeOK, PushInv, TagsTypeOK, TagsPush, EndPush, managerVars, diskVars
<1>1. LoopInv'
  BY LoopUnderTags DEF TagsInv, TagsNext
<1>2. /\ w' \in Tagged /\ w'.live = w.live
      /\ w'.tags["actor"] = w.tags["actor"] /\ w'.tags["ref"] = w.tags["ref"]
      /\ (KeepOldActor /\ OneBehind) =>
           /\ w'.tags["rollout_actor"] = w.live
           /\ OldActor # None => w'.tags["old_actor"] = w.tags["rollout_actor"]
  BY <1>0, PushedWeights DEF OldActor
<1>3. /\ w.tags["actor"] = Len(model) /\ (w.live = Len(model) \/ LeftByInit)
      /\ pc = "push" => trained # <<>>
  BY <1>0 DEF TagsInv, ActorInv, Trained
<1>4. pc' \in {"eval", "launch", "fetch", "done"} /\ (pc' = "eval" <=> pc = "push")
  BY <1>0 DEF Top
<1>5. TagsTypeOK'
  <2>1. engines' \in Int
    BY <1>0 DEF Pushed, Tagged, Tags
  <2>2. QED
    BY <1>0, <1>2, <2>1 DEF TagsInv, TagsTypeOK
<1>6. NewJobInv'
  BY <1>0, <1>4 DEF TagsInv, NewJobInv
<1>7. ActorInv'
  <2>1. LeftByInit => LeftByInit'
    BY <1>0, <1>2 DEF LeftByInit, WithRef, KeepOldActor, Colocate
  <2>2. QED
    BY <1>0, <1>2, <1>3, <1>4, <2>1 DEF TagsInv, ActorInv, Trained, Settled
<1>8. RefInv'
  BY <1>0, <1>2, <1>4 DEF TagsInv, RefInv, RefVersion, RefInterval, WithRef
<1>9. OldInv'
  <2> SUFFICES ASSUME Early
               PROVE  OldInv'
    BY <1>0 DEF OldInv, Early, KeepOldActor, Async, OneBehind, UpdateInterval
  <2>1. /\ OldActor \in Nat
        /\ w.tags["rollout_actor"] = (IF pc = "firstPush" THEN Len(model) ELSE served)
    BY <1>0 DEF TagsInv, OldInv
  <2>2. w.live = Len(model)
    BY <1>3 DEF LeftByInit, Early
  <2>3. w'.tags["rollout_actor"] = served' /\ OldActor' = w.tags["rollout_actor"] /\ OldActor' \in Int
    BY <1>0, <1>2, <2>1, <2>2 DEF Early, OldActor, None, Tagged, Tags
  <2>4. \A k \in 1 .. Len(trained') :
          model'[Len(model') - Len(trained') + k].versions = {trained'[k].logProbs}
    BY <1>0 DEF TagsInv, OldInv
  <2>5. CASE pc = "firstPush"
    <3>1. pc' = "launch" /\ OldActor' = Len(model')
      BY <1>0, <2>1, <2>3, <2>5 DEF Early
    <3>2. QED
      BY <1>0, <2>3, <2>4, <3>1 DEF OldInv, Trained, Settled
  <2>6. CASE pc = "push"
    <3>1. /\ pc' = "eval" /\ OldActor' = served /\ served \in Nat /\ future = None
          /\ rollout + 1 < NumRollouts => Ready(rollout + 1)
      BY <1>0, <2>1, <2>3, <2>6 DEF Early, TagsInv, LoopInv, PushInv, DriverInv, Covered, TypeOK, Rollouts, None
    <3>2. rollout + 1 < NumRollouts => Made(rollout + 1, served)
      BY <2>6, <3>1 DEF TagsInv, OldInv, Trained, Ready
    <3>3. rollout' + 1 < NumRollouts => Ready(rollout + 1)' /\ Made(rollout + 1, OldActor)'
      BY <1>0, <3>1, <3>2 DEF Ready, Made
    <3>4. QED
      BY <1>0, <2>3, <2>4, <3>1, <3>3 DEF OldInv, Trained
  <2>7. QED
    BY <1>0, <2>5, <2>6
<1>10. UntouchedActorIsServed'
  <2> SUFFICES ASSUME Colocate \/ ~WithRef \/ crashes = 0
               PROVE  engines' = served'
    BY <1>0 DEF UntouchedActorIsServed, EnginesHoldTheActor, Colocate, WithRef
  <2>1. CASE Colocate
    BY <1>0, <1>3, <2>1 DEF Pushed
  <2>2. CASE ~Colocate /\ ~LeftByInit
    BY <1>0, <1>3, <2>2 DEF Pushed
  <2>3. CASE ~Colocate /\ LeftByInit
    <3>1. crashes = 0 /\ pc = "firstPush" /\ w.live = 0
      BY <1>0, <1>3, <2>3 DEF LeftByInit
    <3>2. Len(model) = 0
      BY <3>1 DEF TagsInv, NewJobInv
    <3>3. QED
      BY <1>0, <2>3, <3>1, <3>2 DEF Pushed
  <2>4. QED
    BY <2>1, <2>2, <2>3
<1>11. QED
  BY <1>1, <1>5, <1>6, <1>7, <1>8, <1>9, <1>10 DEF TagsInv

LEMMA TagsCrashKeeps == TagsInv /\ TagsCrash => TagsInv'
<1> SUFFICES ASSUME TagsInv, TagsCrash
             PROVE  TagsInv'
  OBVIOUS
<1>0. /\ pc' = "load" /\ model' = <<>> /\ w' = NoWeights /\ engines' = None /\ served' = None
      /\ trained' = <<>> /\ crashes \in Nat /\ crashes' = crashes + 1
  BY DEF TagsInv, LoopInv, TypeOK, TagsCrash, Crash
<1>1. LoopInv'
  BY LoopUnderTags DEF TagsInv, TagsNext
<1>2. TagsTypeOK'
  BY <1>0 DEF TagsTypeOK, Tagged, NoWeights, Tags, None
<1>3. NewJobInv' /\ ActorInv'
  BY <1>0 DEF NewJobInv, ActorInv, Trained, Settled
<1>4. RefInv' /\ OldInv' /\ UntouchedActorIsServed'
  BY <1>0 DEF RefInv, OldInv, Trained, Settled, UntouchedActorIsServed, EnginesHoldTheActor
<1>5. QED
  BY <1>1, <1>2, <1>3, <1>4 DEF TagsInv

\* Steps that switch no weights may still bring the data old_actor belongs to.
LEMMA OldInvKept ==
  ASSUME TagsInv, Untagged
  PROVE  OldInv'
<1>0. /\ UNCHANGED <<job, model, served, w, trained>> /\ job \in Jobs /\ rollout \in Nat /\ rollout \in Rollouts
      /\ pc # "load" /\ pc' # "load"
  <2>1. UNCHANGED <<w, trained>> /\ job \in Jobs /\ rollout \in Nat /\ rollout \in Rollouts
    BY DEF Untagged, tagVars, TagsInv, LoopInv, TypeOK, Rollouts
  <2>2. ASSUME BeginPush \/ Launch \/ FetchSync \/ Await \/ FetchAsync \/ SaveModel
        PROVE  UNCHANGED <<job, model, served>> /\ pc # "load" /\ pc' # "load"
    BY <2>2 DEF BeginPush, Launch, Top, FetchSync, Await, FetchAsync, SaveModel, managerVars, diskVars
  <2>3. ASSUME Saved \/ Sync \/ Eval \/ NextRollout
        PROVE  UNCHANGED <<job, model, served>> /\ pc # "load" /\ pc' # "load"
    BY <2>3 DEF Saved, AfterSave, Sync, Eval, NextRollout, managerVars, diskVars
  <2>4. ASSUME Manager
        PROVE  UNCHANGED <<job, model, served>> /\ pc # "load" /\ pc' # "load"
    <3>1. UNCHANGED <<job, model, served, pc>> /\ calls # <<>>
      BY <2>4 DEF Manager, BeginCall, EndGenerate, EndEval, SaveData, driverVars, TagsInv, LoopInv, PushInv
    <3>2. QED
      BY <3>1 DEF TagsInv, LoopInv, CallsInv
  <2>5. QED
    BY <2>1, <2>2, <2>3, <2>4 DEF Untagged
<1> SUFFICES ASSUME Early
             PROVE  OldInv'
  BY <1>0 DEF OldInv, Early, KeepOldActor, Async, OneBehind, UpdateInterval
<1>1. /\ OldActor' = OldActor /\ OldActor \in Nat /\ Async
      /\ w.tags["rollout_actor"] = (IF pc = "firstPush" THEN Len(model) ELSE served)
      /\ \A k \in 1 .. Len(trained') :
           model'[Len(model') - Len(trained') + k].versions = {trained'[k].logProbs}
  BY <1>0 DEF TagsInv, OldInv, OldActor, Early
<1>2. ASSUME BeginPush
      PROVE  OldInv'
  BY <1>0, <1>1, <1>2 DEF BeginPush, managerVars, TagsInv, OldInv, Made, Ready, Trained, Settled
<1>3. ASSUME Launch
      PROVE  OldInv'
  <2>1. /\ pc = "launch" /\ pc' \in {"fetch", "done"} /\ UNCHANGED <<rollout, results>>
        /\ OldActor = Len(model) /\ served = rollout /\ Len(model) = rollout /\ ~Ready(rollout)
    BY <1>3, <1>0 DEF Launch, Top, TagsInv, OldInv, Early, LoopInv, EnginesInv, ModelInv, ResultsInv, Reach, Ready, None
  <2>2. QED
    BY <1>0, <1>1, <2>1 DEF OldInv, Ready, Trained, Settled
<1>4. ASSUME FetchAsync
      PROVE  OldInv'
  <2>1. /\ pc = "fetch" /\ pc' = "train" /\ UNCHANGED <<rollout, results>> /\ rollout < NumRollouts
    BY <1>4 DEF FetchAsync, TagsInv, LoopInv, TypeOK, Outside
  <2>2. Ready(rollout)
    BY <1>4, <2>1, <1>0 DEF FetchAsync, TakeNext, TagsInv, LoopInv, DriverInv, Covered, None, Rollouts
  <2>3. results[rollout + 1] = NoData
    BY <2>1, <1>0, <1>1, TrainAssumption DEF TagsInv, LoopInv, ResultsInv, Reach, Rollouts
  <2>4. Made(rollout, OldActor)
    BY <2>1, <2>2 DEF TagsInv, OldInv
  <2>5. QED
    BY <1>0, <1>1, <2>1, <2>3, <2>4 DEF OldInv, Made, Trained, Settled
<1>5. ASSUME SaveModel \/ Saved \/ Sync
      PROVE  OldInv'
  <2>1. UNCHANGED <<rollout, results>> /\ pc \in {"saveModel", "saveData", "sync"} /\ pc' \in {"saveData", "sync", "push"}
    <3>1. UpdateDue
      BY <1>0, DueEachTime DEF Early, UpdateDue
    <3>2. QED
      BY <1>1, <1>5, <3>1 DEF SaveModel, Saved, AfterSave, Sync, managerVars
  <2>2. results[rollout + 1] # NoData => Made(rollout + 1, served)
    BY <2>1 DEF TagsInv, OldInv, Trained
  <2>3. QED
    BY <1>0, <1>1, <2>1, <2>2 DEF OldInv, Made, Trained, Settled
<1>6. ASSUME Eval
      PROVE  OldInv'
  <2>1. UNCHANGED <<rollout, results, future>> /\ pc = "eval" /\ pc' \in {"evalWait", "next"}
    BY <1>6 DEF Eval
  <2>2. /\ future = None
        /\ rollout + 1 < NumRollouts => Ready(rollout + 1) /\ Made(rollout + 1, OldActor)
    BY <2>1 DEF TagsInv, OldInv, Settled
  <2>3. QED
    BY <1>0, <1>1, <2>1, <2>2 DEF OldInv, Made, Ready, Trained, Settled
<1>7. ASSUME NextRollout
      PROVE  OldInv'
  <2>1. /\ UNCHANGED results /\ pc \in {"evalWait", "next"} /\ rollout' = rollout + 1
        /\ pc' = IF rollout + 1 < NumRollouts THEN "fetch" ELSE "done"
    BY <1>7 DEF NextRollout, managerVars
  <2>2. rollout + 1 < NumRollouts => Ready(rollout + 1) /\ Made(rollout + 1, OldActor)
    BY <2>1 DEF TagsInv, OldInv, Settled
  <2>3. pc' = "fetch" => Ready(rollout)' /\ Made(rollout, OldActor)'
    BY <1>1, <2>1, <2>2 DEF Ready, Made
  <2>4. QED
    BY <1>0, <1>1, <2>1, <2>3 DEF OldInv, Trained, Settled
<1>8. ASSUME BeginCall \/ EndEval \/ SaveData
      PROVE  OldInv'
  BY <1>0, <1>1, <1>8 DEF BeginCall, EndEval, SaveData, driverVars, TagsInv, OldInv, Made, Ready, Trained, Settled
<1>9. ASSUME EndGenerate
      PROVE  OldInv'
  <2> DEFINE r == Head(calls).id
  <2>1. /\ r \in Rollouts /\ results[r] = NoData /\ UNCHANGED <<pc, rollout, future>> /\ serving = served
        /\ r = future /\ future # None
    <3>1. r \in Rollouts /\ results[r] = NoData
      BY <1>9, NewData DEF TagsInv
    <3>2. /\ UNCHANGED <<pc, rollout, future>> /\ serving = served /\ calls # <<>> /\ pc # "await"
          /\ Head(calls).op = "generate"
      BY <1>9, <1>1 DEF EndGenerate, driverVars, TagsInv, LoopInv, PushInv, DriverInv
    <3>3. \A q : Gen(q).id = q /\ Evl(q).op # "generate" /\ Sav(q).op # "generate"
      BY DEF Gen, Evl, Sav
    <3>4. Head(calls) = Gen(future) /\ future \in Rollouts
      BY <3>2, <3>3, FirstCall, Queue DEF TagsInv
    <3>5. QED
      BY <3>1, <3>2, <3>3, <3>4 DEF Rollouts, None
  <2> HIDE DEF r
  <2>2. /\ results'[r] # NoData /\ results'[r].versions = {served}
        /\ \A q \in Rollouts : q # r => results'[q] = results[q]
    <3>1. PICK b \in Nat : results' = [results EXCEPT ![r] = [batch |-> b, versions |-> {serving, served}]]
      BY <1>9, Drawn DEF TagsInv, LoopInv, TypeOK, r
    <3>2. [batch |-> b, versions |-> {serving, served}] # NoData
      BY DEF NoData, None
    <3>3. QED
      BY <2>1, <3>1, <3>2 DEF TagsInv, LoopInv, TypeOK
  <2>3. pc \notin Settled
    BY <2>1 DEF TagsInv, OldInv
  <2>4. pc \notin {"firstPush", "launch"}
    BY <2>1 DEF TagsInv, LoopInv, DriverInv
  <2>5. pc = "fetch" => IF Ready(rollout)' THEN Made(rollout, OldActor)' ELSE served = OldActor
    BY <1>0, <1>1, <2>1, <2>2 DEF TagsInv, OldInv, Ready, Made
  <2>6. pc = "train" => Made(rollout, OldActor)'
    <3>1. pc = "train" => Made(rollout, OldActor) /\ r # rollout
      BY <2>1 DEF TagsInv, OldInv, LoopInv, DriverInv, Ready
    <3>2. QED
      BY <1>0, <1>1, <2>1, <2>2, <3>1 DEF Made
  <2>7. pc \in {"train"} \cup Trained /\ results'[rollout + 1] # NoData => Made(rollout + 1, served)'
    <3>1. pc \in {"train"} \cup Trained => rollout + 1 \in Rollouts
      BY <1>0, TrainAssumption DEF TagsInv, LoopInv, TypeOK, Trained, Outside, Rollouts
    <3>2. CASE r = rollout + 1
      BY <1>0, <2>1, <2>2, <3>2 DEF Made
    <3>3. CASE r # rollout + 1
      BY <1>0, <2>1, <2>2, <3>1, <3>3 DEF TagsInv, OldInv, Made
    <3>4. QED
      BY <3>2, <3>3
  <2>8. QED
    BY <1>0, <1>1, <2>1, <2>3, <2>4, <2>5, <2>6, <2>7 DEF OldInv
<1>10. ~FetchSync /\ ~Await
  BY <1>1 DEF FetchSync, Await, TagsInv, LoopInv, DriverInv
<1>11. QED
  BY <1>2, <1>3, <1>4, <1>5, <1>6, <1>7, <1>8, <1>9, <1>10 DEF Untagged, Manager

LEMMA UntaggedKeeps == TagsInv /\ Untagged => TagsInv'
<1> SUFFICES ASSUME TagsInv, Untagged
             PROVE  TagsInv'
  OBVIOUS
<1>0. /\ UNCHANGED <<job, crashes, model, served, w, engines, trained>> /\ pc # "load" /\ pc' # "load"
      /\ (pc' = "firstPush" => pc = "firstPush")
      /\ (pc' \in Trained \cup Settled => pc \in Trained \cup Settled)
  BY DEF Untagged, tagVars, TagsInv, LoopInv, TypeOK, PushInv, CallsInv, Rollouts, BeginPush, Launch, Top, FetchSync,
     Await, FetchAsync, SaveModel, Saved, AfterSave, Sync, Eval, NextRollout, Manager, BeginCall, EndGenerate,
     EndEval, SaveData, driverVars, managerVars, diskVars, Trained, Settled
<1>1. LoopInv'
  BY LoopUnderTags DEF TagsInv, TagsNext
<1>2. TagsTypeOK' /\ NewJobInv'
  BY <1>0 DEF TagsInv, TagsTypeOK, NewJobInv
<1>3. ActorInv'
  BY <1>0 DEF TagsInv, ActorInv, LeftByInit, WithRef, KeepOldActor, Colocate
<1>4. RefInv' /\ UntouchedActorIsServed'
  BY <1>0 DEF TagsInv, RefInv, RefVersion, RefInterval, WithRef, UntouchedActorIsServed, EnginesHoldTheActor, Colocate
<1>5. OldInv'
  BY OldInvKept
<1>6. QED
  BY <1>1, <1>2, <1>3, <1>4, <1>5 DEF TagsInv

LEMMA TagsStutter == TagsInv /\ UNCHANGED allVars => TagsInv'
<1> SUFFICES ASSUME TagsInv, UNCHANGED allVars
             PROVE  TagsInv'
  OBVIOUS
<1>0. UNCHANGED <<job, pc, rollout, future, results, model, saved, served, crashes, w, engines, trained>>
  BY DEF allVars, vars, driverVars, managerVars, diskVars, tagVars
<1>1. LoopInv'
  BY LoopUnderTags DEF TagsInv
<1>2. TagsTypeOK' /\ NewJobInv'
  BY <1>0 DEF TagsInv, TagsTypeOK, NewJobInv
<1>3. ActorInv'
  BY <1>0 DEF TagsInv, ActorInv, LeftByInit, WithRef, KeepOldActor, Colocate
<1>4. RefInv' /\ UntouchedActorIsServed'
  BY <1>0 DEF TagsInv, RefInv, RefVersion, RefInterval, WithRef, UntouchedActorIsServed, EnginesHoldTheActor, Colocate
<1>5. OldInv'
  BY <1>0 DEF TagsInv, OldInv, Early, OldActor, Made, Ready, KeepOldActor, Async, OneBehind, UpdateInterval
<1>6. QED
  BY <1>1, <1>2, <1>3, <1>4, <1>5 DEF TagsInv

\* Every reachable state satisfies the inductive invariant.
THEOREM TagsAreKept == TagsSpec => []TagsInv
<1>1. TagsInit => TagsInv
  BY TagsInitInv
<1>2. TagsInv /\ [TagsNext]_allVars => TagsInv'
  BY TagsLoadKeeps, TagsTrainKeeps, TagsPushKeeps, TagsCrashKeeps, UntaggedKeeps, TagsStutter DEF TagsNext
<1>3. QED
  BY <1>1, <1>2, PTL DEF TagsSpec
-----------------------------------------------------------------------------
(* What every job with tags does *)

\* The gradient is taken from, and the checkpoint written with, the actor's own
\* weights, whichever model the live one was switched to before.
THEOREM ActorIsTrained == TagsSpec => []TrainsTheActor
<1>1. TagsInv => TrainsTheActor
  <2> SUFFICES ASSUME TagsInv
               PROVE  TrainsTheActor
    OBVIOUS
  <2>1. pc = "saveModel" => w.live = Len(model)
    BY DEF TagsInv, ActorInv, LeftByInit, Trained
  <2>2. QED
    BY <2>1 DEF TagsInv, ActorInv, TrainsTheActor
<1>2. QED
  BY <1>1, TagsAreKept, PTL

\* Unless a restart leaves the reference model in the live one, the engines
\* hold the actor as it was last pushed.
THEOREM ActorIsServed == TagsSpec => []UntouchedActorIsServed
<1>1. TagsInv => UntouchedActorIsServed
  BY DEF TagsInv
<1>2. QED
  BY <1>1, TagsAreKept, PTL

\* The reference model follows the actor every ref_update_interval rollouts.
THEOREM RefIsRenewed == TagsSpec => []RefIsTheLatest
<1>1. TagsInv => RefIsTheLatest
  BY DEF TagsInv, RefInv, RefVersion, RefIsTheLatest
<1>2. QED
  BY <1>1, TagsAreKept, PTL

\* In the asynchronous loop with an update after every rollout, old_actor holds
\* the weights that generated the rollout being trained on.
THEOREM OldActorMadeIt == TagsSpec => []LogProbsOfTheRollout
<1>1. TagsInv => LogProbsOfTheRollout
  BY DEF TagsInv, OldInv, Early, LogProbsOfTheRollout
<1>2. QED
  BY <1>1, TagsAreKept, PTL
-----------------------------------------------------------------------------
(* EngineFleet *)

ThreadStates ==
  [at : {"off", "wait", "scan", "probe", "kill", "shut"}, engine : Engines,
   seen : [Engines -> Nat], slot : Slots, victim : Nat]

FleetTypeOK ==
  /\ phase \in {"out", "open", "joining", "closed"}
  /\ table \in [Slots -> Nat] /\ born \in [Slots -> Nat \ {0}]
  /\ sick \subseteq Slots \X Nat /\ gone \subseteq Slots \X Nat
  /\ numNew \in Nat
  /\ linked \in [Engines -> Nat] /\ weights \in [Engines -> Int]
  /\ thread \in [Threads -> ThreadStates]

\* A thread runs only from start to the end of stop, and then it is the monitor's.
AloneInv ==
  /\ \A t \in Threads : thread[t].at # "off" => t = mine /\ phase \in {"open", "joining"}
  /\ phase \in {"open", "joining"} => mine \in Threads

\* generate is the call being served.
CallInv == phase # "out" => serving # None /\ Head(calls).op = "generate"

\* The nodes of an engine are started together, and the newest is the one that lives.
BirthInv ==
  /\ \A s \in Slots : table[s] = 0 \/ table[s] = born[s]
  /\ \A e \in Engines : \A s \in SlotsOf(e) : born[s] = born[Node0(e)]

\* What is gone was sick, and is in the table no more.
GoneInv ==
  \A e \in Engines : \A s \in SlotsOf(e) : \A n \in Nat :
    <<s, n>> \in gone =>
      n \in 1 .. born[s] /\ n # table[s] /\ <<Node0(e), n>> \in sick

Killing(e) == \E t \in Threads : thread[t].at \in {"kill", "shut"} /\ thread[t].engine = e

\* Unless the thread is at it, all nodes of an engine live or none.
TogetherInv ==
  \A e \in Engines : ~Killing(e) => \A s \in SlotsOf(e) : table[s] = table[Node0(e)]

\* Its snapshot is true of the engines that a sweep has still to visit; the one
\* it takes down did not answer.
Sweep(th) ==
  /\ th.at \in {"scan", "probe"} =>
       \A e \in Engines : e >= th.engine => th.seen[e] = table[Node0(e)]
  /\ th.at = "probe" => th.seen[th.engine] # 0
  /\ th.at \in {"kill", "shut"} =>
       /\ \A e \in Engines : e > th.engine => th.seen[e] = table[Node0(e)]
       /\ th.seen[th.engine] # 0
       /\ <<Node0(th.engine), th.seen[th.engine]>> \in sick
       /\ th.slot \in SlotsOf(th.engine)
       /\ \A s \in SlotsOf(th.engine) :
            table[s] = IF s < th.slot THEN 0 ELSE th.seen[th.engine]
  /\ th.at = "shut" => th.victim = th.seen[th.engine]
SweepInv == \A t \in Threads : Sweep(thread[t])

FullInv == phase \in {"out", "closed"} => \A s \in Slots : table[s] # 0

MonitorInv ==
  /\ FleetTypeOK /\ AloneInv /\ CallInv /\ BirthInv
  /\ GoneInv /\ TogetherInv /\ SweepInv /\ FullInv
-----------------------------------------------------------------------------
(* The synchronous script, where an update falls between any two rollouts *)

Linked == \A e \in Engines : linked[e] = table[Node0(e)]
Current == \A e \in Engines : weights[e] = served

\* After a rollout, and until the updater has looked at the table.
Unlinked == pc \in {"load", "firstPush", "train", "saveModel", "saveData", "push"}

SyncInv ==
  /\ Unlinked \/ phase = "closed" \/ (pc = "await" /\ calls = <<>>) => numNew > 0 \/ Linked
  /\ pushing => Linked
  /\ phase = "out" /\ (pc \in {"fetch", "eval", "evalWait", "next"} \/ (pc = "await" /\ calls # <<>>)) =>
       Linked /\ Current
  /\ phase \in {"open", "joining"} =>
       Current /\ \A e \in Engines : table[Node0(e)] # 0 => linked[e] = table[Node0(e)]
  /\ failed => \E e \in Engines : <<Node0(e), table[Node0(e)]>> \in sick
-----------------------------------------------------------------------------
(* Where the nodes of an engine are *)

LEMMA Layout ==
  /\ 0 \in Slots /\ 0 \in Engines /\ NumEngines \in Nat \ {0}
  /\ Engines \subseteq Nat /\ Slots \subseteq Nat
  /\ \A e \in Engines :
       /\ Node0(e) \in SlotsOf(e) /\ Node0(e) \in Slots /\ SlotsOf(e) \subseteq Slots
       /\ \A s \in SlotsOf(e) : s >= Node0(e) /\ s \in Nat
<1>1. NodesPerEngine \in Nat \ {0} /\ NumEngines \in Nat \ {0}
  BY FleetAssumption
<1>2. \A a \in Nat : a * NodesPerEngine \in Nat
  BY <1>1
<1>3. \A a \in Nat \ {0} : a * NodesPerEngine - 1 \in Nat
  BY <1>1
<1>4. ASSUME NEW e \in Engines
      PROVE  /\ Node0(e) \in Nat /\ Node0(e) + NodesPerEngine <= NumEngines * NodesPerEngine
  <2>1. e \in Nat /\ NumEngines - 1 - e \in Nat
    BY <1>1 DEF Engines
  <2>2. NumEngines * NodesPerEngine
          = (e * NodesPerEngine) + NodesPerEngine + ((NumEngines - 1 - e) * NodesPerEngine)
    BY <1>1, <2>1
  <2>3. (NumEngines - 1 - e) * NodesPerEngine \in Nat /\ e * NodesPerEngine \in Nat
    BY <1>2, <2>1
  <2>4. QED
    BY <1>1, <2>2, <2>3 DEF Node0
<1>5. NumEngines * NodesPerEngine \in Nat /\ NumEngines * NodesPerEngine - 1 \in Nat
  BY <1>1, <1>2, <1>3
<1> HIDE DEF Node0
<1>6. ASSUME NEW e \in Engines
      PROVE  /\ Node0(e) \in SlotsOf(e) /\ Node0(e) \in Slots /\ SlotsOf(e) \subseteq Slots
             /\ \A s \in SlotsOf(e) : s >= Node0(e) /\ s \in Nat
  BY <1>1, <1>4, <1>5 DEF SlotsOf, Slots
<1>7. 0 \in Slots /\ 0 \in Engines /\ Engines \subseteq Nat /\ Slots \subseteq Nat
  BY <1>1, <1>5 DEF Slots, Engines
<1>8. QED
  BY <1>1, <1>6, <1>7

\* No slot belongs to two engines.
LEMMA OneEngine ==
  ASSUME NEW e \in Engines, NEW f \in Engines, NEW s \in SlotsOf(e), s \in SlotsOf(f)
  PROVE  e = f
<1>1. NodesPerEngine \in Nat \ {0} /\ e \in Int /\ f \in Int
  BY FleetAssumption DEF Engines
<1>2. /\ e * NodesPerEngine \in Int /\ f * NodesPerEngine \in Int
      /\ e * NodesPerEngine = NodesPerEngine * e /\ f * NodesPerEngine = NodesPerEngine * f
  BY <1>1
<1> DEFINE i == s - Node0(e)
           j == s - Node0(f)
<1>3. s \in Int /\ i \in 0 .. NodesPerEngine - 1 /\ j \in 0 .. NodesPerEngine - 1
  BY <1>1, <1>2 DEF SlotsOf, Node0
<1>4. (NodesPerEngine * e) + i = (NodesPerEngine * f) + j
  BY <1>1, <1>2, <1>3 DEF Node0
<1> HIDE DEF i, j
<1>5. QED
  BY <1>1, <1>3, <1>4, DivisionUnique

LEMMA NextSlot ==
  ASSUME NEW e \in Engines, NEW s \in SlotsOf(e)
  PROVE  /\ s + 1 \in SlotsOf(e) => \A q \in SlotsOf(e) : q < s + 1 <=> (q < s \/ q = s)
         /\ s + 1 \notin SlotsOf(e) => \A q \in SlotsOf(e) : q < s \/ q = s
<1>1. NodesPerEngine \in Nat \ {0} /\ Node0(e) \in Nat
  BY FleetAssumption DEF Engines, Node0
<1>2. QED
  BY <1>1 DEF SlotsOf
-----------------------------------------------------------------------------
(* The thread *)

LEMMA Field ==
  ASSUME NEW r \in ThreadStates
  PROVE  /\ r.at \in {"off", "wait", "scan", "probe", "kill", "shut"} /\ r.engine \in Engines
         /\ r.engine \in Nat /\ r.seen \in [Engines -> Nat] /\ r.slot \in Slots /\ r.victim \in Nat
BY Layout DEF ThreadStates

\* The next engine of the sweep, if there is one.
LEMMA Advancing ==
  ASSUME NEW r \in ThreadStates
  PROVE  /\ Advance(r) \in ThreadStates
         /\ Advance(r).at \in {"wait", "scan"} /\ Advance(r).seen = r.seen
         /\ Advance(r).at = "scan" =>
              Advance(r).engine = r.engine + 1 /\ Advance(r).engine \in Engines
<1> DEFINE at == IF r.engine + 1 = NumEngines THEN "wait" ELSE "scan"
           engine == (r.engine + 1) % NumEngines
<1>1. r.engine \in 0 .. NumEngines - 1 /\ NumEngines \in Nat \ {0}
  BY Field, Layout DEF Engines
<1>2. engine \in 0 .. NumEngines - 1 /\ (r.engine + 1 # NumEngines => engine = r.engine + 1)
  BY <1>1
<1>3. at \in {"wait", "scan"} /\ (at = "scan" => r.engine + 1 # NumEngines)
  OBVIOUS
<1> HIDE DEF at, engine
<1>4. [r EXCEPT !.at = at, !.engine = engine] \in ThreadStates
  BY <1>2, <1>3 DEF ThreadStates, Engines
<1>5. /\ [r EXCEPT !.at = at, !.engine = engine].at = at
      /\ [r EXCEPT !.at = at, !.engine = engine].engine = engine
      /\ [r EXCEPT !.at = at, !.engine = engine].seen = r.seen
  BY DEF ThreadStates
<1>6. Advance(r) = [r EXCEPT !.at = at, !.engine = engine]
  BY DEF Advance, at, engine
<1>7. QED
  BY <1>2, <1>3, <1>4, <1>5, <1>6 DEF Engines

LEMMA Asleep == Resting \in ThreadStates /\ Resting.at = "off"
BY Layout DEF Resting, ThreadStates

\* What a step of the thread has to see to, when it leaves the table alone.
LEMMA ThreadKeeps ==
  ASSUME MonitorInv, NEW t \in Threads, thread[t].at # "off",
         NEW th \in ThreadStates, thread' = [thread EXCEPT ![t] = th],
         MonitorFrame, UNCHANGED <<table, gone>>, Sweep(th),
         thread[t].at \in {"kill", "shut"} => th.at \in {"kill", "shut"} /\ th.engine = thread[t].engine
  PROVE  MonitorInv'
<1>0. /\ UNCHANGED <<table, gone, vars, born, sick, numNew, phase, linked, weights, mine, event, failed>>
      /\ thread \in [Threads -> ThreadStates]
  BY DEF MonitorFrame, managerSide, MonitorInv, FleetTypeOK
<1>1. /\ thread' \in [Threads -> ThreadStates] /\ thread'[t] = th
      /\ \A u \in Threads : u # t => thread'[u] = thread[u]
  BY <1>0
<1>2. FleetTypeOK'
  BY <1>0, <1>1 DEF MonitorInv, FleetTypeOK
<1>3. AloneInv'
  BY <1>0, <1>1 DEF MonitorInv, AloneInv
<1>4. CallInv'
  BY <1>0 DEF MonitorInv, CallInv, vars, managerVars
<1>5. BirthInv' /\ FullInv'
  BY <1>0 DEF MonitorInv, BirthInv, FullInv
<1>6. GoneInv'
  BY <1>0 DEF MonitorInv, GoneInv
<1>7. TogetherInv'
  <2>1. \A e \in Engines : Killing(e) => Killing(e)'
    BY <1>1 DEF Killing
  <2>2. QED
    BY <1>0, <2>1 DEF MonitorInv, TogetherInv
<1>8. SweepInv'
  <2>1. \A r : Sweep(r) => (Sweep(r))'
    BY <1>0 DEF Sweep
  <2>2. QED
    BY <1>0, <1>1 DEF MonitorInv, SweepInv, Sweep
<1>9. QED
  BY <1>2, <1>3, <1>4, <1>5, <1>6, <1>7, <1>8 DEF MonitorInv

LEMMA WaitKeeps ==
  ASSUME MonitorInv, NEW t \in Threads, Wait(t)
  PROVE  MonitorInv'
<1> DEFINE sweeping == [thread[t] EXCEPT !.at = "scan", !.engine = 0, !.seen = Heads]
           th == IF event = "clear" THEN sweeping ELSE Resting
<1>0. thread[t] \in ThreadStates /\ thread[t].at = "wait"
  BY DEF MonitorInv, FleetTypeOK, Wait
<1>1. Heads \in [Engines -> Nat] /\ \A e \in Engines : Heads[e] = table[Node0(e)]
  BY Layout DEF Heads, MonitorInv, FleetTypeOK
<1>2. /\ sweeping \in ThreadStates
      /\ sweeping.at = "scan" /\ sweeping.engine = 0 /\ sweeping.seen = Heads
  BY <1>0, <1>1, Layout DEF ThreadStates
<1>3. thread' = [thread EXCEPT ![t] = th] /\ MonitorFrame /\ UNCHANGED <<table, gone>>
  BY DEF Wait
<1> HIDE DEF sweeping
<1>4. th \in ThreadStates /\ th.at \notin {"probe", "kill", "shut"}
  BY <1>2, Asleep
<1>5. Sweep(th)
  BY <1>1, <1>2, <1>4, Asleep DEF Sweep
<1> HIDE DEF th
<1>6. QED
  BY <1>0, <1>3, <1>4, <1>5, ThreadKeeps

LEMMA ScanKeeps ==
  ASSUME MonitorInv, NEW t \in Threads, Scan(t)
  PROVE  MonitorInv'
<1> DEFINE off == [thread[t] EXCEPT !.at = "wait", !.engine = 0]
           probing == [thread[t] EXCEPT !.at = "probe"]
           th == IF event = "set" THEN off
                 ELSE IF thread[t].seen[thread[t].engine] = 0 THEN Advance(thread[t])
                 ELSE probing
<1>0. /\ thread[t] \in ThreadStates /\ thread[t].at = "scan"
      /\ \A e \in Engines : e >= thread[t].engine => thread[t].seen[e] = table[Node0(e)]
  BY DEF MonitorInv, FleetTypeOK, Scan, SweepInv, Sweep
<1>1. off \in ThreadStates /\ off.at = "wait"
  BY <1>0, Layout DEF ThreadStates
<1>2. /\ probing \in ThreadStates /\ probing.at = "probe"
      /\ probing.seen = thread[t].seen /\ probing.engine = thread[t].engine
  BY <1>0 DEF ThreadStates
<1>3. thread' = [thread EXCEPT ![t] = th] /\ MonitorFrame /\ UNCHANGED <<table, gone>>
  BY DEF Scan
<1> HIDE DEF off, probing
<1>4. CASE event = "set"
  BY <1>0, <1>1, <1>3, <1>4, ThreadKeeps DEF Sweep
<1>5. CASE event # "set" /\ thread[t].seen[thread[t].engine] = 0
  <2>1. \A e \in Engines : e >= thread[t].engine + 1 => e >= thread[t].engine
    BY <1>0, Field, Layout
  <2>2. Advance(thread[t]) \in ThreadStates /\ Sweep(Advance(thread[t]))
    BY <1>0, <2>1, Advancing DEF Sweep
  <2>3. thread' = [thread EXCEPT ![t] = Advance(thread[t])]
    BY <1>3, <1>5
  <2>4. QED
    BY <1>0, <1>3, <2>2, <2>3, ThreadKeeps
<1>6. CASE event # "set" /\ thread[t].seen[thread[t].engine] # 0
  <2>1. Sweep(probing)
    BY <1>0, <1>2, <1>6 DEF Sweep
  <2>2. thread' = [thread EXCEPT ![t] = probing]
    BY <1>3, <1>6
  <2>3. QED
    BY <1>0, <1>2, <1>3, <2>1, <2>2, ThreadKeeps
<1>7. QED
  BY <1>4, <1>5, <1>6

LEMMA ProbeKeeps ==
  ASSUME MonitorInv, NEW t \in Threads, Probe(t)
  PROVE  MonitorInv'
<1> DEFINE e == thread[t].engine
           killing == [thread[t] EXCEPT !.at = "kill", !.slot = Node0(e)]
<1>0. /\ thread[t] \in ThreadStates /\ thread[t].at = "probe" /\ e \in Engines
      /\ \A f \in Engines : f >= e => thread[t].seen[f] = table[Node0(f)]
      /\ thread[t].seen[e] # 0 /\ MonitorFrame /\ UNCHANGED <<table, gone>>
  BY Field DEF MonitorInv, FleetTypeOK, Probe, SweepInv, Sweep
<1>1. Node0(e) \in Slots /\ Node0(e) \in SlotsOf(e) /\ \A s \in SlotsOf(e) : s >= Node0(e)
  BY <1>0, Layout
<1>2. /\ killing \in ThreadStates /\ killing.at = "kill" /\ killing.slot = Node0(e)
      /\ killing.engine = e /\ killing.seen = thread[t].seen
  BY <1>0, <1>1 DEF ThreadStates
<1>3. thread' = [thread EXCEPT ![t] = IF Answers(e, thread[t].seen[e]) THEN Advance(thread[t])
                                      ELSE killing]
  BY DEF Probe
<1>4. e \in Nat /\ \A f \in Engines : f \in Nat
  BY <1>0, Layout
<1>5. \A f \in Engines : (f >= e + 1 => f >= e) /\ (f > e => f >= e) /\ e >= e
  BY <1>4
<1> HIDE DEF e, killing
<1>6. CASE Answers(e, thread[t].seen[e])
  <2>1. Advance(thread[t]) \in ThreadStates /\ Sweep(Advance(thread[t]))
    BY <1>0, <1>5, Advancing DEF Sweep, e
  <2>2. thread' = [thread EXCEPT ![t] = Advance(thread[t])]
    BY <1>3, <1>6
  <2>3. QED
    BY <1>0, <2>1, <2>2, ThreadKeeps
<1>7. CASE ~Answers(e, thread[t].seen[e])
  <2>1. thread[t].at \in {"probe"} /\ ~Killing(e)
    <3>1. \A u \in Threads : thread[u].at # "off" => u = mine
      BY DEF MonitorInv, AloneInv
    <3>2. QED
      BY <1>0, <3>1 DEF Killing
  <2>2. \A s \in SlotsOf(e) : table[s] = thread[t].seen[e]
    <3>1. \A s \in SlotsOf(e) : table[s] = table[Node0(e)]
      BY <1>0, <2>1 DEF MonitorInv, TogetherInv
    <3>2. QED
      BY <1>0, <1>5, <3>1
  <2>3. <<Node0(e), thread[t].seen[e]>> \in sick
    <3>1. <<Node0(e), thread[t].seen[e]>> \in sick \cup gone
      BY <1>0, <1>7 DEF Answers
    <3>2. thread[t].seen[e] \in Nat /\ thread[t].seen[e] = table[Node0(e)]
      BY <1>0, <1>5, Field
    <3>3. <<Node0(e), thread[t].seen[e]>> \notin gone
      BY <1>0, <1>1, <3>2 DEF MonitorInv, GoneInv
    <3>4. QED
      BY <3>1, <3>3
  <2>4. \A s \in SlotsOf(e) : ~(s < Node0(e))
    BY <1>0, <1>1, Layout
  <2>5. Sweep(killing)
    BY <1>0, <1>1, <1>2, <1>5, <2>2, <2>3, <2>4 DEF Sweep
  <2>6. thread' = [thread EXCEPT ![t] = killing]
    BY <1>3, <1>7
  <2>7. QED
    BY <1>0, <1>2, <2>5, <2>6, ThreadKeeps
<1>8. QED
  BY <1>6, <1>7

LEMMA KillKeeps ==
  ASSUME MonitorInv, NEW t \in Threads, Kill(t)
  PROVE  MonitorInv'
<1> DEFINE th == [thread[t] EXCEPT !.at = "shut", !.victim = table[thread[t].slot]]
<1>0. /\ thread[t] \in ThreadStates /\ thread[t].at = "kill" /\ thread[t].slot \in Slots
      /\ table[thread[t].slot] \in Nat /\ Sweep(thread[t]) /\ thread[t].engine \in Engines
  BY Field DEF MonitorInv, FleetTypeOK, Kill, SweepInv
<1>1. /\ th \in ThreadStates /\ th.at = "shut" /\ th.victim = table[thread[t].slot]
      /\ th.engine = thread[t].engine /\ th.seen = thread[t].seen /\ th.slot = thread[t].slot
  BY <1>0 DEF ThreadStates
<1>2. thread' = [thread EXCEPT ![t] = th] /\ MonitorFrame /\ UNCHANGED <<table, gone>>
  BY DEF Kill
<1> HIDE DEF th
<1>3. table[thread[t].slot] = thread[t].seen[thread[t].engine]
  <2>1. thread[t].slot \in Int
    BY <1>0 DEF Slots
  <2>2. ~(thread[t].slot < thread[t].slot)
    BY <2>1
  <2>3. QED
    BY <1>0, <2>2 DEF Sweep
<1>4. Sweep(th)
  BY <1>0, <1>1, <1>3 DEF Sweep
<1>5. QED
  BY <1>0, <1>1, <1>2, <1>4, ThreadKeeps

LEMMA ShutKeeps ==
  ASSUME MonitorInv, NEW t \in Threads, Shut(t)
  PROVE  MonitorInv'
<1> DEFINE e == thread[t].engine
           s == thread[t].slot
           n == thread[t].seen[e]
           killing == [thread[t] EXCEPT !.at = "kill", !.slot = s + 1]
           th == IF s + 1 \in SlotsOf(e) THEN killing ELSE Advance(thread[t])
<1>0. /\ thread[t] \in ThreadStates /\ thread[t].at = "shut" /\ Sweep(thread[t])
      /\ e \in Engines /\ s \in Slots /\ n \in Nat
      /\ table \in [Slots -> Nat] /\ born \in [Slots -> Nat \ {0}] /\ thread \in [Threads -> ThreadStates]
      /\ sick \subseteq Slots \X Nat /\ gone \subseteq Slots \X Nat
  BY Field DEF MonitorInv, FleetTypeOK, Shut, SweepInv
<1>1. /\ UNCHANGED <<vars, born, sick, numNew, phase, linked, weights, mine, event, failed>>
      /\ gone' = gone \/ gone' = gone \union {<<s, thread[t].victim>>}
      /\ table' = [table EXCEPT ![s] = 0]
      /\ thread' = [thread EXCEPT ![t] = th]
  BY DEF Shut, MonitorFrame, managerSide
<1>2. /\ thread[t].victim = n /\ n # 0 /\ <<Node0(e), n>> \in sick /\ s \in SlotsOf(e)
      /\ \A q \in SlotsOf(e) : table[q] = IF q < s THEN 0 ELSE n
      /\ \A f \in Engines : f > e => thread[t].seen[f] = table[Node0(f)]
  BY <1>0 DEF Sweep
<1>3. /\ killing.at = "kill" /\ killing.slot = s + 1 /\ killing.engine = e
      /\ killing.seen = thread[t].seen
      /\ s + 1 \in SlotsOf(e) => killing \in ThreadStates
  <2>1. s + 1 \in SlotsOf(e) => s + 1 \in Slots
    BY <1>0, Layout
  <2>2. QED
    BY <1>0, <2>1 DEF ThreadStates
<1> HIDE DEF killing
<1>4. th \in ThreadStates
  BY <1>0, <1>3, Advancing
<1>5. /\ thread' \in [Threads -> ThreadStates] /\ thread'[t] = th
      /\ \A u \in Threads : u # t => thread'[u] = thread[u]
  BY <1>0, <1>1, <1>4
<1>6. /\ table' \in [Slots -> Nat] /\ table'[s] = 0
      /\ \A q \in Slots : q # s => table'[q] = table[q]
      /\ table[s] = n /\ n = born[s]
  <2>0. s \in Int
    BY <1>0 DEF Slots
  <2>1. table[s] = n
    BY <1>2, <2>0
  <2>2. QED
    BY <1>0, <1>1, <1>2, <2>1 DEF MonitorInv, BirthInv
<1>7. gone' \subseteq gone \cup {<<s, n>>}
  BY <1>1, <1>2
<1> HIDE DEF th, e, s, n
\* The other engines, whose slots are others.
<1>8. ASSUME NEW f \in Engines, f # e
      PROVE  \A q \in SlotsOf(f) : q # s /\ q \in Slots /\ table'[q] = table[q]
  BY <1>0, <1>2, <1>6, <1>8, OneEngine, Layout
<1>9. \A u \in Threads : u # t => thread[u].at = "off"
  BY <1>0 DEF MonitorInv, AloneInv
<1>10. FleetTypeOK'
  <2>1. gone' \subseteq Slots \X Nat
    BY <1>0, <1>7
  <2>2. QED
    BY <1>0, <1>1, <1>5, <1>6, <2>1 DEF MonitorInv, FleetTypeOK
<1>11. AloneInv'
  BY <1>0, <1>1, <1>5 DEF MonitorInv, AloneInv
<1>12. CallInv'
  BY <1>1 DEF MonitorInv, CallInv, vars, managerVars
<1>13. BirthInv'
  BY <1>1, <1>6 DEF MonitorInv, BirthInv
<1>14. FullInv'
  BY <1>0, <1>1 DEF MonitorInv, AloneInv, FullInv
<1>15. GoneInv'
  <2> SUFFICES ASSUME NEW f \in Engines, NEW q \in SlotsOf(f), NEW m \in Nat, <<q, m>> \in gone'
               PROVE  m \in 1 .. born[q] /\ m # table'[q] /\ <<Node0(f), m>> \in sick
    BY <1>1 DEF GoneInv
  <2>1. q \in Slots
    BY Layout
  <2>2. CASE <<q, m>> \in gone
    <3>1. m \in 1 .. born[q] /\ m # table[q] /\ <<Node0(f), m>> \in sick
      BY <2>2 DEF MonitorInv, GoneInv
    <3>2. m # table'[q]
      BY <1>6, <2>1, <3>1
    <3>3. QED
      BY <3>1, <3>2
  <2>3. CASE q = s /\ m = n
    <3>1. f = e
      BY <1>0, <1>2, <2>3, OneEngine
    <3>2. n \in 1 .. born[s]
      BY <1>0, <1>2, <1>6
    <3>3. QED
      BY <1>2, <1>6, <2>3, <3>1, <3>2
  <2>4. QED
    BY <1>7, <2>2, <2>3
<1>16. TogetherInv'
  <2> SUFFICES ASSUME NEW f \in Engines, ~(Killing(f)')
               PROVE  \A q \in SlotsOf(f) : table'[q] = table'[Node0(f)]
    BY DEF TogetherInv
  <2>1. CASE f # e
    <3>1. ~Killing(f)
      BY <1>9, <2>1 DEF Killing, e
    <3>2. \A q \in SlotsOf(f) : table[q] = table[Node0(f)]
      BY <3>1 DEF MonitorInv, TogetherInv
    <3>3. QED
      BY <1>8, <2>1, <3>2, Layout
  <2>2. CASE f = e
    <3>1. s + 1 \notin SlotsOf(e)
      <4>1. s + 1 \in SlotsOf(e) => th.at = "kill" /\ th.engine = e
        BY <1>3 DEF th
      <4>2. QED
        BY <1>5, <2>2, <4>1 DEF Killing
    <3>2. \A q \in SlotsOf(e) : q < s \/ q = s
      BY <1>0, <1>2, <3>1, NextSlot
    <3>3. \A q \in SlotsOf(e) : table'[q] = 0
      BY <1>0, <1>2, <1>6, <3>2, Layout
    <3>4. QED
      BY <1>0, <2>2, <3>3, Layout
  <2>3. QED
    BY <2>1, <2>2
<1>17. \A f \in Engines : f > e => thread[t].seen[f] = table'[Node0(f)]
  <2>1. \A f \in Engines : f > e => f # e
    BY <1>0, Layout
  <2>2. QED
    BY <1>2, <1>8, <2>1, Layout
<1>18. (Sweep(thread[t]))'
  <2>1. CASE s + 1 \in SlotsOf(e)
    <3>1. thread'[t] = killing
      BY <1>5, <2>1 DEF th
    <3>2. \A q \in SlotsOf(e) : table'[q] = IF q < s + 1 THEN 0 ELSE n
      <4>1. \A q \in SlotsOf(e) : q < s + 1 <=> (q < s \/ q = s)
        BY <1>0, <1>2, <2>1, NextSlot
      <4>2. QED
        BY <1>0, <1>2, <1>6, <4>1, Layout
    <3>3. thread[t].seen[e] = n
      BY DEF n
    <3>4. QED
      BY <1>1, <1>2, <1>3, <1>17, <2>1, <3>1, <3>2, <3>3 DEF Sweep
  <2>2. CASE s + 1 \notin SlotsOf(e)
    <3>1. thread'[t] = Advance(thread[t])
      BY <1>5, <2>2 DEF th
    <3>2. \A f \in Engines : f >= e + 1 => f > e
      BY <1>0, Layout
    <3>3. QED
      BY <1>0, <1>17, <3>1, <3>2, Advancing DEF Sweep, e
  <2>3. QED
    BY <2>1, <2>2
<1>19. SweepInv'
  <2>1. ASSUME NEW u \in Threads, u # t
        PROVE  (Sweep(thread[u]))'
    <3>1. thread'[u].at = "off"
      BY <1>5, <1>9, <2>1
    <3>2. QED
      BY <3>1 DEF Sweep
  <2>2. QED
    BY <1>18, <2>1 DEF SweepInv
<1>20. QED
  BY <1>10, <1>11, <1>12, <1>13, <1>14, <1>15, <1>16, <1>19 DEF MonitorInv
-----------------------------------------------------------------------------
(* The manager *)

\* Steps that the monitor and its table take no part in.
LEMMA QuietKeepsFleet ==
  ASSUME MonitorInv, UNCHANGED <<phase, table, born, sick, gone, numNew, thread, mine>>,
         linked' \in [Engines -> Nat], weights' \in [Engines -> Int], CallInv'
  PROVE  MonitorInv'
<1>1. FleetTypeOK'
  BY DEF MonitorInv, FleetTypeOK
<1>2. AloneInv' /\ BirthInv' /\ FullInv'
  BY DEF MonitorInv, AloneInv, BirthInv, FullInv
<1>3. GoneInv'
  BY DEF MonitorInv, GoneInv
<1>4. TogetherInv'
  BY DEF MonitorInv, TogetherInv, Killing
<1>5. SweepInv'
  BY DEF MonitorInv, SweepInv, Sweep
<1>6. QED
  BY <1>1, <1>2, <1>3, <1>4, <1>5 DEF MonitorInv

\* Before start and after stop the table is full, and nobody works on it.
LEMMA Rested ==
  ASSUME MonitorInv, phase \in {"out", "closed"}
  PROVE  /\ \A t \in Threads : thread[t].at = "off"
         /\ \A e \in Engines : ~Killing(e)
         /\ \A e \in Engines : \A s \in SlotsOf(e) :
              table[s] # 0 /\ table[s] = table[Node0(e)] /\ <<s, table[s]>> \notin gone
<1>1. \A t \in Threads : thread[t].at = "off"
  BY DEF MonitorInv, AloneInv
<1>2. \A e \in Engines : ~Killing(e)
  BY <1>1 DEF Killing
<1>3. ASSUME NEW e \in Engines, NEW s \in SlotsOf(e)
      PROVE  table[s] # 0 /\ table[s] = table[Node0(e)] /\ <<s, table[s]>> \notin gone
  <2>1. s \in Slots
    BY Layout
  <2>2. table[s] # 0 /\ table[s] \in Nat
    BY <2>1 DEF MonitorInv, FullInv, FleetTypeOK
  <2>3. table[s] = table[Node0(e)]
    BY <1>2 DEF MonitorInv, TogetherInv
  <2>4. <<s, table[s]>> \notin gone
    BY <2>2 DEF MonitorInv, GoneInv
  <2>5. QED
    BY <2>2, <2>3, <2>4
<1>4. QED
  BY <1>1, <1>2, <1>3

LEMMA StartMonitorKeeps ==
  ASSUME LoopInv, MonitorInv, StartMonitor
  PROVE  MonitorInv'
<1>1. /\ calls # <<>> /\ serving = None /\ serving' = served /\ Head(calls).op = "generate"
      /\ calls' = calls /\ phase' = "open"
      /\ UNCHANGED <<table, born, sick, gone, numNew, linked, weights>>
  BY DEF StartMonitor, BeginCall
<1>2. PICK t \in Threads : thread' = [thread EXCEPT ![t].at = "wait"] /\ mine' = t
  BY DEF StartMonitor
<1>3. phase = "out"
  BY <1>1 DEF MonitorInv, CallInv, FleetTypeOK
<1>4. serving' # None
  <2>1. pc \notin {"load", "firstPush"}
    BY <1>1 DEF LoopInv, CallsInv
  <2>2. served \in Nat
    BY <2>1 DEF LoopInv, PushInv
  <2>3. QED
    BY <1>1, <2>2 DEF None
<1>5. CallInv'
  BY <1>1, <1>4 DEF CallInv
<1> DEFINE th == [thread[t] EXCEPT !.at = "wait"]
<1>6. thread[t] \in ThreadStates /\ thread \in [Threads -> ThreadStates]
  BY DEF MonitorInv, FleetTypeOK
<1>7. th \in ThreadStates /\ th.at = "wait"
  BY <1>6 DEF ThreadStates
<1>8. /\ thread' \in [Threads -> ThreadStates] /\ thread'[t] = th
      /\ \A u \in Threads : u # t => thread'[u] = thread[u]
  BY <1>2, <1>6, <1>7
<1> HIDE DEF th
<1>9. FleetTypeOK'
  BY <1>1, <1>8 DEF MonitorInv, FleetTypeOK
<1>10. AloneInv'
  BY <1>1, <1>2, <1>3, <1>8, Rested DEF AloneInv
<1>11. BirthInv' /\ FullInv'
  BY <1>1 DEF MonitorInv, BirthInv, FullInv
<1>12. GoneInv'
  BY <1>1 DEF MonitorInv, GoneInv
<1>13. \A e \in Engines : \A s \in SlotsOf(e) : table'[s] = table'[Node0(e)]
  BY <1>1, <1>3, Rested
<1>14. \A u \in Threads : thread'[u].at \in {"off", "wait"}
  BY <1>3, <1>7, <1>8, Rested
<1>15. SweepInv'
  BY <1>14 DEF SweepInv, Sweep
<1>16. QED
  BY <1>5, <1>9, <1>10, <1>11, <1>12, <1>13, <1>15 DEF MonitorInv, TogetherInv

LEMMA StopMonitorKeeps ==
  ASSUME MonitorInv, StopMonitor
  PROVE  MonitorInv'
<1>1. /\ phase = "open" /\ phase' = "joining"
      /\ UNCHANGED <<vars, table, born, sick, gone, numNew, linked, weights, thread, mine, failed>>
  BY DEF StopMonitor
<1>2. FleetTypeOK'
  BY <1>1 DEF MonitorInv, FleetTypeOK
<1>3. AloneInv' /\ FullInv' /\ BirthInv'
  BY <1>1 DEF MonitorInv, AloneInv, FullInv, BirthInv
<1>4. CallInv'
  BY <1>1 DEF MonitorInv, CallInv, vars, managerVars
<1>5. GoneInv'
  BY <1>1 DEF MonitorInv, GoneInv
<1>6. TogetherInv'
  BY <1>1 DEF MonitorInv, TogetherInv, Killing
<1>7. SweepInv'
  BY <1>1 DEF MonitorInv, SweepInv, Sweep
<1>8. QED
  BY <1>2, <1>3, <1>4, <1>5, <1>6, <1>7 DEF MonitorInv

LEMMA EmptySlots ==
  ASSUME MonitorInv, NEW empty, empty = {s \in Slots : table[s] = 0}
  PROVE  /\ Cardinality(empty) \in Nat
         /\ Cardinality(empty) = 0 => \A s \in Slots : table[s] # 0
<1>1. NumEngines * NodesPerEngine - 1 \in Int
  BY FleetAssumption
<1>2. IsFiniteSet(Slots)
  BY <1>1, FS_Interval DEF Slots
<1>3. IsFiniteSet(empty)
  BY <1>2, FS_Subset
<1>4. Cardinality(empty) \in Nat /\ (Cardinality(empty) = 0 <=> empty = {})
  BY <1>3, FS_CardinalityType, FS_EmptySet
<1>5. QED
  BY <1>4

LEMMA RestartKeeps ==
  ASSUME MonitorInv, RestartEngines, ~JoinTimesOut
  PROVE  MonitorInv'
<1> DEFINE empty == {s \in Slots : table[s] = 0}
<1>1. /\ phase = "joining" /\ phase' = "closed" /\ thread[mine].at = "off"
      /\ born' = [s \in Slots |-> IF s \in empty THEN born[s] + 1 ELSE born[s]]
      /\ table' = [s \in Slots |-> IF s \in empty THEN born[s] + 1 ELSE table[s]]
      /\ weights' = [e \in Engines |-> IF Node0(e) \in empty THEN None ELSE weights[e]]
      /\ numNew' = Cardinality(empty)
      /\ UNCHANGED <<vars, sick, gone, linked, thread, failed>>
  BY DEF RestartEngines, Joined, NewEngines
<1>2. numNew' \in Nat
  BY <1>1, EmptySlots
<1>3. /\ table \in [Slots -> Nat] /\ born \in [Slots -> Nat \ {0}] /\ weights \in [Engines -> Int]
      /\ \A s \in Slots : table[s] = 0 \/ table[s] = born[s]
  BY DEF MonitorInv, FleetTypeOK, BirthInv
<1>4. /\ table' \in [Slots -> Nat] /\ born' \in [Slots -> Nat \ {0}] /\ weights' \in [Engines -> Int]
  <2>1. \A s \in Slots : born[s] + 1 \in Nat /\ born[s] + 1 \in Nat \ {0}
    BY <1>3
  <2>2. table' \in [Slots -> Nat]
    BY <1>1, <1>3, <2>1
  <2>3. born' \in [Slots -> Nat \ {0}]
    BY <1>1, <1>3, <2>1
  <2>4. weights' \in [Engines -> Int]
    BY <1>1, <1>3 DEF None
  <2>5. QED
    BY <2>2, <2>3, <2>4
<1>5. \A s \in Slots : IF table[s] = 0 THEN table'[s] = born[s] + 1 /\ born'[s] = born[s] + 1
                                       ELSE table'[s] = table[s] /\ born'[s] = born[s]
  BY <1>1
<1>6. \A s \in Slots : table'[s] = born'[s] /\ table'[s] # 0
  <2>1. \A s \in Slots : born[s] + 1 # 0
    BY <1>3
  <2>2. QED
    BY <1>3, <1>5, <2>1
<1> HIDE DEF empty
<1>7. \A t \in Threads : thread[t].at = "off"
  BY <1>1 DEF MonitorInv, AloneInv
<1>8. \A e \in Engines : \A s \in SlotsOf(e) : table[s] = table[Node0(e)] /\ born[s] = born[Node0(e)]
  BY <1>7 DEF MonitorInv, TogetherInv, Killing, BirthInv
<1>9. \A e \in Engines : \A s \in SlotsOf(e) : table'[s] = table'[Node0(e)] /\ born'[s] = born'[Node0(e)]
  BY <1>5, <1>8, Layout
<1>10. FleetTypeOK'
  BY <1>1, <1>2, <1>4 DEF MonitorInv, FleetTypeOK
<1>11. AloneInv'
  BY <1>1, <1>7 DEF AloneInv
<1>12. CallInv'
  BY <1>1 DEF MonitorInv, CallInv, vars, managerVars
<1>13. BirthInv' /\ FullInv' /\ TogetherInv'
  BY <1>6, <1>9 DEF BirthInv, FullInv, TogetherInv
<1>14. GoneInv'
  <2> SUFFICES ASSUME NEW e \in Engines, NEW s \in SlotsOf(e), NEW n \in Nat, <<s, n>> \in gone
               PROVE  n \in 1 .. born'[s] /\ n # table'[s] /\ <<Node0(e), n>> \in sick
    BY <1>1 DEF GoneInv
  <2>1. s \in Slots /\ n \in 1 .. born[s] /\ n # table[s] /\ <<Node0(e), n>> \in sick
    BY Layout DEF MonitorInv, GoneInv
  <2>2. born[s] \in Nat /\ (born'[s] = born[s] \/ born'[s] = born[s] + 1)
    BY <1>3, <1>5, <2>1
  <2>3. n \in 1 .. born'[s]
    BY <2>1, <2>2
  <2>4. n # table'[s]
    BY <1>5, <2>1, <2>2
  <2>5. QED
    BY <2>1, <2>3, <2>4
<1>15. SweepInv'
  BY <1>1, <1>7 DEF SweepInv, Sweep
<1>16. QED
  BY <1>10, <1>11, <1>12, <1>13, <1>14, <1>15 DEF MonitorInv

LEMMA ReturnsKeeps ==
  ASSUME MonitorInv, GenerateReturns
  PROVE  MonitorInv'
<1>1. /\ phase = "closed" /\ phase' = "out"
      /\ UNCHANGED <<table, born, sick, gone, numNew, linked, weights, thread, mine, failed>>
  BY DEF GenerateReturns, monitorVars
<1>2. FleetTypeOK'
  BY <1>1 DEF MonitorInv, FleetTypeOK
<1>3. AloneInv' /\ BirthInv' /\ FullInv' /\ CallInv'
  BY <1>1 DEF MonitorInv, AloneInv, BirthInv, FullInv, CallInv
<1>4. GoneInv'
  BY <1>1 DEF MonitorInv, GoneInv
<1>5. TogetherInv'
  BY <1>1 DEF MonitorInv, TogetherInv, Killing
<1>6. SweepInv'
  BY <1>1 DEF MonitorInv, SweepInv, Sweep
<1>7. QED
  BY <1>2, <1>3, <1>4, <1>5, <1>6 DEF MonitorInv

LEMMA FaultKeeps ==
  ASSUME MonitorInv, NEW e \in Engines, Fault(e)
  PROVE  MonitorInv'
<1>1. /\ sick' = sick \union {<<Node0(e), table[Node0(e)]>>}
      /\ UNCHANGED <<vars, table, born, gone, numNew, phase, linked, weights, thread, mine, failed>>
  BY DEF Fault, managerSide, monitorVars
<1>2. sick' \subseteq Slots \X Nat /\ sick \subseteq sick'
  BY <1>1, Layout DEF MonitorInv, FleetTypeOK
<1>3. FleetTypeOK'
  BY <1>1, <1>2 DEF MonitorInv, FleetTypeOK
<1>4. AloneInv' /\ BirthInv' /\ FullInv'
  BY <1>1 DEF MonitorInv, AloneInv, BirthInv, FullInv
<1>5. CallInv'
  BY <1>1 DEF MonitorInv, CallInv, vars, managerVars
<1>6. GoneInv'
  BY <1>1, <1>2 DEF MonitorInv, GoneInv
<1>7. TogetherInv'
  BY <1>1 DEF MonitorInv, TogetherInv, Killing
<1>8. SweepInv'
  BY <1>1, <1>2 DEF MonitorInv, SweepInv, Sweep
<1>9. QED
  BY <1>3, <1>4, <1>5, <1>6, <1>7, <1>8 DEF MonitorInv
-----------------------------------------------------------------------------
(* The driver and the updater *)

LEMMA FirstStays ==
  ASSUME NEW S, NEW q \in Seq(S), q # <<>>, NEW x \in S
  PROVE  Head(Append(q, x)) = Head(q)
<1>1. Len(q) \in Nat \ {0} /\ Head(q) = q[1] /\ 1 \in 1 .. Len(q)
  OBVIOUS
<1>2. Append(q, x) \in Seq(S) /\ Append(q, x) # <<>> /\ Append(q, x)[1] = q[1]
  BY <1>1, AppendProperties
<1>3. QED
  BY <1>1, <1>2

\* While generate is served, the driver calls on, and nothing else returns.
LEMMA CallsGoOn ==
  ASSUME LoopInv, OtherSteps, serving # None, Head(calls).op = "generate"
  PROVE  serving' = serving /\ Head(calls').op = "generate"
<1>1. calls \in Seq(CallTypes) /\ calls # <<>> /\ rollout \in Rollouts /\ rollout \in Nat
  BY DEF LoopInv, TypeOK, PushInv, Rollouts
<1>2. ASSUME NEW op \in {"generate", "eval", "save"}, NEW r \in Rollouts, Call(op, r)
      PROVE  Head(calls').op = "generate"
  <2>1. [op |-> op, id |-> r] \in CallTypes
    BY DEF CallTypes
  <2>2. QED
    BY <1>1, <1>2, <2>1, FirstStays DEF Call
<1>3. CASE Load \/ Await \/ Train \/ Saved \/ Sync \/ NextRollout
  BY <1>3 DEF Load, Await, Train, Saved, Sync, NextRollout, managerVars
<1>4. CASE Launch
  BY <1>1, <1>2, <1>4 DEF Launch
<1>5. CASE FetchSync
  <2>1. calls = <<>>
    BY <1>5 DEF FetchSync, LoopInv, CallsInv, MayRun, DriverInv
  <2>2. QED
    BY <1>1, <2>1
<1>6. CASE FetchAsync
  <2>1. rollout + 1 < NumRollouts => rollout + 1 \in Rollouts
    BY <1>1, TrainAssumption DEF Rollouts
  <2>2. QED
    BY <1>2, <1>6, <2>1 DEF FetchAsync
<1>7. CASE SaveModel
  BY <1>1, <1>2, <1>7 DEF SaveModel
<1>8. CASE Eval
  BY <1>1, <1>2, <1>8 DEF Eval
<1>9. CASE EndEval \/ SaveData \/ (BeginCall /\ Head(calls).op = "eval")
  BY <1>9 DEF EndEval, SaveData
<1>10. QED
  BY <1>3, <1>4, <1>5, <1>6, <1>7, <1>8, <1>9 DEF OtherSteps

LEMMA OtherKeeps ==
  ASSUME LoopInv, MonitorInv, OtherSteps
  PROVE  MonitorInv'
<1>1. UNCHANGED <<phase, table, born, sick, gone, numNew, linked, weights, thread, mine>>
  BY DEF OtherSteps, fleetVars, managerSide, monitorVars
<1>2. CallInv'
  BY <1>1, CallsGoOn DEF MonitorInv, CallInv
<1>3. linked' \in [Engines -> Nat] /\ weights' \in [Engines -> Int]
  BY <1>1 DEF MonitorInv, FleetTypeOK
<1>4. QED
  BY <1>1, <1>2, <1>3, QuietKeepsFleet

LEMMA HeadsTyped ==
  ASSUME MonitorInv
  PROVE  Heads \in [Engines -> Nat] /\ \A e \in Engines : Heads[e] = table[Node0(e)]
BY Layout DEF Heads, MonitorInv, FleetTypeOK

LEMMA PushKeeps ==
  ASSUME LoopInv, MonitorInv, PushStep
  PROVE  MonitorInv'
<1>1. UNCHANGED <<phase, table, born, sick, gone, numNew, thread, mine, calls, serving>>
  BY DEF PushStep, Connect, Broadcast, PushFails, managerSide, monitorVars, BeginPush, EndPush,
         managerVars, vars
<1>2. CallInv'
  BY <1>1 DEF MonitorInv, CallInv
<1>3. linked \in [Engines -> Nat] /\ weights \in [Engines -> Int] /\ Len(model) \in Int
  BY DEF MonitorInv, FleetTypeOK, LoopInv, TypeOK
<1>4. linked' \in [Engines -> Nat]
  BY <1>3, HeadsTyped DEF PushStep, Connect, Broadcast, PushFails
<1>5. weights' \in [Engines -> Int]
  BY <1>3 DEF PushStep, Connect, Broadcast, PushFails
<1>6. QED
  BY <1>1, <1>2, <1>4, <1>5, QuietKeepsFleet

LEMMA FleetStutter ==
  ASSUME MonitorInv, UNCHANGED allFleetVars
  PROVE  MonitorInv'
<1>1. UNCHANGED <<phase, table, born, sick, gone, numNew, linked, weights, thread, mine, calls, serving>>
  BY DEF allFleetVars, fleetVars, managerSide, monitorVars, vars, managerVars
<1>2. CallInv'
  BY <1>1 DEF MonitorInv, CallInv
<1>3. linked' \in [Engines -> Nat] /\ weights' \in [Engines -> Int]
  BY <1>1 DEF MonitorInv, FleetTypeOK
<1>4. QED
  BY <1>1, <1>2, <1>3, QuietKeepsFleet

LEMMA MonitorInit == FleetInit => MonitorInv
<1> SUFFICES ASSUME FleetInit
             PROVE  MonitorInv
  OBVIOUS
<1>1. /\ table = [s \in Slots |-> 1] /\ born = [s \in Slots |-> 1] /\ sick = {} /\ gone = {}
      /\ numNew = NumEngines * NodesPerEngine /\ phase = "out"
      /\ linked = [e \in Engines |-> 0] /\ weights = [e \in Engines |-> None]
      /\ thread = [t \in Threads |-> Resting]
  BY DEF FleetInit
<1>2. NumEngines * NodesPerEngine \in Nat
  BY FleetAssumption
<1>3. table \in [Slots -> Nat] /\ born \in [Slots -> Nat \ {0}]
  BY <1>1
<1>4. linked \in [Engines -> Nat] /\ weights \in [Engines -> Int]
  BY <1>1 DEF None
<1>5. thread \in [Threads -> ThreadStates] /\ \A t \in Threads : thread[t].at = "off"
  BY <1>1, Asleep
<1>6. FleetTypeOK
  BY <1>1, <1>2, <1>3, <1>4, <1>5 DEF FleetTypeOK
<1>7. AloneInv /\ CallInv /\ SweepInv
  BY <1>1, <1>5 DEF AloneInv, CallInv, SweepInv, Sweep
<1>8. BirthInv /\ TogetherInv /\ FullInv
  BY <1>1, Layout DEF BirthInv, TogetherInv, FullInv
<1>9. GoneInv
  BY <1>1 DEF GoneInv
<1>10. QED
  BY <1>6, <1>7, <1>8, <1>9 DEF MonitorInv

LEMMA MonitorStep ==
  ASSUME LoopInv, MonitorInv, [FleetNext]_allFleetVars, ~JoinTimesOut
  PROVE  MonitorInv'
BY StartMonitorKeeps, StopMonitorKeeps, RestartKeeps, ReturnsKeeps, FaultKeeps, WaitKeeps, ScanKeeps,
   ProbeKeeps, KillKeeps, ShutKeeps, OtherKeeps, PushKeeps, FleetStutter
DEF FleetNext, GenerateStep, ThreadStep

\* The fleet is a train loop: whatever TrainLoop promises holds with engines that
\* fail and are replaced.
LEMMA FleetStepIsLoopStep == FleetNext => [Next]_vars
<1> SUFFICES ASSUME FleetNext
             PROVE  Next \/ UNCHANGED vars
  OBVIOUS
<1>1. CASE GenerateStep
  BY <1>1 DEF GenerateStep, StartMonitor, StopMonitor, RestartEngines, GenerateReturns, Next, Manager
<1>2. CASE PushStep
  BY <1>2 DEF PushStep, Connect, Broadcast, PushFails, Next, Driver
<1>3. CASE OtherSteps
  BY <1>3 DEF OtherSteps, Next, Driver, Manager
<1>4. ASSUME NEW t \in Threads, ThreadStep(t)
      PROVE  UNCHANGED vars
  BY <1>4 DEF ThreadStep, Wait, Scan, Probe, Kill, Shut, MonitorFrame
<1>5. ASSUME NEW e \in Engines, Fault(e)
      PROVE  UNCHANGED vars
  BY <1>5 DEF Fault
<1>6. QED
  BY <1>1, <1>2, <1>3, <1>4, <1>5 DEF FleetNext

\* Every behaviour of the fleet is one of the driver, the manager and the files.
THEOREM FleetIsLoop == FleetSpec => Spec
<1>1. FleetInit => Init
  BY DEF FleetInit
<1>2. [FleetNext]_allFleetVars => [Next]_vars
  BY FleetStepIsLoopStep DEF allFleetVars
<1>3. QED
  BY <1>1, <1>2, PTL DEF FleetSpec, Spec

\* The monitor's thread never outlives the stop that joins it.
THEOREM FleetIsKept == ~JoinTimesOut /\ FleetSpec => []MonitorInv
<1> SUFFICES ASSUME ~JoinTimesOut
             PROVE  FleetSpec => []MonitorInv
  OBVIOUS
<1>1. FleetInit => MonitorInv
  BY MonitorInit
<1>2. LoopInv /\ MonitorInv /\ [FleetNext]_allFleetVars => MonitorInv'
  BY MonitorStep
<1>3. FleetSpec => []LoopInv
  BY FleetIsLoop, LoopIsKept, PTL
<1>4. QED
  BY <1>1, <1>2, <1>3, PTL DEF FleetSpec
-----------------------------------------------------------------------------
(* The synchronous script *)

AllSync == \A j \in Jobs : j.script = "train"

LEMMA InSync ==
  ASSUME LoopInv, AllSync
  PROVE  ~Async /\ UpdateDue /\ AfterSave = "push" /\ future = None /\ pc \notin {"launch", "sync"}
<1>1. ~Async
  BY DEF LoopInv, TypeOK, AllSync, Async
<1>2. QED
  BY <1>1 DEF LoopInv, DriverInv, UpdateDue, AfterSave

\* A generation is served only while the driver waits for it, as its last call.
LEMMA InGenerate ==
  ASSUME LoopInv, AllSync, calls # <<>>, Head(calls).op = "generate"
  PROVE  pc = "await" /\ calls = <<Gen(rollout)>> /\ ~pushing
<1>1. future = None /\ \A r \in Rollouts : r # None
  BY InSync DEF Rollouts, None
<1>2. Evl(0).op # "generate" /\ Evl(rollout).op # "generate" /\ Sav(rollout).op # "generate"
  BY DEF Evl, Sav
<1>3. \A x, y : Head(<<x, y>>) = x /\ Head(<<x>>) = x
  BY Queue
<1>4. pc = "await" /\ calls = <<Gen(rollout)>>
  BY <1>1, <1>2, <1>3, FirstCall
<1>5. ~pushing
  BY <1>4 DEF LoopInv, PushInv
<1>6. QED
  BY <1>4, <1>5

LEMMA Generating ==
  ASSUME LoopInv, MonitorInv, AllSync, phase # "out"
  PROVE  pc = "await" /\ calls = <<Gen(rollout)>> /\ calls # <<>> /\ ~pushing /\ serving # None
<1>1. serving # None /\ Head(calls).op = "generate"
  BY DEF MonitorInv, CallInv
<1>2. calls # <<>>
  BY <1>1 DEF LoopInv, PushInv
<1>3. QED
  BY <1>1, <1>2, InGenerate

LEMMA StartMonitorKeepsSync ==
  ASSUME LoopInv, MonitorInv, AllSync, SyncInv, ~failed, StartMonitor
  PROVE  SyncInv'
<1>1. /\ calls # <<>> /\ serving = None /\ Head(calls).op = "generate" /\ phase' = "open"
      /\ UNCHANGED <<calls, pc, pushing, served, table, linked, weights, failed>>
  BY DEF StartMonitor, BeginCall, driverVars
<1>2. phase = "out"
  BY <1>1 DEF MonitorInv, CallInv
<1>3. pc = "await" /\ ~pushing
  BY <1>1, InGenerate
<1>4. Linked /\ Current
  BY <1>1, <1>2, <1>3 DEF SyncInv
<1>5. QED
  BY <1>1, <1>3, <1>4 DEF SyncInv, Unlinked, Linked, Current

LEMMA StopMonitorKeepsSync ==
  ASSUME LoopInv, MonitorInv, AllSync, SyncInv, ~failed, StopMonitor
  PROVE  SyncInv'
<1>1. /\ phase = "open" /\ phase' = "joining"
      /\ UNCHANGED <<calls, pc, pushing, served, table, linked, weights, failed>>
  BY DEF StopMonitor, vars, driverVars, managerVars
<1>2. pc = "await" /\ ~pushing /\ calls # <<>>
  BY <1>1, Generating
<1>3. QED
  BY <1>1, <1>2 DEF SyncInv, Unlinked, Linked, Current

LEMMA RestartKeepsSync ==
  ASSUME LoopInv, MonitorInv, AllSync, SyncInv, ~failed, RestartEngines
  PROVE  SyncInv'
<1> DEFINE empty == {s \in Slots : table[s] = 0}
<1>1. /\ phase = "joining" /\ phase' = "closed" /\ numNew' = Cardinality(empty)
      /\ table' = [s \in Slots |-> IF s \in empty THEN born[s] + 1 ELSE table[s]]
      /\ UNCHANGED <<calls, pc, pushing, linked, failed>>
  BY DEF RestartEngines, NewEngines, vars, driverVars, managerVars
<1>2. Cardinality(empty) \in Nat /\ (Cardinality(empty) = 0 => \A s \in Slots : table[s] # 0)
  BY EmptySlots
<1>3. Cardinality(empty) = 0 => \A s \in Slots : table'[s] = table[s] /\ table[s] # 0
  BY <1>1, <1>2
<1> HIDE DEF empty
<1>4. \A e \in Engines : table[Node0(e)] # 0 => linked[e] = table[Node0(e)]
  BY <1>1 DEF SyncInv
<1>5. numNew' > 0 \/ Linked'
  <2>1. CASE Cardinality(empty) = 0
    BY <1>1, <1>3, <1>4, <2>1, Layout DEF Linked
  <2>2. CASE Cardinality(empty) # 0
    BY <1>1, <1>2, <2>2
  <2>3. QED
    BY <2>1, <2>2
<1>6. pc = "await" /\ ~pushing
  BY <1>1, Generating
<1>7. QED
  BY <1>1, <1>5, <1>6 DEF SyncInv

LEMMA ReturnsKeepsSync ==
  ASSUME LoopInv, MonitorInv, AllSync, SyncInv, ~failed, GenerateReturns
  PROVE  SyncInv'
<1>1. /\ phase = "closed" /\ phase' = "out" /\ calls' = Tail(calls)
      /\ UNCHANGED <<pc, pushing, served, table, linked, weights, numNew, failed>>
  BY DEF GenerateReturns, EndGenerate, driverVars
<1>2. pc = "await" /\ ~pushing /\ calls = <<Gen(rollout)>>
  BY <1>1, Generating
<1>3. calls' = <<>>
  BY <1>1, <1>2, Queue
<1>4. numNew > 0 \/ Linked
  BY <1>1 DEF SyncInv
<1>5. QED
  BY <1>1, <1>2, <1>3, <1>4 DEF SyncInv, Linked

\* The thread only ever empties a slot, and only during a generation.
LEMMA ThreadKeepsSync ==
  ASSUME LoopInv, MonitorInv, AllSync, SyncInv, ~failed, NEW t \in Threads, ThreadStep(t)
  PROVE  SyncInv'
<1>1. /\ UNCHANGED <<calls, pc, pushing, served, linked, weights, numNew, phase, failed>>
      /\ thread[t].at # "off"
  BY DEF ThreadStep, Wait, Scan, Probe, Kill, Shut, MonitorFrame, managerSide, vars, driverVars,
         managerVars
<1>2. table \in [Slots -> Nat]
  BY DEF MonitorInv, FleetTypeOK
<1>3. table' = table \/ table' = [table EXCEPT ![thread[t].slot] = 0]
  BY DEF ThreadStep, Wait, Scan, Probe, Kill, Shut, MonitorFrame
<1>4. \A s \in Slots : table'[s] = table[s] \/ table'[s] = 0
  BY <1>2, <1>3
<1>5. phase \in {"open", "joining"}
  BY <1>1 DEF MonitorInv, AloneInv
<1>6. pc = "await" /\ ~pushing /\ calls # <<>>
  BY <1>5, Generating
<1>7. /\ Current
      /\ \A e \in Engines : table'[Node0(e)] # 0 => linked[e] = table'[Node0(e)]
  BY <1>4, <1>5, Layout DEF SyncInv
<1>8. QED
  BY <1>1, <1>5, <1>6, <1>7 DEF SyncInv, Unlinked, Current

LEMMA FaultKeepsSync ==
  ASSUME SyncInv, ~failed, NEW e \in Engines, Fault(e)
  PROVE  SyncInv'
<1>1. UNCHANGED <<calls, pc, pushing, served, table, linked, weights, numNew, phase, failed>>
  BY DEF Fault, managerSide, vars, driverVars, managerVars
<1>2. QED
  BY <1>1 DEF SyncInv, Unlinked, Linked, Current

LEMMA Pushing ==
  ASSUME LoopInv, MonitorInv, pc \in {"firstPush", "push"}
  PROVE  phase = "out"
<1>1. serving = None
  BY DEF LoopInv, CallsInv, PushInv
<1>2. QED
  BY <1>1 DEF MonitorInv, CallInv

LEMMA ConnectKeepsSync ==
  ASSUME LoopInv, MonitorInv, AllSync, SyncInv, ~failed, Connect
  PROVE  SyncInv'
<1>1. /\ pc \in {"firstPush", "push"} /\ linked' = (IF numNew > 0 THEN Heads ELSE linked)
      /\ UNCHANGED <<calls, pc, served, table, weights, numNew, phase, failed>>
  BY DEF Connect, BeginPush, managerSide, managerVars
<1>2. phase = "out"
  BY <1>1, Pushing
<1>3. numNew > 0 \/ Linked
  BY <1>1 DEF SyncInv, Unlinked
<1>4. Linked'
  BY <1>1, <1>3, HeadsTyped DEF Linked
<1>5. QED
  BY <1>1, <1>2, <1>4 DEF SyncInv, Unlinked

LEMMA BroadcastKeepsSync ==
  ASSUME LoopInv, MonitorInv, AllSync, SyncInv, ~failed, Broadcast
  PROVE  SyncInv'
<1>1. /\ pushing /\ ~pushing' /\ served' = Len(model)
      /\ pc' = (IF pc = "push" THEN "eval" ELSE Top)
      /\ weights' = [e \in Engines |-> IF linked[e] = table[Node0(e)] THEN Len(model) ELSE weights[e]]
      /\ UNCHANGED <<calls, table, linked, numNew, phase, failed>>
  BY InSync DEF Broadcast, EndPush, managerSide, managerVars
<1>2. pc' \in {"eval", "fetch", "done"}
  BY <1>1 DEF Top
<1>3. pc \in {"firstPush", "push"} /\ Linked
  BY <1>1 DEF LoopInv, PushInv, SyncInv
<1>4. phase = "out"
  BY <1>3, Pushing
<1>5. Linked' /\ Current'
  BY <1>1, <1>3 DEF Linked, Current
<1>6. QED
  BY <1>1, <1>2, <1>4, <1>5 DEF SyncInv, Unlinked

LEMMA PushFailsKeepsSync ==
  ASSUME LoopInv, MonitorInv, AllSync, SyncInv, PushFails
  PROVE  SyncInv'
<1>1. /\ pushing
      /\ UNCHANGED <<calls, pc, pushing, served, table, sick, linked, weights, numNew, phase>>
  BY DEF PushFails, managerSide, vars, driverVars, managerVars
<1>2. PICK e \in Engines : ~Answers(e, linked[e])
  BY DEF PushFails, AllAnswer
<1>3. phase = "out"
  BY <1>1, Pushing DEF LoopInv, PushInv
<1>4. linked[e] = table[Node0(e)]
  BY <1>1 DEF SyncInv, Linked
<1>5. table[Node0(e)] # 0 /\ <<Node0(e), table[Node0(e)]>> \notin gone
  BY <1>3, Rested, Layout
<1>6. <<Node0(e), table[Node0(e)]>> \in sick
  BY <1>2, <1>4, <1>5 DEF Answers
<1>7. \E f \in Engines : <<Node0(f), table'[Node0(f)]>> \in sick'
  BY <1>1, <1>6
<1>8. QED
  BY <1>1, <1>7 DEF SyncInv, Unlinked, Linked, Current

LEMMA OtherKeepsSync ==
  ASSUME LoopInv, MonitorInv, AllSync, SyncInv, ~failed, OtherSteps
  PROVE  SyncInv'
<1>1. UNCHANGED <<table, linked, weights, numNew, phase, failed>>
  BY DEF OtherSteps, fleetVars, managerSide
<1>2. /\ pushing' = pushing /\ served' = served
  BY DEF OtherSteps, Load, Launch, FetchSync, Await, FetchAsync, Train, SaveModel, Saved, Sync, Eval,
         NextRollout, EndEval, SaveData, BeginCall, driverVars
<1>3. Linked' = Linked /\ Current' = Current
  BY <1>1, <1>2 DEF Linked, Current
<1>4. ~Launch /\ ~FetchAsync /\ ~Sync
  BY InSync DEF Launch, FetchAsync, Sync
<1>5. phase = "out"
  <2>1. SUFFICES ASSUME phase # "out"
                 PROVE  FALSE
    OBVIOUS
  <2>2. pc = "await" /\ calls # <<>> /\ serving # None /\ calls = <<Gen(rollout)>>
    BY <2>1, Generating
  <2>3. Head(calls).op = "generate"
    BY <2>1 DEF MonitorInv, CallInv
  <2>4. QED
    BY <1>4, <2>2, <2>3 DEF OtherSteps, Load, FetchSync, Await, Train, SaveModel, Saved, Eval,
       NextRollout, EndEval, SaveData, BeginCall, Idle
\* From one update to the next rollout the fleet is up to date ...
<1>6. CASE \/ Unlinked /\ Unlinked'
           \/ pc = "await" /\ calls = <<>> /\ Unlinked'
  <2>1. numNew > 0 \/ Linked
    BY <1>6 DEF SyncInv
  <2>2. pc' \notin {"fetch", "eval", "evalWait", "next", "await"}
    BY <1>6 DEF Unlinked
  <2>3. QED
    BY <1>1, <1>2, <1>3, <1>5, <2>1, <2>2 DEF SyncInv
\* ... and after it the list of the updater is good, or a new one is due.
<1>7. CASE /\ pc \in {"fetch", "eval", "evalWait", "next"} \/ (pc = "await" /\ calls # <<>>)
           /\ pc' \in {"fetch", "eval", "evalWait", "next", "done"} \/ (pc' = "await" /\ calls' # <<>>)
  <2>1. Linked /\ Current
    BY <1>5, <1>7 DEF SyncInv
  <2>2. ~Unlinked' /\ ~(pc' = "await" /\ calls' = <<>>)
    BY <1>7 DEF Unlinked
  <2>3. QED
    BY <1>1, <1>2, <1>3, <1>5, <2>1, <2>2 DEF SyncInv
<1>8. CASE pc' = pc /\ calls' = calls
  BY <1>1, <1>2, <1>3, <1>8 DEF SyncInv, Unlinked
<1>9. CASE Load \/ Await \/ Train \/ SaveModel \/ Saved
  <2>1. Unlinked'
    BY <1>9, InSync DEF Load, Await, Train, SaveModel, Saved, Unlinked
  <2>2. QED
    BY <1>6, <1>9, <2>1 DEF Load, Await, Train, SaveModel, Saved, Unlinked, Idle
<1>10. CASE FetchSync
  <2>1. calls' # <<>>
    <3>1. <<>> \o <<Gen(rollout)>> # <<>> /\ <<Evl(0)>> \o <<Gen(rollout)>> # <<>>
      BY Queue
    <3>2. QED
      BY <1>10, <3>1 DEF FetchSync, Gen, Evl
  <2>2. QED
    BY <1>7, <1>10, <2>1 DEF FetchSync
<1>11. CASE Eval \/ NextRollout
  BY <1>7, <1>11 DEF Eval, NextRollout
<1>12. CASE BeginCall
  BY <1>8, <1>12 DEF BeginCall, driverVars
<1>13. CASE EndEval
  <2>1. /\ calls # <<>> /\ Head(calls).op = "eval" /\ calls' = Tail(calls) /\ pc' = pc
    BY <1>13 DEF EndEval, LoopInv, PushInv, driverVars
  <2>2. Gen(rollout).op # "eval" /\ Sav(rollout).op # "eval" /\ \A r : Gen(r).op # "eval"
    BY DEF Gen, Sav
  <2>3. (pc = "await" /\ calls = <<Evl(0), Gen(rollout)>>) \/ pc = "evalWait"
    BY <2>1, <2>2, Queue, FirstCall
  <2>4. pc = "await" => calls' # <<>>
    <3>1. Tail(<<Evl(0), Gen(rollout)>>) = <<Gen(rollout)>> /\ <<Gen(rollout)>> # <<>>
      BY Queue
    <3>2. QED
      BY <2>1, <2>3, <3>1
  <2>5. QED
    BY <1>7, <2>1, <2>3, <2>4
<1>14. CASE SaveData
  <2>1. calls # <<>> /\ Head(calls).op = "save" /\ pc' = pc
    BY <1>14 DEF SaveData, driverVars
  <2>2. Evl(0).op # "save" /\ Evl(rollout).op # "save" /\ \A r : Gen(r).op # "save"
    BY DEF Gen, Evl
  <2>3. pc = "saveData"
    BY <2>1, <2>2, Queue, FirstCall
  <2>4. QED
    BY <1>6, <2>1, <2>3 DEF Unlinked
<1>15. QED
  BY <1>4, <1>9, <1>10, <1>11, <1>12, <1>13, <1>14 DEF OtherSteps

LEMMA SyncStutter ==
  ASSUME SyncInv, UNCHANGED allFleetVars
  PROVE  SyncInv'
<1>1. UNCHANGED <<calls, pc, pushing, served, table, sick, linked, weights, numNew, phase, failed>>
  BY DEF allFleetVars, fleetVars, managerSide, vars, driverVars, managerVars
<1>2. QED
  BY <1>1 DEF SyncInv, Unlinked, Linked, Current

LEMMA SyncInit == FleetInit => SyncInv
<1> SUFFICES ASSUME FleetInit
             PROVE  SyncInv
  OBVIOUS
<1>1. pc = "load" /\ ~pushing /\ phase = "out" /\ ~failed /\ numNew = NumEngines * NodesPerEngine
  BY DEF FleetInit, Init
<1>2. \A n, m \in Nat \ {0} : n * m > 0
  OBVIOUS
<1>3. numNew > 0
  BY <1>1, <1>2, FleetAssumption
<1>4. QED
  BY <1>1, <1>3 DEF SyncInv

LEMMA SyncStep ==
  ASSUME LoopInv, MonitorInv, AllSync, SyncInv, [FleetNext]_allFleetVars
  PROVE  SyncInv'
BY StartMonitorKeepsSync, StopMonitorKeepsSync, RestartKeepsSync, ReturnsKeepsSync, ThreadKeepsSync,
   FaultKeepsSync, ConnectKeepsSync, BroadcastKeepsSync, PushFailsKeepsSync, OtherKeepsSync,
   SyncStutter
DEF FleetNext, GenerateStep, PushStep

LEMMA SyncIsKept == ~JoinTimesOut /\ AllSync /\ FleetSpec => []SyncInv
<1> SUFFICES ASSUME ~JoinTimesOut, AllSync
             PROVE  FleetSpec => []SyncInv
  OBVIOUS
<1>1. FleetInit => SyncInv
  BY SyncInit
<1>2. LoopInv /\ MonitorInv /\ SyncInv /\ [FleetNext]_allFleetVars => SyncInv'
  BY SyncStep
<1>3. FleetSpec => []LoopInv
  BY FleetIsLoop, LoopIsKept, PTL
<1>4. FleetSpec => []MonitorInv
  BY FleetIsKept
<1>5. QED
  BY <1>1, <1>2, <1>3, <1>4, PTL DEF FleetSpec
-----------------------------------------------------------------------------
(* The properties *)

\* _kill_engine only ever reaches servers that had stopped answering: the slot it
\* takes still holds the engine that failed the heartbeat.
THEOREM OnlySick == ~JoinTimesOut /\ FleetSpec => []OnlySickAreKilled
<1>1. MonitorInv => OnlySickAreKilled
  <2> SUFFICES ASSUME MonitorInv, NEW e \in Engines, NEW n \in 1 .. born[Node0(e)],
                      <<Node0(e), n>> \in gone
               PROVE  <<Node0(e), n>> \in sick
    BY DEF OnlySickAreKilled
  <2>1. Node0(e) \in SlotsOf(e) /\ n \in Nat
    BY Layout DEF MonitorInv, FleetTypeOK
  <2>2. QED
    BY <2>1 DEF MonitorInv, GoneInv
<1>2. QED
  BY <1>1, FleetIsKept, PTL

\* Between rollouts every engine is there with all its nodes, in both scripts.
THEOREM Replaced == ~JoinTimesOut /\ FleetSpec => []KilledIsReplaced
<1>1. MonitorInv => KilledIsReplaced
  BY Rested DEF KilledIsReplaced
<1>2. QED
  BY <1>1, FleetIsKept, PTL

\* In the synchronous script no rollout is served by an engine that missed the
\* last update, whichever were restarted before it.
THEOREM UpToDateFleet == ~JoinTimesOut /\ AllSync /\ FleetSpec => []EveryServerIsUpToDate
<1>1. SyncInv => EveryServerIsUpToDate
  BY DEF SyncInv, Current, EveryServerIsUpToDate
<1>2. QED
  BY <1>1, SyncIsKept, PTL

\* In the synchronous script, where restarts succeed, the job dies in an update
\* only of a fault that no heartbeat had found.
THEOREM CaughtIsSurvived == ~JoinTimesOut /\ AllSync /\ FleetSpec => []CaughtFaultsAreSurvived
<1>1. SyncInv => CaughtFaultsAreSurvived
  BY DEF SyncInv, CaughtFaultsAreSurvived
<1>2. QED
  BY <1>1, SyncIsKept, PTL
=============================================================================
