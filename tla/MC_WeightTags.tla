--------------------------- MODULE MC_WeightTags ---------------------------
\* Jobs for TLC: the options of one actor that decide which weights are where.
EXTENDS WeightTags

Submitted(script, interval, withRef, keepOldActor, colocate, refInterval) ==
  [script |-> script, interval |-> interval, withRef |-> withRef,
   keepOldActor |-> keepOldActor, colocate |-> colocate, refInterval |-> refInterval]

SomeJobs ==
  { Submitted("train", 1, TRUE, FALSE, TRUE, 2),
    Submitted("train", 1, FALSE, FALSE, FALSE, 0),
    Submitted("train_async", 1, TRUE, TRUE, FALSE, 0),
    Submitted("train_async", 2, TRUE, FALSE, FALSE, 3),
    Submitted("train_async", 2, FALSE, TRUE, FALSE, 0) }

RefWithoutColocation == { Submitted("train", 1, TRUE, FALSE, FALSE, 0) }
=============================================================================
