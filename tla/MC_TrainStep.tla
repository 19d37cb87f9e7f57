---------------------------- MODULE MC_TrainStep ----------------------------
(* Four groups of three samples for two ranks, in two steps, in any order and  *)
(* with repetitions, and a rollout with a sample too many.                     *)
EXTENDS TrainStep

SomeGroups == { <<4, 4, 4>>, <<2, 1, 1>>, <<1, 5, 1>> }
SomeRollouts ==
  { a \o b \o c \o d : a, b, c, d \in SomeGroups } \cup { <<3, 1, 2, 3, 1, 2, 2, 3, 1, 1, 3, 2, 4>> }

Job(balance, dynamic, vp_group, ref, recomputed, experts) ==
  [balance |-> balance, dynamic |-> dynamic, vp_group |-> vp_group, ref |-> ref,
   log_probs |-> recomputed, replay |-> experts]

SomeOptions ==
  { Job(TRUE,  TRUE,  0, TRUE,  TRUE,  "train"),
    Job(TRUE,  TRUE,  0, FALSE, TRUE,  "rollout"),
    Job(TRUE,  TRUE,  0, FALSE, FALSE, "rollout"),
    Job(FALSE, TRUE,  2, TRUE,  TRUE,  "rollout"),
    Job(FALSE, FALSE, 0, FALSE, TRUE,  "train"),
    Job(TRUE,  FALSE, 0, TRUE,  FALSE, "none") }
=============================================================================
