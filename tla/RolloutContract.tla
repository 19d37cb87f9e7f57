-------------------------- MODULE RolloutContract --------------------------
(***************************************************************************)
(* What a rollout function promises its caller, RolloutManager.generate:   *)
(* each call returns exactly rollout_batch_size groups, each created by    *)
(* the data source and never returned before.  Between two deliveries the  *)
(* rollout may create groups and give groups up, in any number.            *)
(***************************************************************************)
EXTENDS Integers, FiniteSets

CONSTANT BatchSize

VARIABLES
  open,        \* groups created, neither delivered nor given up
  trained,     \* groups delivered for training
  nextGroup,   \* groups created so far
  delivered    \* calls that returned

contractVars == <<open, trained, nextGroup, delivered>>

Init == open = {} /\ trained = {} /\ nextGroup = 0 /\ delivered = 0

\* Draw new groups from the data set and give up some of the open ones.
Work ==
  /\ nextGroup' \in Nat
  /\ nextGroup' >= nextGroup
  /\ open' \subseteq open \union (nextGroup .. nextGroup' - 1)
  /\ UNCHANGED <<trained, delivered>>

Deliver ==
  /\ \E batch \in SUBSET open :
       /\ Cardinality(batch) = BatchSize
       /\ trained' = trained \union batch
       /\ open' = open \ batch
  /\ delivered' = delivered + 1
  /\ UNCHANGED nextGroup

Next == Work \/ Deliver

Spec == Init /\ [][Next]_contractVars
=============================================================================
