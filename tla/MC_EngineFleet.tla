--------------------------- MODULE MC_EngineFleet ---------------------------
\* One job for TLC, in each of the two scripts.
EXTENDS EngineFleet

SyncJob  == { [script |-> "train", interval |-> 1] }
AsyncJob == { [script |-> "train_async", interval |-> 1] }
=============================================================================
