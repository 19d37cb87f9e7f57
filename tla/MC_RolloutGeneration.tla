------------------------ MODULE MC_RolloutGeneration ------------------------
\* Instances of RolloutGeneration for TLC; the cfg files give the sizes.
EXTENDS RolloutGeneration
CONSTANTS e1, e2
OneEngine == {e1}
TwoEngines == {e1, e2}
=============================================================================
