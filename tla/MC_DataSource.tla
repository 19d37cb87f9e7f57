--------------------------- MODULE MC_DataSource ---------------------------
(* Three prompts in three different orders, one per epoch. *)
EXTENDS DataSource, TLC

Orders == (0 :> <<1, 3, 2>>) @@ (1 :> <<3, 2, 1>>) @@ (2 :> <<2, 1, 3>>)
=============================================================================
