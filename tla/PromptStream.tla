---------------------------- MODULE PromptStream ----------------------------
(***************************************************************************)
(* What a data source promises: one endless stream of prompts, epoch after *)
(* epoch, each in the order its seed gives; every group carries its place  *)
(* in the stream, and a resumed job goes on where the checkpoint was.      *)
(***************************************************************************)
EXTENDS Integers, Sequences

CONSTANTS Size, Order

VARIABLES
  next,    \* place of the next prompt
  kept,    \* its value in the last checkpoint
  handed   \* what the last draw gave

Prompt(k) == Order[k \div Size][(k % Size) + 1]
Stretch(n) == [i \in 1 .. n |-> [place |-> next + i - 1, prompt |-> Prompt(next + i - 1)]]

Init == next = 0 /\ kept = 0 /\ handed = <<>>

Hand == next' >= next /\ handed' = Stretch(next' - next) /\ kept' = kept
Keep == kept' = next /\ UNCHANGED <<next, handed>>
Resume == next' = kept /\ handed' = <<>> /\ kept' = kept

Next == Hand \/ Keep \/ Resume
Spec == Init /\ [][Next]_<<next, kept, handed>>
=============================================================================
