------------------------------ MODULE MCTfSplit ------------------------------
(* TfSplit with prompts on both sides of every threshold, for TLC. *)
EXTENDS TfSplit, TLC

CONSTANTS ja, jb, jc

(* ja: 22 tokens, hands off 8 (the last message), 12 or 20 by the capacity when  *)
(* its messages are unknown; jb: another text, 8 tokens; jc: a prefix of ja's. *)
MCAsks ==
  ja :> [text |-> "x", n |-> 22, hist |-> 21, msgs |-> {0, 9, 17}] @@
  jb :> [text |-> "y", n |-> 10, hist |-> 9, msgs |-> {0}] @@
  jc :> [text |-> "x", n |-> 7, hist |-> 0, msgs |-> {0}]
=============================================================================
