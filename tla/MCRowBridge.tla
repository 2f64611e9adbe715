----------------------------- MODULE MCRowBridge -----------------------------
(* Small instances of RowBridge, for TLC.                                  *)
EXTENDS RowBridge, TLC

\* a sliding-window layer, and one of either compressor
Kind3 == 0 :> "swa" @@ 1 :> "c4" @@ 2 :> "c128"
P(n) == [i \in 1 .. n |-> i]
Stranger == <<31, 32, 33, 34, 35>>
AllPrompts == {P(5), P(9), P(13), Stranger}
Strangers == {Stranger}
\* a conversation that grows
Talk == <<P(5), P(9), P(13)>>
\* the same, with something unrelated bridged in between
Interrupted == <<P(5), Stranger, P(9)>>
=============================================================================
