--------------------------- MODULE MCPooledBridge ---------------------------
(* PooledBridge on two or three layers, for TLC. *)
EXTENDS PooledBridge, TLC

KindSwaC128 == 0 :> "swa" @@ 1 :> "c128"
KindSwaC4 == 0 :> "swa" @@ 1 :> "c4"
MCRequests == 1 .. MaxReq
=============================================================================
