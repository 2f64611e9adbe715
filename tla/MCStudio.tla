------------------------------ MODULE MCStudio ------------------------------
(* A small instance of Studio, for TLC.                                    *)
EXTENDS Studio, MCRowBridge

Ask == <<P(4), P(8)>>
=============================================================================
