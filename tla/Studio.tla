-------------------------------- MODULE Studio --------------------------------
(***************************************************************************)
(* The decode box in one of its two modes: the front is started with       *)
(* PD_MODE=pooled, against a pair that runs the capture hook (RowBridge),  *)
(* or with PD_MODE=kv, against a pair that runs the KV connector (KvDoor). *)
(***************************************************************************)
EXTENDS RowBridge, KvDoor

VARIABLE mode  \* PD_MODE

studioVars == <<mode, rowVars, kvVars>>

\* PD_TRANSPORT only matters in kv mode
StudioInit ==
  /\ mode \in {"pooled", "kv"} /\ RowInit /\ KvInit
  /\ mode = "pooled" => via = CHOOSE t \in Transports : TRUE

Pooled == mode = "pooled" /\ RowNext /\ UNCHANGED <<mode, kvVars>>
Kv == mode = "kv" /\ KvNext /\ UNCHANGED <<mode, rowVars>>

StudioNext == Pooled \/ Kv

StudioSpec == StudioInit /\ [][StudioNext]_studioVars /\ RowFairness /\ KvFairness
=============================================================================
