--------------------------- MODULE CaptureLanding ---------------------------
(***************************************************************************)
(* What the front door relies on (spark_prefill_kv_stream in pd_front.py): *)
(* files of a capture land one by one, "the manifest arrives after the     *)
(* last block and DONE after the manifest", and a DONE that says           *)
(* `complete` stands behind every block.                                   *)
(***************************************************************************)
EXTENDS Naturals

CONSTANTS
  Tags,    \* captures
  NBlocks  \* full blocks of a capture

VARIABLES
  landed,  \* files that are on disk
  done     \* DONE of each capture: "none", "complete" or "gaps"

Block(t, k) == <<t, k>>
TailOf(t) == <<t, NBlocks>>
ManifestOf(t) == <<t, NBlocks + 1>>

Whole(t) == \A k \in 0 .. NBlocks - 1 : Block(t, k) \in landed

Land(f) == f \notin landed /\ landed' = landed \cup {f} /\ UNCHANGED done

LandBlock(t, k) == ManifestOf(t) \notin landed /\ Land(Block(t, k))

\* the tail is for the decoder that already has the blocks
LandTail(t) == ManifestOf(t) \notin landed /\ Whole(t) /\ Land(TailOf(t))

LandManifest(t) == done[t] = "none" /\ Land(ManifestOf(t))

Commit(t, status) ==
  /\ done[t] = "none"
  /\ ManifestOf(t) \in landed
  /\ status = "complete" => Whole(t)
  /\ done' = [done EXCEPT ![t] = status]
  /\ UNCHANGED landed

Init == landed = {} /\ done = [t \in Tags |-> "none"]

Next ==
  \E t \in Tags :
    \/ \E k \in 0 .. NBlocks - 1 : LandBlock(t, k)
    \/ LandTail(t)
    \/ LandManifest(t)
    \/ \E status \in {"complete", "gaps"} : Commit(t, status)

Spec == Init /\ [][Next]_<<landed, done>>

=============================================================================
