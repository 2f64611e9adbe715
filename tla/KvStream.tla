------------------------------ MODULE KvStream ------------------------------
(***************************************************************************)
(* The connector and the receiver together: what a tagged request's        *)
(* capture means to the decode box, and that nobody waits for ever.        *)
(***************************************************************************)
EXTENDS KvConnector, FiniteSets

\* What spark_prefill_kv_stream (pd_front.py 608-613) takes for granted.
Landing == INSTANCE CaptureLanding WITH landed <- DOMAIN disk

-----------------------------------------------------------------------------
(* Types *)

Captures ==
  [tag : Tags, wire : BOOLEAN, have : 0 .. NBlocks, blocks : 0 .. NBlocks, sent : Nat,
   gap : BOOLEAN, error : BOOLEAN, end : {"open", "finishing", "done", "lost", "file"}]

QueueItems ==
  [kind : {"block"}, cap : DOMAIN caps, index : 0 .. NBlocks - 1] \cup [kind : {"finish"}, cap : DOMAIN caps]

Chunks == [tag : Tags, start : 0 .. NBlocks, left : 0 .. NBlocks, last : BOOLEAN]

ReceiverType ==
  /\ link \in {"down", "up", "cut"} /\ arena \in Files \cup {NoFile}
  /\ cmd \in Commands \cup {NoCmd} /\ reply \in {"none", "OK", "ERR"}
  /\ rcv \in {"accept", "read", "take", "copy", "queue", "write", "drain", "close"}
  /\ mine \in Buffers \cup {0}
  /\ free \in Seq(Buffers) /\ Len(free) <= Depth
  /\ buf \in [Buffers -> Files \cup {NoFile}]
  /\ ring \in [0 .. Depth - 1 -> Jobs \cup {NoJob}]
  /\ head \in 0 .. Depth - 1 /\ count \in 0 .. Depth
  /\ wpc \in {"wait", "write", "return"} /\ job \in Jobs \cup {NoJob}
  /\ failed \in BOOLEAN
  /\ DOMAIN disk \subseteq Files /\ \A f \in DOMAIN disk : disk[f] \in Files \cup {NoFile}
  /\ done \in [Tags -> {"none", "complete", "gaps"}]
  /\ faults \in 0 .. MaxFaults

ConnectorType ==
  /\ pos \in [Tags -> 0 .. Aborted]
  /\ caps \in Seq(Captures)
  /\ cur \in [Tags -> 0 .. Len(caps)]
  /\ fpc \in {"idle", "open", "ingest", "put"}
  /\ fpc # "idle" => chunk \in Chunks
  /\ sendq \in Seq(QueueItems) /\ Len(sendq) <= QMax
  /\ hand \in QueueItems \cup {NoItem}
  /\ spc \in {"block", "tail", "manifest", "done"}
  /\ waiting \in BOOLEAN
  /\ tx \in {"none", "up", "dead"} /\ (tx = "dead" => hand # NoItem)
  /\ restarts \in 0 .. MaxRestarts

\* The variables hold what the code's variables can hold: the pool and the ring stay
\* within PD_WQ_DEPTH, the send queue within its maxsize, a capture never counts more blocks
\* than its prompt has, and a dead handle is held only while its sender is at work.
TypeOK == ReceiverType /\ ConnectorType

-----------------------------------------------------------------------------
(* Safety *)

\* A file holds the bytes that were sent for it: the one arena and the few pool buffers are
\* not overwritten while a block is still to be copied or written (pd_writer_put, R4).
WholeFiles == \A f \in DOMAIN disk : disk[f] = f

\* The places pool buffer b is in.
Places(b) ==
  {<<"free", i>> : i \in {i \in DOMAIN free : free[i] = b}}
    \cup {<<"ring", i>> : i \in {i \in Queued : ring[i].b = b}}
    \cup (IF mine = b THEN {<<"receiver", 0>>} ELSE {})
    \cup (IF wpc # "wait" /\ job.b = b THEN {<<"writer", 0>>} ELSE {})

\* Each pool buffer is free, being filled, queued or being written, and only one of these:
\* it is taken, filled and queued in separate critical sections (pd_writer_put).
PoolConserved == \A b \in Buffers : \E p \in Places(b) : Places(b) = {p}

\* DONE says `complete` only when every block of the capture has landed
\* (docs/RDMA.md 67-69, pd_rdma.c 252-257).
DoneIsWhole == \A t \in Tags : done[t] = "complete" => Landing!Whole(t)

\* Files land in the order the front relies on, and DONE speaks the truth.
LandsInOrder == Landing!Spec

\* A capture whose blocks have all landed does not lose its DONE because of its tail:
\* "the tail is an optimization: never fail the capture over it" (pd_kv_connector.py 660).
TailIsOptional ==
  [][\A i \in DOMAIN caps :
       caps[i].end = "finishing" /\ caps'[i].end = "lost" /\ Landing!Whole(caps[i].tag)
         => link # "up" \/ reply = "ERR"]_vars

-----------------------------------------------------------------------------
(* Liveness *)

\* All threads are loops that run whenever they can.  Nothing is assumed of requests,
\* of preemption, of clients going away or of failures.
FairSpec ==
  /\ Spec
  /\ WF_vars(Connect \/ Open \/ Ingest \/ CutBlock \/ EndChunk)
  /\ WF_vars(Sender)
  /\ WF_vars(Receiver /\ UNCHANGED connectorVars)
  /\ WF_vars(Writer /\ UNCHANGED connectorVars)

\* The forward thread, and with it the engine, never hangs in the connector: not on a full
\* queue, not on join(), not on a connection the receiver does not accept.
ForwardReturns == fpc # "idle" ~> fpc = "idle"

\* How many captures are opened: one for a request, a preemption, a step without its layers.
MaxCaptures == Cardinality(Tags) + MaxRestarts + MaxFaults

\* A capture that is handed over for its end gets its DONE, or is given up.
CaptureEnds ==
  \A i \in 1 .. MaxCaptures :
    (i \in DOMAIN caps /\ caps[i].end = "finishing")
      ~> (i \in DOMAIN caps /\ caps[i].end \in {"done", "lost"})

=============================================================================
