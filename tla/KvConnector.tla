----------------------------- MODULE KvConnector -----------------------------
(***************************************************************************)
(* The KV connector on the prefill box (spark/pd_kv_connector.py) sending  *)
(* to the receiver of module BlockReceiver.                                *)
(*                                                                         *)
(* The forward thread of vLLM's worker cuts each request's rows into       *)
(* blocks and puts them on a bounded queue; one sender thread takes them   *)
(* off and sends them one by one over the only RDMA handle.  The handle is *)
(* opened by the first block of a capture, dropped by whoever sees a send  *)
(* fail, and opened again by the next capture.                             *)
(*                                                                         *)
(* Positions count blocks.  The rows after the last full block come with   *)
(* the last chunk; all but one of them are the tail.                       *)
(***************************************************************************)
EXTENDS BlockReceiver

CONSTANTS
  Native,       \* captures that ask for the decoder's own block files ("omlx")
  HasTail,      \* more than one row follows the last full block
  Overlap,      \* the engine runs several tagged requests at once
  QMax,         \* _SEND_QUEUE_BLOCKS
  MaxRestarts   \* bound on preemptions

ASSUME ConnectorAssumption ==
  /\ Native \subseteq Tags
  /\ HasTail \in BOOLEAN /\ Overlap \in BOOLEAN
  /\ QMax \in Nat \ {0} /\ MaxRestarts \in Nat

VARIABLES
  pos,      \* num_computed_tokens of each request, Aborted when the client has gone
  caps,     \* every _Capture so far
  cur,      \* _caps: the capture of each tag, 0 for none
  fpc,      \* forward thread: "idle", "open", "ingest", "put"
  chunk,    \* the _Chunk it is saving, with the blocks of it still to be put
  sendq,    \* _sendq
  hand,     \* item of the sender thread, until task_done
  spc,      \* what the sender sends: "block", "tail", "manifest", "done"
  waiting,  \* ... and whether it waits for the answer
  tx,       \* _tx: "none", "up", or "dead" (the handle has failed and is still held)
  restarts  \* preemptions so far

forwardVars == <<pos, caps, cur, fpc, chunk, restarts>>
connectorVars == <<pos, caps, cur, fpc, chunk, sendq, hand, spc, waiting, tx, restarts>>
vars == <<receiverVars, connectorVars>>

-----------------------------------------------------------------------------

Aborted == NBlocks + 1

NoItem == [kind |-> "none"]
BlockItem(i, k) == [kind |-> "block", cap |-> i, index |-> k]
FinishItem(i) == [kind |-> "finish", cap |-> i]

NewCapture(t, wire) ==
  [tag |-> t, wire |-> wire, have |-> 0, blocks |-> 0, sent |-> 0,
   gap |-> FALSE, error |-> FALSE, end |-> "open"]

\* _manifest: the capture's verdict on itself (that every row came is not enough)
StatusOfRows(c) == IF c.have = NBlocks THEN "complete" ELSE "gaps"
Status(c) ==
  IF ~c.gap /\ c.have = NBlocks /\ c.sent = c.blocks /\ ~c.error THEN "complete" ELSE "gaps"

\* _tail_blob
SendsTail(c) == HasTail /\ c.tag \in Native /\ ~c.gap /\ ~c.error

\* every item put has been taken and marked done: what join() waits for
Joined == sendq = <<>> /\ hand = NoItem

\* pd_tx_close: the control connection ends (it must not be left open)
StaysUp == link
Hung == IF link = "up" THEN "cut" ELSE link

Running(t) == pos[t] \in 1 .. NBlocks - 1

\* in the middle of its prompt, or preempted there
Unfinished(t) == Running(t) \/ (pos[t] = 0 /\ cur[t] # 0)

-----------------------------------------------------------------------------
(* Forward thread *)

NextChunk(t, n) ==
  /\ fpc = "idle"
  /\ pos[t] + n <= NBlocks
  /\ Overlap \/ \A u \in Tags \ {t} : ~Unfinished(u)
  /\ pos' = [pos EXCEPT ![t] = @ + n]

\* wait_for_save with every layer there, up to _ingest
Step(t, n) ==
  /\ NextChunk(t, n)
  /\ chunk' = [tag |-> t, start |-> pos[t], left |-> n, last |-> pos[t] + n = NBlocks]
  /\ fpc' = IF cur[t] = 0 \/ pos[t] = 0 THEN "open" ELSE "ingest"
  /\ UNCHANGED <<receiverVars, caps, cur, sendq, hand, spc, waiting, tx, restarts>>

\* "step missing layers; dropping capture"
Missing(t, n) ==
  /\ NextChunk(t, n)
  /\ Fault
  /\ cur' = [cur EXCEPT ![t] = 0]
  /\ UNCHANGED <<link, arena, cmd, reply, rcv, mine, free, buf, ring, head, count, wpc, job, failed, disk, done>>
  /\ UNCHANGED <<caps, fpc, chunk, sendq, hand, spc, waiting, tx, restarts>>

\* the scheduler takes the request's pages away; it will start from 0
Preempt(t) ==
  /\ fpc = "idle" /\ Running(t)
  /\ restarts < MaxRestarts
  /\ restarts' = restarts + 1
  /\ pos' = [pos EXCEPT ![t] = 0]
  /\ UNCHANGED <<receiverVars, caps, cur, fpc, chunk, sendq, hand, spc, waiting, tx>>

\* the client goes away; nobody tells the worker's _caps
Abort(t) ==
  /\ fpc = "idle" /\ Running(t)
  /\ pos' = [pos EXCEPT ![t] = Aborted]
  /\ UNCHANGED <<receiverVars, caps, cur, fpc, chunk, sendq, hand, spc, waiting, tx, restarts>>

\* _tx_get also drops a dead handle; it never finds one, since only a tail leaves it to the
\* manifest of the same capture to drop the handle (TypeOK of KvStream says so).
\* pd_tx_open returns once the receiver has accepted
Connect ==
  /\ fpc = "open" /\ Joined
  /\ tx = "none" /\ link = "down" /\ rcv = "accept"
  /\ tx' = "up" /\ link' = "up" /\ rcv' = "read" /\ reply' = "none"
  /\ UNCHANGED <<arena, cmd, mine, free, buf, ring, head, count, wpc, job, failed, disk, done, faults>>
  /\ UNCHANGED <<forwardVars, sendq, hand, spc, waiting>>

OpenCapture(wire) ==
  /\ caps' = Append(caps, NewCapture(chunk.tag, wire))
  /\ cur' = [cur EXCEPT ![chunk.tag] = Len(caps) + 1]
  /\ fpc' = "ingest"
  /\ UNCHANGED <<pos, chunk, sendq, hand, spc, waiting, tx, restarts>>

Open == fpc = "open" /\ Joined /\ tx = "up" /\ OpenCapture(TRUE) /\ UNCHANGED receiverVars

\* no connection: the capture falls back to files
OpenFile ==
  /\ fpc = "open" /\ Joined /\ tx = "none"
  /\ Fault
  /\ OpenCapture(FALSE)
  /\ UNCHANGED <<link, arena, cmd, reply, rcv, mine, free, buf, ring, head, count, wpc, job, failed, disk, done>>

\* _ingest and the test at the top of _cut_blocks
Ingest ==
  LET i == cur[chunk.tag] c == caps[i] IN
  /\ fpc = "ingest"
  /\ fpc' = "put"
  /\ IF chunk.start # c.have
     THEN /\ caps' = [caps EXCEPT ![i].gap = TRUE]
          /\ chunk' = [chunk EXCEPT !.left = 0]
     ELSE /\ caps' = [caps EXCEPT ![i].have = @ + chunk.left]
          /\ chunk' = IF c.gap THEN [chunk EXCEPT !.left = 0] ELSE chunk
  /\ UNCHANGED <<receiverVars, pos, cur, sendq, hand, spc, waiting, tx, restarts>>

\* the loop of _cut_blocks: put blocks while the queue has no place
CutBlock ==
  LET i == cur[chunk.tag] c == caps[i] IN
  /\ fpc = "put" /\ chunk.left > 0
  /\ \/ /\ c.error
        /\ chunk' = [chunk EXCEPT !.left = 0]
        /\ UNCHANGED <<caps, sendq>>
     \/ /\ c.wire /\ ~c.error
        /\ Len(sendq) < QMax
        /\ sendq' = Append(sendq, BlockItem(i, c.blocks))
        /\ caps' = [caps EXCEPT ![i].blocks = @ + 1]
        /\ chunk' = [chunk EXCEPT !.left = @ - 1]
     \/ /\ ~c.wire
        /\ caps' = [caps EXCEPT ![i].blocks = @ + 1, ![i].sent = @ + 1]
        /\ chunk' = [chunk EXCEPT !.left = @ - 1]
        /\ UNCHANGED sendq
  /\ UNCHANGED <<receiverVars, pos, cur, fpc, hand, spc, waiting, tx, restarts>>

\* the end of _ingest, with _finish after the last chunk
EndChunk ==
  LET i == cur[chunk.tag] IN
  /\ fpc = "put" /\ chunk.left = 0
  /\ \/ ~chunk.last /\ UNCHANGED <<caps, cur, sendq>>
     \/ /\ chunk.last
        /\ \/ /\ caps[i].wire
              /\ Len(sendq) < QMax
              /\ sendq' = Append(sendq, FinishItem(i))
              /\ caps' = [caps EXCEPT ![i].end = "finishing"]
           \/ /\ ~caps[i].wire
              /\ caps' = [caps EXCEPT ![i].end = "file"]
              /\ UNCHANGED sendq
        /\ cur' = [cur EXCEPT ![chunk.tag] = 0]
  /\ fpc' = "idle"
  /\ UNCHANGED <<receiverVars, pos, chunk, hand, spc, waiting, tx, restarts>>

Forward ==
  \/ \E t \in Tags :
       \/ \E n \in 1 .. NBlocks : Step(t, n) \/ Missing(t, n)
       \/ Preempt(t)
       \/ Abort(t)
  \/ Connect \/ Open \/ OpenFile \/ Ingest \/ CutBlock \/ EndChunk

-----------------------------------------------------------------------------
(* Sender thread *)

SenderGet ==
  /\ hand = NoItem /\ sendq # <<>>
  /\ hand' = Head(sendq)
  /\ sendq' = Tail(sendq)
  /\ spc' = IF Head(sendq).kind = "block" THEN "block" ELSE "tail"
  /\ UNCHANGED <<receiverVars, forwardVars, waiting, tx>>

Held == caps[hand.cap]

\* a block of a capture that has failed, a tail that is not sent
Skips == IF spc = "block" THEN Held.error ELSE spc = "tail" /\ (~SendsTail(Held) \/ tx = "none")

SenderSkip ==
  /\ hand # NoItem /\ ~waiting
  /\ Skips
  /\ IF spc = "block" THEN hand' = NoItem /\ UNCHANGED spc ELSE spc' = "manifest" /\ UNCHANGED hand
  /\ UNCHANGED <<receiverVars, forwardVars, sendq, waiting, tx>>

Payload ==
  CASE spc = "block" -> <<Held.tag, hand.index>>
    [] spc = "tail" -> <<Held.tag, TailFile>>
    [] spc = "manifest" -> <<Held.tag, ManifestFile>>
    [] spc = "done" -> arena

Command ==
  CASE spc = "block" -> [op |-> IF Held.tag \in Native THEN "OBLK" ELSE "BLK", file |-> Payload]
    [] spc \in {"tail", "manifest"} -> [op |-> "FILE", file |-> Payload]
    [] spc = "done" -> [op |-> "DONE", tag |-> Held.tag, status |-> Status(Held)]

\* one RDMA write into the arena, then the command
SenderSend ==
  /\ hand # NoItem /\ ~waiting /\ ~Skips
  /\ tx = "up" /\ link = "up"
  /\ arena' = Payload
  /\ cmd' = Command
  /\ waiting' = TRUE
  /\ UNCHANGED <<link, reply, rcv, mine, free, buf, ring, head, count, wpc, job, failed, disk, done, faults>>
  /\ UNCHANGED <<forwardVars, sendq, hand, spc, tx>>

SenderOk ==
  /\ waiting /\ reply = "OK"
  /\ reply' = "none" /\ waiting' = FALSE
  /\ \/ /\ spc = "block"
        /\ caps' = [caps EXCEPT ![hand.cap].sent = @ + 1]
        /\ hand' = NoItem /\ UNCHANGED spc
     \/ spc = "tail" /\ spc' = "manifest" /\ UNCHANGED <<caps, hand>>
     \/ spc = "manifest" /\ spc' = "done" /\ UNCHANGED <<caps, hand>>
     \/ /\ spc = "done"
        /\ caps' = [caps EXCEPT ![hand.cap].end = "done"]
        /\ hand' = NoItem /\ UNCHANGED spc
  /\ UNCHANGED <<link, arena, cmd, rcv, mine, free, buf, ring, head, count, wpc, job, failed, disk, done, faults>>
  /\ UNCHANGED <<pos, cur, fpc, chunk, sendq, tx, restarts>>

\* a send that cannot start, or whose answer is ERR or never comes (both must be noticed)
SendFailsByAnswer ==
  IF waiting THEN reply = "ERR" ELSE ~Skips /\ (tx # "up" \/ link # "up")
SendFails ==
  IF waiting THEN reply = "ERR" \/ link # "up" ELSE ~Skips /\ (tx # "up" \/ link # "up")

\* the handle is dead at once; whoever sent decides whether it is dropped
SenderError ==
  /\ hand # NoItem
  /\ SendFails
  /\ waiting' = FALSE /\ reply' = "none"
  /\ \/ /\ spc = "tail"
        /\ tx' = "dead" /\ spc' = "manifest"
        /\ UNCHANGED <<link, caps, hand>>
     \/ /\ spc # "tail"
        /\ tx' = "none" /\ link' = Hung
        /\ caps' = IF spc = "block"
                   THEN [caps EXCEPT ![hand.cap].error = TRUE, ![hand.cap].gap = TRUE]
                   ELSE [caps EXCEPT ![hand.cap].end = "lost"]
        /\ hand' = NoItem /\ UNCHANGED spc
  \* the write may go through although the command cannot be sent
  /\ arena' \in {arena} \cup (IF waiting \/ tx # "up" THEN {} ELSE {Payload})
  /\ UNCHANGED <<cmd, rcv, mine, free, buf, ring, head, count, wpc, job, failed, disk, done, faults>>
  /\ UNCHANGED <<pos, cur, fpc, chunk, sendq, restarts>>

Sender == SenderGet \/ SenderSkip \/ SenderSend \/ SenderOk \/ SenderError

-----------------------------------------------------------------------------

Init ==
  /\ ReceiverInit
  /\ pos = [t \in Tags |-> 0] /\ caps = <<>> /\ cur = [t \in Tags |-> 0]
  /\ fpc = "idle" /\ chunk = [left |-> 0]
  /\ sendq = <<>> /\ hand = NoItem /\ spc = "block" /\ waiting = FALSE
  /\ tx = "none" /\ restarts = 0

Next ==
  \/ Forward
  \/ Sender
  \/ (Receiver \/ Writer \/ LinkLost) /\ UNCHANGED connectorVars

Spec == Init /\ [][Next]_vars

=============================================================================
