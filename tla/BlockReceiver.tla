---------------------------- MODULE BlockReceiver ----------------------------
(***************************************************************************)
(* `pd_rdma recvd` on the decode box (rdma/pd_rdma.c) with background      *)
(* writes, its default.                                                    *)
(*                                                                         *)
(* The control thread serves one sender at a time and one command at a     *)
(* time.  A block is copied from the arena into a pool buffer, queued, and *)
(* acknowledged; the writer thread lands the queued files in order.  FILE, *)
(* DONE and the end of a connection wait for the queue to drain.           *)
(*                                                                         *)
(* A critical section of the writer's mutex is one action, and so is the   *)
(* copy made outside of it and the writing of a file.  A payload is named  *)
(* by the file it is meant for, so that a file that holds another file's   *)
(* bytes is visible.  Malformed commands and sizes are left out.           *)
(***************************************************************************)
EXTENDS Naturals, Sequences

CONSTANTS
  Tags,      \* captures
  NBlocks,   \* full blocks of a capture
  Depth,     \* PD_WQ_DEPTH: pool buffers and places in the queue
  MaxFaults  \* bound on failed writes, lost connections and the like

ASSUME ReceiverAssumption ==
  NBlocks \in Nat \ {0} /\ Depth \in Nat \ {0} /\ MaxFaults \in Nat

\* the files of capture t: its blocks, then tail.safetensors and manifest.json
TailFile == NBlocks
ManifestFile == NBlocks + 1
Files == Tags \X (0 .. NBlocks + 1)

Buffers == 1 .. Depth

VARIABLES
  link,    \* control connection: "down", "up", "cut" (gone, the receiver has not noticed)
  arena,   \* the file whose bytes the last RDMA write has put into the arena
  cmd,     \* command on the control line
  reply,   \* answer on the control line: "none", "OK", "ERR"
  rcv,     \* control thread: "accept", "read", "take", "copy", "queue", "write", "drain", "close"
  mine,    \* buffer pd_writer_put holds, 0 for none
  free,    \* free_bufs[0 .. nfree - 1]
  buf,     \* what each buffer holds
  ring, head, count,  \* jobs, head, count
  wpc,     \* writer thread: "wait", "write", "return" (busy unless "wait")
  job,     \* the job the writer has taken
  failed,  \* a background write has failed
  disk,    \* disk[f]: whose bytes file f holds, for the files that have landed
  done,    \* DONE of each capture: "none", "complete" or "gaps"
  faults   \* failures so far

receiverVars ==
  <<link, arena, cmd, reply, rcv, mine, free, buf, ring, head, count, wpc, job, failed, disk, done, faults>>

-----------------------------------------------------------------------------

NoFile == <<>>

NoCmd == [op |-> "none"]
Commands ==
  [op : {"OBLK", "BLK", "FILE"}, file : Files] \cup [op : {"DONE"}, tag : Tags, status : {"complete", "gaps"}]

Jobs == [file : Files, b : Buffers]
NoJob == [file |-> NoFile, b |-> 0]

\* rename over what was there
Landed(f, bytes) == [g \in DOMAIN disk \cup {f} |-> IF g = f THEN bytes ELSE disk[g]]

Fault == faults < MaxFaults /\ faults' = faults + 1

\* pd_send_line: the answer is lost when the sender has gone
Answer(r) ==
  /\ reply' = IF link = "up" THEN r ELSE "none"
  /\ cmd' = NoCmd
  /\ rcv' = "read"

\* what a drain waits for: the queue, and the job that has left it
Drained == count = 0 /\ wpc = "wait"

\* the next place of the ring (which must wrap)
NextPlaceFlat(i) == i + 1
NextPlace(i) == (i + 1) % Depth

-----------------------------------------------------------------------------
(* Control thread *)

RecvRead ==
  /\ rcv = "read"
  /\ cmd # NoCmd
  /\ rcv' = CASE cmd.op = "OBLK" -> "take"
              [] cmd.op = "BLK" -> "write"
              [] cmd.op \in {"FILE", "DONE"} -> "drain"
  /\ UNCHANGED <<link, arena, cmd, reply, mine, free, buf, ring, head, count, wpc, job, failed, disk, done, faults>>

\* the read fails: the sender has closed or the connection is lost
RecvHangup ==
  /\ rcv = "read"
  /\ link = "cut"
  /\ rcv' = "close" /\ cmd' = NoCmd
  /\ UNCHANGED <<link, arena, reply, mine, free, buf, ring, head, count, wpc, job, failed, disk, done, faults>>

\* ensure_dir, which may fail, and pd_writer_put up to its first unlock; the flag is left for the next drain
RecvTake ==
  /\ rcv = "take"
  /\ \/ Fault /\ Answer("ERR") /\ UNCHANGED <<mine, free>>
     \/ failed /\ Answer("ERR") /\ UNCHANGED <<mine, free, faults>>
     \/ /\ ~failed /\ free # <<>>
        /\ mine' = free[Len(free)]
        /\ free' = SubSeq(free, 1, Len(free) - 1)
        /\ rcv' = "copy"
        /\ UNCHANGED <<cmd, reply, faults>>
  /\ UNCHANGED <<link, arena, buf, ring, head, count, wpc, job, failed, disk, done>>

\* memcpy out of the arena, without the lock
RecvCopy ==
  /\ rcv = "copy"
  /\ buf' = [buf EXCEPT ![mine] = arena]
  /\ rcv' = "queue"
  /\ UNCHANGED <<link, arena, cmd, reply, mine, free, ring, head, count, wpc, job, failed, disk, done, faults>>

\* pd_writer_put from its second lock on
RecvQueue ==
  /\ rcv = "queue"
  /\ ring' = [ring EXCEPT ![(head + count) % Depth] = [file |-> cmd.file, b |-> mine]]
  /\ count' = count + 1
  /\ mine' = 0
  /\ Answer("OK")
  /\ UNCHANGED <<link, arena, free, buf, head, wpc, job, failed, disk, done, faults>>

\* write_block: a BLK is written before it is acknowledged
RecvWrite ==
  /\ rcv = "write"
  /\ \/ disk' = Landed(cmd.file, arena) /\ Answer("OK") /\ UNCHANGED faults
     \/ Fault /\ Answer("ERR") /\ UNCHANGED disk
  /\ UNCHANGED <<link, arena, mine, free, buf, ring, head, count, wpc, job, failed, done>>

\* FILE and DONE: drain, which reports and clears the flag, then write
RecvDrain ==
  /\ rcv = "drain"
  /\ Drained
  /\ failed' = FALSE
  /\ \/ failed /\ Answer("ERR") /\ UNCHANGED <<disk, done, faults>>
     \/ /\ ~failed /\ Answer("OK") /\ UNCHANGED faults
        /\ IF cmd.op = "FILE"
           THEN disk' = Landed(cmd.file, arena) /\ UNCHANGED done
           ELSE done' = [done EXCEPT ![cmd.tag] = cmd.status] /\ UNCHANGED disk
     \/ ~failed /\ Fault /\ Answer("ERR") /\ UNCHANGED <<disk, done>>
  /\ UNCHANGED <<link, arena, mine, free, buf, ring, head, count, wpc, job>>

\* what the last sender queued lands before the next one is accepted
RecvClose ==
  /\ rcv = "close"
  /\ Drained
  /\ failed' = FALSE
  /\ rcv' = "accept" /\ link' = "down"
  /\ UNCHANGED <<arena, cmd, reply, mine, free, buf, ring, head, count, wpc, job, disk, done, faults>>

Receiver ==
  RecvRead \/ RecvHangup \/ RecvTake \/ RecvCopy \/ RecvQueue \/ RecvWrite \/ RecvDrain \/ RecvClose

-----------------------------------------------------------------------------
(* Writer thread *)

TakeJob ==
  /\ wpc = "wait"
  /\ count > 0
  /\ job' = ring[head]
  /\ head' = NextPlace(head)
  /\ count' = count - 1
  /\ wpc' = "write"
  /\ UNCHANGED <<link, arena, cmd, reply, rcv, mine, buf, ring, failed, disk, done, faults>>

\* the buffer stays with the writer until the file is written
WriterTakeAndFree == TakeJob /\ free' = Append(free, ring[head].b)
WriterTake == TakeJob /\ UNCHANGED free

\* write_file_atomic: the file appears whole, or not at all
WriterWrite ==
  /\ wpc = "write"
  /\ wpc' = "return"
  /\ \/ disk' = Landed(job.file, buf[job.b]) /\ UNCHANGED <<failed, faults>>
     \/ Fault /\ failed' = TRUE /\ UNCHANGED disk
  /\ UNCHANGED <<link, arena, cmd, reply, rcv, mine, free, buf, ring, head, count, job, done>>

\* the buffer comes back whether or not the file was written
GivenBackIfWritten == IF failed THEN free ELSE Append(free, job.b)
GivenBack == Append(free, job.b)

WriterReturn ==
  /\ wpc = "return"
  /\ free' = GivenBack
  /\ wpc' = "wait"
  /\ UNCHANGED <<link, arena, cmd, reply, rcv, mine, buf, ring, head, count, job, failed, disk, done, faults>>

Writer == WriterTake \/ WriterWrite \/ WriterReturn

-----------------------------------------------------------------------------

\* the connection breaks
LinkLost ==
  /\ link = "up"
  /\ Fault
  /\ link' = "cut"
  /\ UNCHANGED <<arena, cmd, reply, rcv, mine, free, buf, ring, head, count, wpc, job, failed, disk, done>>

ReceiverInit ==
  /\ link = "down" /\ arena = NoFile /\ cmd = NoCmd /\ reply = "none"
  /\ rcv = "accept" /\ mine = 0
  /\ free = [i \in Buffers |-> i] /\ buf = [b \in Buffers |-> NoFile]
  /\ ring = [i \in 0 .. Depth - 1 |-> NoJob]
  /\ head = 0 /\ count = 0
  /\ wpc = "wait" /\ job = NoJob
  /\ failed = FALSE
  /\ disk = <<>> /\ done = [t \in Tags |-> "none"] /\ faults = 0

\* places of the ring that hold a job
Queued == {(head + k) % Depth : k \in 0 .. count - 1}

=============================================================================
