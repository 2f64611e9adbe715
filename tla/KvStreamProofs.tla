--------------------------- MODULE KvStreamProofs ---------------------------
(***************************************************************************)
(* Proofs about the KV connector and the receiver: types, conservation of  *)
(* the buffer pool, and that a file never holds another file's bytes.      *)
(***************************************************************************)
EXTENDS KvStream, SequenceTheorems, TLAPS

-----------------------------------------------------------------------------
(* The inductive invariant *)

\* The k-th job of the queue, counted from 0.
Place(k) == (head + k) % Depth
Job(k) == ring[Place(k)]

\* One command at a time: the receiver works on what the sender waits for, and the
\* arena holds the payload of the command that is on the line.
CommandInv ==
  /\ rcv \in {"take", "copy", "queue"} => cmd # NoCmd /\ cmd.op = "OBLK"
  /\ rcv = "write" => cmd # NoCmd /\ cmd.op = "BLK"
  /\ rcv = "drain" => cmd # NoCmd /\ cmd.op \in {"FILE", "DONE"}
  /\ rcv \in {"accept", "close"} => cmd = NoCmd
  /\ cmd # NoCmd => reply = "none" /\ (waiting \/ tx # "up")
  /\ cmd # NoCmd /\ link = "up" => waiting
  /\ cmd # NoCmd /\ cmd.op # "DONE" => arena = cmd.file
  /\ reply # "none" => waiting
  /\ waiting => tx = "up" /\ hand # NoItem
  /\ link = "up" => tx # "none" /\ rcv \notin {"accept", "close"}

\* What a capture counts: blocks cut, of blocks had, of the prompt's blocks.
CaptureInv ==
  /\ \A i \in DOMAIN caps : caps[i].blocks <= caps[i].have
  /\ fpc # "idle" => chunk.start + chunk.left <= NBlocks \/ fpc = "put"
  /\ fpc \in {"ingest", "put"} => cur[chunk.tag] # 0
  /\ fpc = "put" => caps[cur[chunk.tag]].blocks + chunk.left <= caps[cur[chunk.tag]].have
  /\ hand # NoItem => (hand.kind = "block" <=> spc = "block")
  /\ tx = "dead" => spc = "manifest"

\* Every buffer is counted once.
CountInv ==
  /\ Len(free) + count + (IF mine = 0 THEN 0 ELSE 1) + (IF wpc = "wait" THEN 0 ELSE 1) = Depth
  /\ mine # 0 <=> rcv \in {"copy", "queue"}

\* No buffer is in two places.
ApartInv ==
  /\ \A i, j \in DOMAIN free : free[i] = free[j] => i = j
  /\ \A j, k \in 0 .. count - 1 : Job(j).b = Job(k).b => j = k
  /\ \A i \in DOMAIN free : free[i] # mine
  /\ \A k \in 0 .. count - 1 : Job(k).b # mine
  /\ \A i \in DOMAIN free, k \in 0 .. count - 1 : free[i] # Job(k).b
  /\ wpc # "wait" =>
       /\ job.b # mine
       /\ \A i \in DOMAIN free : free[i] # job.b
       /\ \A k \in 0 .. count - 1 : Job(k).b # job.b

\* No buffer is lost.
KeptInv ==
  \A b \in Buffers :
    \/ \E i \in DOMAIN free : free[i] = b
    \/ \E k \in 0 .. count - 1 : Job(k).b = b
    \/ mine = b
    \/ wpc # "wait" /\ job.b = b

\* A buffer that waits to be written holds the bytes of its file.
BytesInv ==
  /\ rcv = "queue" => buf[mine] = cmd.file
  /\ \A k \in 0 .. count - 1 : Job(k) \in Jobs /\ buf[Job(k).b] = Job(k).file
  /\ wpc # "wait" => job \in Jobs /\ buf[job.b] = job.file

PoolInv == CountInv /\ ApartInv /\ KeptInv /\ BytesInv /\ WholeFiles

KvInv == TypeOK /\ CommandInv /\ CaptureInv /\ PoolInv

-----------------------------------------------------------------------------
(* The ring *)

\* Places are places of the ring.
LEMMA PlaceType ==
  ASSUME NEW h \in 0 .. Depth - 1, NEW k \in Nat PROVE (h + k) % Depth \in 0 .. Depth - 1
  BY ReceiverAssumption

\* The ring wraps at most once.
LEMMA PlaceWraps ==
  ASSUME NEW h \in 0 .. Depth - 1, NEW k \in 0 .. Depth
  PROVE (h + k) % Depth = IF h + k < Depth THEN h + k ELSE h + k - Depth
<1>1. CASE h + k < Depth
  BY <1>1, ReceiverAssumption
<1>2. CASE h + k >= Depth
  <2>. DEFINE x == h + k
  <2>1. x \in Nat /\ Depth <= x /\ x < 2 * Depth
    BY <1>2, ReceiverAssumption
  <2>2. x % Depth = x - Depth
    <3>. HIDE DEF x
    <3>. QED  BY <2>1, ReceiverAssumption
  <2>. QED  BY <1>2, <2>2, ReceiverAssumption
<1>. QED  BY <1>1, <1>2, ReceiverAssumption

\* The first job is at head.
LEMMA PlaceFirst ==
  ASSUME NEW h \in 0 .. Depth - 1 PROVE (h + 0) % Depth = h
<1>1. h + 0 = h /\ h + 0 < Depth /\ 0 \in 0 .. Depth
  BY ReceiverAssumption
<1>. QED  BY <1>1, PlaceWraps

\* As many jobs as the ring has places do not meet.
LEMMA PlaceApart ==
  ASSUME NEW h \in 0 .. Depth - 1, NEW j \in 0 .. Depth - 1, NEW k \in 0 .. Depth - 1,
         (h + j) % Depth = (h + k) % Depth
  PROVE j = k
<1>1. j \in 0 .. Depth /\ k \in 0 .. Depth
  BY ReceiverAssumption
<1>2. /\ (h + j) % Depth = IF h + j < Depth THEN h + j ELSE h + j - Depth
      /\ (h + k) % Depth = IF h + k < Depth THEN h + k ELSE h + k - Depth
  BY <1>1, PlaceWraps
<1>. DEFINE x == (h + j) % Depth
            y == (h + k) % Depth
<1>3. x = y
  OBVIOUS
<1>. HIDE DEF x, y
<1>4. /\ x = IF h + j < Depth THEN h + j ELSE h + j - Depth
      /\ y = IF h + k < Depth THEN h + k ELSE h + k - Depth
  BY <1>2 DEF x, y
<1>. QED  BY <1>3, <1>4, ReceiverAssumption

\* Taking the first job makes the second one the first.
LEMMA PlaceNext ==
  ASSUME NEW h \in 0 .. Depth - 1, NEW k \in 0 .. Depth - 1
  PROVE /\ NextPlace(h) \in 0 .. Depth - 1
        /\ (NextPlace(h) + k) % Depth = (h + (k + 1)) % Depth
<1>1. 1 \in 0 .. Depth /\ k \in 0 .. Depth /\ k + 1 \in 0 .. Depth
  BY ReceiverAssumption
<1>2. NextPlace(h) = IF h + 1 < Depth THEN h + 1 ELSE h + 1 - Depth
  BY <1>1, PlaceWraps DEF NextPlace
<1>3. NextPlace(h) \in 0 .. Depth - 1
  BY <1>2, ReceiverAssumption
<1>4. (NextPlace(h) + k) % Depth
        = IF NextPlace(h) + k < Depth THEN NextPlace(h) + k ELSE NextPlace(h) + k - Depth
  BY <1>1, <1>3, PlaceWraps
<1>5. (h + (k + 1)) % Depth = IF h + (k + 1) < Depth THEN h + (k + 1) ELSE h + (k + 1) - Depth
  BY <1>1, PlaceWraps
<1>. DEFINE x == (NextPlace(h) + k) % Depth
            y == (h + (k + 1)) % Depth
            n == NextPlace(h)
<1>6. /\ n = IF h + 1 < Depth THEN h + 1 ELSE h + 1 - Depth
      /\ x = IF n + k < Depth THEN n + k ELSE n + k - Depth
      /\ y = IF h + (k + 1) < Depth THEN h + (k + 1) ELSE h + (k + 1) - Depth
  BY <1>2, <1>4, <1>5
<1>7. x = y
  <2>. HIDE DEF x, y, n
  <2>. QED  BY <1>6, ReceiverAssumption
<1>. QED  BY <1>3, <1>7

-----------------------------------------------------------------------------
(* Writer thread *)

\* The connector's part of the invariant speaks of the connector only.
LEMMA ConnectorKeeps ==
  ASSUME ConnectorType, CaptureInv, UNCHANGED connectorVars
  PROVE ConnectorType' /\ CaptureInv'
  BY DEF ConnectorType, CaptureInv, connectorVars, QueueItems, Captures, Chunks

\* Taking the first job keeps types and pool: its buffer moves from the ring to the writer (writer thread, first section).
LEMMA WriterTakes ==
  ASSUME ReceiverType, PoolInv, WriterTake PROVE ReceiverType' /\ PoolInv'
<1>. USE ReceiverAssumption
<1>1. /\ head \in 0 .. Depth - 1 /\ count \in 1 .. Depth /\ count' = count - 1
      /\ head' = NextPlace(head) /\ ring' = ring /\ free' = free /\ mine' = mine /\ buf' = buf
      /\ job' = ring[head] /\ wpc = "wait" /\ wpc' = "write"
      /\ rcv' = rcv /\ cmd' = cmd /\ disk' = disk
  BY DEF WriterTake, TakeJob, ReceiverType
<1>2. \A k \in 0 .. count' - 1 : Job(k)' = Job(k + 1) /\ k + 1 \in 0 .. count - 1
  <2>. TAKE k \in 0 .. count' - 1
  <2>1. k \in 0 .. Depth - 1 /\ k + 1 \in 0 .. count - 1
    BY <1>1
  <2>. QED  BY <1>1, <2>1, PlaceNext DEF Job, Place
<1>3. job' = Job(0) /\ 0 \in 0 .. count - 1
  <2>1. (head + 0) % Depth = head
    BY <1>1, PlaceFirst
  <2>. QED  BY <1>1, <2>1 DEF Job, Place
<1>4. job' \in Jobs
  BY <1>3 DEF PoolInv, BytesInv
<1>5. ReceiverType'
  <2>1. head' \in 0 .. Depth - 1
    BY <1>1, PlaceNext
  <2>2. count' \in 0 .. Depth
    BY <1>1
  <2>3. /\ UNCHANGED <<link, arena, cmd, reply, rcv, mine, free, buf, ring, failed, disk, done, faults>>
        /\ wpc' = "write"
    BY DEF WriterTake, TakeJob
  <2>. QED  BY <1>4, <2>1, <2>2, <2>3 DEF ReceiverType
<1>6. CountInv'
  BY <1>1 DEF PoolInv, CountInv, ReceiverType
<1>7. ApartInv'
  <2>1. \A j, k \in 0 .. count' - 1 : Job(j)'.b = Job(k)'.b => j = k
    BY <1>1, <1>2 DEF PoolInv, ApartInv
  <2>2. \A k \in 0 .. count' - 1 : Job(k)'.b # mine /\ Job(k)'.b # job'.b
    <3>. TAKE k \in 0 .. count' - 1
    <3>1. k + 1 # 0 /\ Job(k)' = Job(k + 1) /\ k + 1 \in 0 .. count - 1
      BY <1>1, <1>2
    <3>. QED  BY <3>1, <1>3 DEF PoolInv, ApartInv
  <2>3. \A i \in DOMAIN free, k \in 0 .. count' - 1 : free[i] # Job(k)'.b
    BY <1>2 DEF PoolInv, ApartInv
  <2>4. job'.b # mine /\ \A i \in DOMAIN free : free[i] # job'.b
    BY <1>3 DEF PoolInv, ApartInv
  <2>. QED  BY <1>1, <2>1, <2>2, <2>3, <2>4 DEF PoolInv, ApartInv
<1>8. KeptInv'
  <2>. SUFFICES ASSUME NEW b \in Buffers
                PROVE \/ \E i \in DOMAIN free : free[i] = b
                      \/ \E k \in 0 .. count' - 1 : Job(k)'.b = b
                      \/ mine = b
                      \/ job'.b = b
    BY <1>1 DEF KeptInv, Buffers
  <2>1. ASSUME NEW k \in 0 .. count - 1, Job(k).b = b, k # 0
        PROVE \E l \in 0 .. count' - 1 : Job(l)'.b = b
    <3>1. k - 1 \in 0 .. count' - 1 /\ (k - 1) + 1 = k
      BY <2>1, <1>1
    <3>2. Job(k - 1)' = Job(k)
      BY <3>1, <1>2
    <3>. QED  BY <3>1, <3>2, <2>1
  <2>. QED  BY <1>1, <1>3, <2>1 DEF PoolInv, KeptInv
<1>9. BytesInv'
  BY <1>1, <1>2, <1>3 DEF PoolInv, BytesInv
<1>10. WholeFiles'
  BY <1>1 DEF PoolInv, WholeFiles
<1>. QED  BY <1>5, <1>6, <1>7, <1>8, <1>9, <1>10 DEF PoolInv

\* A step that moves no buffer.
LEMMA PoolFrame ==
  ASSUME CountInv, ApartInv, KeptInv,
         UNCHANGED <<mine, free, ring, head, count, job>>,
         wpc' = "wait" <=> wpc = "wait",
         rcv' \in {"copy", "queue"} <=> rcv \in {"copy", "queue"}
  PROVE CountInv' /\ ApartInv' /\ KeptInv'
<1>1. \A k : Job(k)' = Job(k)
  BY DEF Job, Place
<1>2. CountInv'
  BY DEF CountInv
<1>3. ApartInv'
  BY <1>1 DEF ApartInv
<1>4. KeptInv'
  BY <1>1 DEF KeptInv, Buffers
<1>. QED  BY <1>2, <1>3, <1>4

\* A step that moves no bytes into a buffer.
LEMMA BytesFrame ==
  ASSUME BytesInv, UNCHANGED <<buf, ring, head, count, job>>,
         wpc' # "wait" => wpc # "wait",
         rcv' = "queue" => rcv = "queue" /\ UNCHANGED <<mine, cmd>>
  PROVE BytesInv'
<1>1. \A k : Job(k)' = Job(k)
  BY DEF Job, Place
<1>. QED  BY <1>1 DEF BytesInv

\* Writing a job lands its own bytes, or fails and lands nothing (write_file_atomic).
LEMMA WriterWrites ==
  ASSUME ReceiverType, PoolInv, WriterWrite PROVE ReceiverType' /\ PoolInv'
<1>1. /\ job \in Jobs /\ buf[job.b] = job.file /\ wpc = "write" /\ wpc' = "return"
      /\ UNCHANGED <<link, arena, cmd, reply, rcv, mine, free, buf, ring, head, count, job, done>>
  BY DEF WriterWrite, PoolInv, BytesInv
<1>2. CountInv' /\ ApartInv' /\ KeptInv'
  BY <1>1, PoolFrame DEF PoolInv
<1>3. BytesInv'
  BY <1>1, BytesFrame DEF PoolInv
<1>4. job.file \in Files
  BY <1>1 DEF Jobs
<1>5. CASE disk' = Landed(job.file, buf[job.b]) /\ UNCHANGED <<failed, faults>>
  <2>1. WholeFiles'
    BY <1>1, <1>5 DEF Landed, PoolInv, WholeFiles
  <2>2. ReceiverType'
    BY <1>1, <1>4, <1>5 DEF ReceiverType, Landed
  <2>. QED  BY <1>2, <1>3, <2>1, <2>2 DEF PoolInv
<1>6. CASE Fault /\ failed' = TRUE /\ UNCHANGED disk
  <2>1. WholeFiles'
    BY <1>6 DEF PoolInv, WholeFiles
  <2>2. ReceiverType'
    BY <1>1, <1>6, ReceiverAssumption DEF ReceiverType, Fault
  <2>. QED  BY <1>2, <1>3, <2>1, <2>2 DEF PoolInv
<1>. QED  BY <1>5, <1>6 DEF WriterWrite

\* Giving the buffer back keeps types and pool, whether the write worked or not.
LEMMA WriterReturns ==
  ASSUME ReceiverType, PoolInv, WriterReturn PROVE ReceiverType' /\ PoolInv'
<1>1. /\ job \in Jobs /\ wpc = "return" /\ wpc' = "wait"
      /\ free' = Append(free, job.b)
      /\ UNCHANGED <<link, arena, cmd, reply, rcv, mine, buf, ring, head, count, job, failed, disk, done, faults>>
  BY DEF WriterReturn, GivenBack, PoolInv, BytesInv
<1>2. job.b \in Buffers /\ free \in Seq(Buffers) /\ Len(free) \in Nat /\ count \in Nat
  BY <1>1, ReceiverAssumption DEF Jobs, ReceiverType
<1>3. /\ DOMAIN free = 1 .. Len(free) /\ DOMAIN free' = 1 .. Len(free) + 1
      /\ free' \in Seq(Buffers) /\ Len(free') = Len(free) + 1
      /\ \A i \in 1 .. Len(free) : free'[i] = free[i]
      /\ free'[Len(free) + 1] = job.b
  BY <1>1, <1>2
<1>4. \A k : Job(k)' = Job(k)
  BY <1>1 DEF Job, Place
<1>5. CountInv'
  BY <1>1, <1>2, <1>3, ReceiverAssumption DEF PoolInv, CountInv, ReceiverType
<1>6. ReceiverType'
  BY <1>1, <1>2, <1>3, <1>5, ReceiverAssumption DEF ReceiverType, CountInv
<1>7. ApartInv'
  BY <1>1, <1>2, <1>3, <1>4 DEF PoolInv, ApartInv
<1>8. KeptInv'
  <2>. SUFFICES ASSUME NEW b \in Buffers
                PROVE \/ \E i \in DOMAIN free' : free'[i] = b
                      \/ \E k \in 0 .. count - 1 : Job(k).b = b
                      \/ mine = b
    BY <1>1, <1>4 DEF KeptInv, Buffers
  <2>1. CASE job.b = b
    BY <2>1, <1>2, <1>3
  <2>2. CASE \E i \in DOMAIN free : free[i] = b
    BY <2>2, <1>2, <1>3
  <2>. QED  BY <2>1, <2>2 DEF PoolInv, KeptInv
<1>9. BytesInv'
  BY <1>1, BytesFrame DEF PoolInv
<1>10. WholeFiles'
  BY <1>1 DEF PoolInv, WholeFiles
<1>. QED  BY <1>5, <1>6, <1>7, <1>8, <1>9, <1>10 DEF PoolInv

\* Every step of the writer thread keeps the invariant.
LEMMA WriterStep ==
  ASSUME KvInv, Writer, UNCHANGED connectorVars PROVE KvInv'
<1>1. ReceiverType' /\ PoolInv'
  BY WriterTakes, WriterWrites, WriterReturns DEF Writer, KvInv, TypeOK
<1>2. UNCHANGED <<link, arena, cmd, reply, rcv>>
  BY DEF Writer, WriterTake, TakeJob, WriterWrite, WriterReturn
<1>3. CommandInv'
  BY <1>2 DEF KvInv, CommandInv, connectorVars
<1>. QED  BY <1>1, <1>3, ConnectorKeeps DEF KvInv, TypeOK

-----------------------------------------------------------------------------
(* Control thread of the receiver *)

\* What the command line says when the receiver works on it.
LEMMA CommandType ==
  ASSUME ReceiverType, cmd # NoCmd
  PROVE /\ cmd.op \in {"OBLK", "BLK", "FILE", "DONE"}
        /\ cmd.op # "DONE" => cmd.file \in Files
        /\ cmd.op = "DONE" => cmd.tag \in Tags /\ cmd.status \in {"complete", "gaps"}
  BY DEF ReceiverType, Commands

\* An answer ends the command.
LEMMA AnswerKeeps ==
  ASSUME CommandInv, cmd # NoCmd, NEW r \in {"OK", "ERR"}, Answer(r), link' = link, UNCHANGED connectorVars
  PROVE CommandInv' /\ rcv' = "read" /\ reply' \in {"none", "OK", "ERR"} /\ cmd' = NoCmd
  BY DEF CommandInv, Answer, connectorVars

\* Reading a command changes what the receiver does, and nothing else.
LEMMA RecvReads ==
  ASSUME KvInv, RecvRead, UNCHANGED connectorVars PROVE ReceiverType' /\ CommandInv' /\ PoolInv'
<1>1. /\ rcv = "read" /\ cmd # NoCmd
      /\ UNCHANGED <<link, arena, cmd, reply, mine, free, buf, ring, head, count, wpc, job, failed, disk, done, faults>>
  BY DEF RecvRead
<1>2. \/ cmd.op = "OBLK" /\ rcv' = "take"
      \/ cmd.op = "BLK" /\ rcv' = "write"
      \/ cmd.op \in {"FILE", "DONE"} /\ rcv' = "drain"
  BY <1>1, CommandType DEF RecvRead, KvInv, TypeOK
<1>3. ReceiverType'
  BY <1>1, <1>2 DEF ReceiverType, KvInv, TypeOK
<1>4. CommandInv'
  BY <1>1, <1>2 DEF CommandInv, KvInv, connectorVars
<1>5. CountInv' /\ ApartInv' /\ KeptInv' /\ BytesInv'
  BY <1>1, <1>2, PoolFrame, BytesFrame DEF KvInv, PoolInv
<1>6. WholeFiles'
  BY <1>1 DEF WholeFiles, KvInv, PoolInv
<1>. QED  BY <1>3, <1>4, <1>5, <1>6 DEF PoolInv

\* A failed read drops the command that was on the line.
LEMMA RecvHangsUp ==
  ASSUME KvInv, RecvHangup, UNCHANGED connectorVars PROVE ReceiverType' /\ CommandInv' /\ PoolInv'
<1>1. /\ rcv = "read" /\ link = "cut" /\ rcv' = "close" /\ cmd' = NoCmd
      /\ UNCHANGED <<link, arena, reply, mine, free, buf, ring, head, count, wpc, job, failed, disk, done, faults>>
  BY DEF RecvHangup
<1>2. ReceiverType'
  BY <1>1 DEF ReceiverType, KvInv, TypeOK
<1>3. CommandInv'
  BY <1>1 DEF CommandInv, KvInv, connectorVars
<1>4. CountInv' /\ ApartInv' /\ KeptInv' /\ BytesInv'
  BY <1>1, PoolFrame, BytesFrame DEF KvInv, PoolInv
<1>5. WholeFiles'
  BY <1>1 DEF WholeFiles, KvInv, PoolInv
<1>. QED  BY <1>2, <1>3, <1>4, <1>5 DEF PoolInv

\* The last free buffer becomes the receiver's own.
LEMMA RecvTakes ==
  ASSUME KvInv, RecvTake, UNCHANGED connectorVars PROVE ReceiverType' /\ CommandInv' /\ PoolInv'
<1>1. /\ rcv = "take" /\ cmd # NoCmd /\ cmd.op = "OBLK" /\ mine = 0
      /\ UNCHANGED <<link, arena, buf, ring, head, count, wpc, job, failed, disk, done>>
  BY DEF RecvTake, KvInv, CommandInv, PoolInv, CountInv
<1>2. WholeFiles'
  BY <1>1 DEF WholeFiles, KvInv, PoolInv
<1>3. CASE Answer("ERR") /\ UNCHANGED <<mine, free>> /\ (Fault \/ UNCHANGED faults)
  <2>1. CommandInv' /\ rcv' = "read" /\ reply' \in {"none", "OK", "ERR"} /\ cmd' = NoCmd
    BY <1>1, <1>3, AnswerKeeps DEF KvInv
  <2>2. ReceiverType'
    BY <1>1, <1>3, <2>1, ReceiverAssumption DEF ReceiverType, KvInv, TypeOK, Fault
  <2>3. CountInv' /\ ApartInv' /\ KeptInv' /\ BytesInv'
    BY <1>1, <1>3, <2>1, PoolFrame, BytesFrame DEF KvInv, PoolInv
  <2>. QED  BY <1>2, <2>1, <2>2, <2>3 DEF PoolInv
<1>4. CASE /\ free # <<>> /\ mine' = free[Len(free)] /\ free' = SubSeq(free, 1, Len(free) - 1)
           /\ rcv' = "copy" /\ UNCHANGED <<cmd, reply, faults>>
  <2>1. free \in Seq(Buffers) /\ Len(free) \in Nat /\ Len(free) # 0 /\ Len(free) <= Depth
    BY <1>4 DEF KvInv, TypeOK, ReceiverType
  <2>2. /\ free' \in Seq(Buffers) /\ Len(free') = Len(free) - 1
        /\ DOMAIN free = 1 .. Len(free) /\ DOMAIN free' = 1 .. Len(free) - 1
        /\ \A i \in 1 .. Len(free) - 1 : free'[i] = free[i]
        /\ mine' \in Buffers
    <3>1. DOMAIN free = 1 .. Len(free) /\ Len(free) \in DOMAIN free
      BY <2>1
    <3>2. free[Len(free)] \in Buffers
      BY <2>1, <3>1
    <3>. DEFINE rest == SubSeq(free, 1, Len(free) - 1)
    <3>3. /\ rest \in Seq(Buffers) /\ Len(rest) = Len(free) - 1
          /\ \A i \in 1 .. Len(free) - 1 : rest[i] = free[i]
      <4>. DEFINE n == Len(free) - 1
      <4>1. n \in Nat /\ \A i \in 1 .. n : free[i] \in Buffers
        BY <2>1
      <4>. HIDE DEF n
      <4>2. /\ SubSeq(free, 1, n) \in Seq(Buffers)
            /\ Len(SubSeq(free, 1, n)) = IF 1 <= n THEN n - 1 + 1 ELSE 0
            /\ \A i \in 1 .. n - 1 + 1 : SubSeq(free, 1, n)[i] = free[1 + i - 1]
        BY <4>1, SubSeqProperties
      <4>3. /\ SubSeq(free, 1, n) \in Seq(Buffers) /\ Len(SubSeq(free, 1, n)) = n
            /\ \A i \in 1 .. n : SubSeq(free, 1, n)[i] = free[i]
        BY <4>1, <4>2
      <4>. QED  BY <4>3 DEF n
    <3>4. DOMAIN rest = 1 .. Len(rest)
      BY <3>3
    <3>. HIDE DEF rest
    <3>. QED  BY <1>4, <3>1, <3>2, <3>3, <3>4 DEF rest
  <2>3. mine' # 0
    BY <2>2 DEF Buffers
  <2>4. ReceiverType'
    BY <1>1, <1>4, <2>1, <2>2, ReceiverAssumption DEF ReceiverType, KvInv, TypeOK
  <2>5. CommandInv'
    BY <1>1, <1>4 DEF CommandInv, KvInv, connectorVars
  <2>6. \A k : Job(k)' = Job(k)
    BY <1>1 DEF Job, Place
  <2>7. CountInv'
    <3>1. count \in Nat
      BY DEF KvInv, TypeOK, ReceiverType
    <3>2. Len(free) + count + 0 + (IF wpc = "wait" THEN 0 ELSE 1) = Depth
      BY <1>1 DEF KvInv, PoolInv, CountInv
    <3>3. Len(free') + count' + 1 + (IF wpc' = "wait" THEN 0 ELSE 1) = Depth
      BY <1>1, <2>1, <2>2, <3>1, <3>2, ReceiverAssumption
    <3>. QED  BY <1>4, <2>3, <3>3 DEF CountInv
  <2>8. ApartInv'
    BY <1>1, <1>4, <2>1, <2>2, <2>6 DEF KvInv, PoolInv, ApartInv
  <2>9. KeptInv'
    <3>. SUFFICES ASSUME NEW b \in Buffers
                  PROVE \/ \E i \in DOMAIN free' : free'[i] = b
                        \/ \E k \in 0 .. count - 1 : Job(k).b = b
                        \/ mine' = b
                        \/ wpc # "wait" /\ job.b = b
      BY <1>1, <2>6 DEF KeptInv, Buffers
    <3>1. ASSUME NEW i \in DOMAIN free, free[i] = b
          PROVE mine' = b \/ \E l \in DOMAIN free' : free'[l] = b
      <4>1. i = Len(free) \/ i \in 1 .. Len(free) - 1
        BY <2>1, <2>2
      <4>. QED  BY <3>1, <4>1, <1>4, <2>2
    <3>2. b # 0
      BY DEF Buffers
    <3>. QED  BY <1>1, <3>1, <3>2 DEF KvInv, PoolInv, KeptInv
  <2>10. BytesInv'
    BY <1>1, <1>4, BytesFrame DEF KvInv, PoolInv
  <2>. QED  BY <1>2, <2>4, <2>5, <2>7, <2>8, <2>9, <2>10 DEF PoolInv
<1>. QED  BY <1>3, <1>4 DEF RecvTake

\* The copy goes to a buffer that is nobody else's.
LEMMA RecvCopies ==
  ASSUME KvInv, RecvCopy, UNCHANGED connectorVars PROVE ReceiverType' /\ CommandInv' /\ PoolInv'
<1>1. /\ rcv = "copy" /\ rcv' = "queue" /\ buf' = [buf EXCEPT ![mine] = arena]
      /\ UNCHANGED <<link, arena, cmd, reply, mine, free, ring, head, count, wpc, job, failed, disk, done, faults>>
  BY DEF RecvCopy
<1>2. mine \in Buffers /\ cmd # NoCmd /\ cmd.op = "OBLK" /\ arena = cmd.file
  BY <1>1 DEF KvInv, PoolInv, CountInv, TypeOK, ReceiverType, CommandInv
<1>3. buf \in [Buffers -> Files \cup {NoFile}] /\ arena \in Files \cup {NoFile}
  BY DEF KvInv, TypeOK, ReceiverType
<1>4. buf' \in [Buffers -> Files \cup {NoFile}] /\ buf'[mine] = arena
      /\ \A b \in Buffers : b # mine => buf'[b] = buf[b]
  BY <1>1, <1>2, <1>3
<1>5. ReceiverType'
  BY <1>1, <1>4 DEF ReceiverType, KvInv, TypeOK
<1>6. CommandInv'
  BY <1>1, <1>2 DEF CommandInv, KvInv, connectorVars
<1>7. CountInv' /\ ApartInv' /\ KeptInv'
  BY <1>1, PoolFrame DEF KvInv, PoolInv
<1>8. \A k : Job(k)' = Job(k)
  BY <1>1 DEF Job, Place
<1>9. BytesInv'
  <2>1. \A k \in 0 .. count - 1 : Job(k) \in Jobs /\ Job(k).b \in Buffers /\ Job(k).b # mine
    BY DEF KvInv, PoolInv, BytesInv, ApartInv, Jobs
  <2>2. wpc # "wait" => job \in Jobs /\ job.b \in Buffers /\ job.b # mine
    BY DEF KvInv, PoolInv, BytesInv, ApartInv, Jobs
  <2>. QED  BY <1>1, <1>2, <1>4, <1>8, <2>1, <2>2 DEF KvInv, PoolInv, BytesInv
<1>10. WholeFiles'
  BY <1>1 DEF WholeFiles, KvInv, PoolInv
<1>. QED  BY <1>5, <1>6, <1>7, <1>9, <1>10 DEF PoolInv

\* The place after the last job is empty: one buffer is in the receiver's hand.
LEMMA RecvQueues ==
  ASSUME KvInv, RecvQueue, UNCHANGED connectorVars PROVE ReceiverType' /\ CommandInv' /\ PoolInv'
<1>1. /\ rcv = "queue" /\ ring' = [ring EXCEPT ![Place(count)] = [file |-> cmd.file, b |-> mine]]
      /\ count' = count + 1 /\ mine' = 0 /\ Answer("OK")
      /\ UNCHANGED <<link, arena, free, buf, head, wpc, job, failed, disk, done, faults>>
  BY DEF RecvQueue, Place
<1>2. mine \in Buffers /\ mine # 0 /\ cmd # NoCmd /\ cmd.op = "OBLK"
  BY <1>1 DEF KvInv, PoolInv, CountInv, TypeOK, ReceiverType, CommandInv
<1>3. head \in 0 .. Depth - 1 /\ count \in 0 .. Depth - 1 /\ Len(free) \in Nat
  BY <1>2, ReceiverAssumption DEF KvInv, PoolInv, CountInv, TypeOK, ReceiverType
<1>4. CommandInv' /\ rcv' = "read" /\ reply' \in {"none", "OK", "ERR"} /\ cmd' = NoCmd
  BY <1>1, <1>2, AnswerKeeps DEF KvInv
<1>. DEFINE new == [file |-> cmd.file, b |-> mine]
<1>5. new \in Jobs
  BY <1>2, CommandType DEF Jobs, KvInv, TypeOK
<1>6. Place(count) \in 0 .. Depth - 1
  BY <1>3, PlaceType DEF Place
<1>7. /\ ring' \in [0 .. Depth - 1 -> Jobs \cup {NoJob}]
      /\ ring'[Place(count)] = new
      /\ \A p \in 0 .. Depth - 1 : p # Place(count) => ring'[p] = ring[p]
  BY <1>1, <1>5, <1>6 DEF KvInv, TypeOK, ReceiverType
<1>8. \A k \in 0 .. count - 1 : Job(k)' = Job(k)
  <2>. TAKE k \in 0 .. count - 1
  <2>1. k \in 0 .. Depth - 1 /\ k # count /\ k \in Nat
    BY <1>3, ReceiverAssumption
  <2>2. Place(k) \in 0 .. Depth - 1 /\ Place(k) # Place(count) /\ Place(k)' = Place(k)
    BY <1>1, <1>3, <2>1, PlaceType, PlaceApart DEF Place
  <2>. QED  BY <1>7, <2>2 DEF Job
<1>9. \A k : k = count => Job(k)' = new
  BY <1>1, <1>7 DEF Job, Place
<1>10. \A k \in 0 .. count' - 1 : k = count \/ k \in 0 .. count - 1
  BY <1>1, <1>3
<1>. HIDE DEF new
<1>11. new.b = mine /\ new.file = cmd.file
  BY DEF new
<1>12. ReceiverType'
  BY <1>1, <1>3, <1>4, <1>7, ReceiverAssumption DEF ReceiverType, KvInv, TypeOK
<1>13. CountInv'
  BY <1>1, <1>2, <1>3, <1>4, ReceiverAssumption DEF KvInv, PoolInv, CountInv
<1>14. ApartInv'
  <2>1. \A i \in DOMAIN free : free[i] \in Buffers
    BY DEF KvInv, TypeOK, ReceiverType
  <2>2. \A k \in 0 .. count - 1 : Job(k).b \in Buffers
    BY DEF KvInv, PoolInv, BytesInv, Jobs
  <2>3. wpc # "wait" => job.b \in Buffers
    BY DEF KvInv, PoolInv, BytesInv, Jobs
  <2>4. 0 \notin Buffers
    BY DEF Buffers
  <2>5. \A j, k \in 0 .. count' - 1 : Job(j)'.b = Job(k)'.b => j = k
    BY <1>8, <1>9, <1>10, <1>11 DEF KvInv, PoolInv, ApartInv
  <2>6. \A k \in 0 .. count' - 1 :
          /\ Job(k)'.b # 0 /\ \A i \in DOMAIN free : free[i] # Job(k)'.b
          /\ wpc # "wait" => Job(k)'.b # job.b
    BY <1>2, <1>8, <1>9, <1>10, <1>11, <2>2, <2>4 DEF KvInv, PoolInv, ApartInv
  <2>. QED  BY <1>1, <2>1, <2>3, <2>4, <2>5, <2>6 DEF KvInv, PoolInv, ApartInv
<1>15. KeptInv'
  <2>. SUFFICES ASSUME NEW b \in Buffers
                PROVE \/ \E i \in DOMAIN free : free[i] = b
                      \/ \E k \in 0 .. count' - 1 : Job(k)'.b = b
                      \/ wpc # "wait" /\ job.b = b
    BY <1>1 DEF KeptInv, Buffers
  <2>1. count \in 0 .. count' - 1 /\ 0 .. count - 1 \subseteq 0 .. count' - 1
    BY <1>1, <1>3
  <2>2. mine = b => \E k \in 0 .. count' - 1 : Job(k)'.b = b
    BY <1>9, <1>11, <2>1
  <2>3. (\E k \in 0 .. count - 1 : Job(k).b = b) => \E k \in 0 .. count' - 1 : Job(k)'.b = b
    BY <1>8, <2>1
  <2>. QED  BY <2>2, <2>3 DEF KvInv, PoolInv, KeptInv
<1>16. BytesInv'
  BY <1>1, <1>4, <1>5, <1>8, <1>9, <1>10, <1>11 DEF KvInv, PoolInv, BytesInv
<1>17. WholeFiles'
  BY <1>1 DEF WholeFiles, KvInv, PoolInv
<1>. QED  BY <1>4, <1>12, <1>13, <1>14, <1>15, <1>16, <1>17 DEF PoolInv

\* A file that lands from the arena is the file of the command.
LEMMA LandsWhole ==
  ASSUME ReceiverType, WholeFiles, NEW f \in Files, arena = f, disk' = Landed(f, arena)
  PROVE /\ WholeFiles'
        /\ DOMAIN disk' \subseteq Files
        /\ \A g \in DOMAIN disk' : disk'[g] \in Files \cup {NoFile}
  BY DEF WholeFiles, Landed, ReceiverType

\* A BLK lands the arena, which still holds its payload.
LEMMA RecvWrites ==
  ASSUME KvInv, RecvWrite, UNCHANGED connectorVars PROVE ReceiverType' /\ CommandInv' /\ PoolInv'
<1>1. /\ rcv = "write" /\ cmd # NoCmd /\ cmd.op = "BLK" /\ arena = cmd.file
      /\ UNCHANGED <<link, arena, mine, free, buf, ring, head, count, wpc, job, failed, done>>
  BY DEF RecvWrite, KvInv, CommandInv
<1>2. cmd.file \in Files
  BY <1>1, CommandType DEF KvInv, TypeOK
<1>3. CommandInv' /\ rcv' = "read" /\ reply' \in {"none", "OK", "ERR"} /\ cmd' = NoCmd
  BY <1>1, AnswerKeeps DEF RecvWrite, KvInv
<1>4. CountInv' /\ ApartInv' /\ KeptInv' /\ BytesInv'
  BY <1>1, <1>3, PoolFrame, BytesFrame DEF KvInv, PoolInv
<1>5. CASE disk' = Landed(cmd.file, arena) /\ UNCHANGED faults
  <2>1. /\ WholeFiles' /\ DOMAIN disk' \subseteq Files
        /\ \A g \in DOMAIN disk' : disk'[g] \in Files \cup {NoFile}
    BY <1>1, <1>2, <1>5, LandsWhole DEF KvInv, TypeOK, PoolInv
  <2>2. ReceiverType'
    BY <1>1, <1>3, <1>5, <2>1 DEF ReceiverType, KvInv, TypeOK
  <2>. QED  BY <1>3, <1>4, <2>1, <2>2 DEF PoolInv
<1>6. CASE Fault /\ UNCHANGED disk
  <2>1. WholeFiles'
    BY <1>6 DEF WholeFiles, KvInv, PoolInv
  <2>2. ReceiverType'
    BY <1>1, <1>3, <1>6, ReceiverAssumption DEF ReceiverType, KvInv, TypeOK, Fault
  <2>. QED  BY <1>3, <1>4, <2>1, <2>2 DEF PoolInv
<1>. QED  BY <1>5, <1>6 DEF RecvWrite

\* FILE and DONE keep the invariant in each of their outcomes: ERR, written, failed.
LEMMA RecvDrains ==
  ASSUME KvInv, RecvDrain, UNCHANGED connectorVars PROVE ReceiverType' /\ CommandInv' /\ PoolInv'
<1>1. /\ rcv = "drain" /\ cmd # NoCmd /\ cmd.op \in {"FILE", "DONE"} /\ failed' = FALSE
      /\ UNCHANGED <<link, arena, mine, free, buf, ring, head, count, wpc, job>>
  BY DEF RecvDrain, KvInv, CommandInv
<1>2. CommandInv' /\ rcv' = "read" /\ reply' \in {"none", "OK", "ERR"} /\ cmd' = NoCmd
  BY <1>1, AnswerKeeps DEF RecvDrain, KvInv
<1>3. CountInv' /\ ApartInv' /\ KeptInv' /\ BytesInv'
  BY <1>1, <1>2, PoolFrame, BytesFrame DEF KvInv, PoolInv
<1>4. ASSUME disk' = disk, done' \in [Tags -> {"none", "complete", "gaps"}], faults' \in 0 .. MaxFaults
      PROVE ReceiverType' /\ CommandInv' /\ PoolInv'
  <2>1. WholeFiles'
    BY <1>4 DEF WholeFiles, KvInv, PoolInv
  <2>2. ReceiverType'
    BY <1>1, <1>2, <1>4 DEF ReceiverType, KvInv, TypeOK
  <2>. QED  BY <1>2, <1>3, <2>1, <2>2 DEF PoolInv
<1>5. CASE cmd.op = "FILE" /\ disk' = Landed(cmd.file, arena) /\ UNCHANGED <<done, faults>>
  <2>1. cmd.file \in Files /\ arena = cmd.file
    BY <1>1, <1>5, CommandType DEF KvInv, TypeOK, CommandInv
  <2>2. /\ WholeFiles' /\ DOMAIN disk' \subseteq Files
        /\ \A g \in DOMAIN disk' : disk'[g] \in Files \cup {NoFile}
    BY <2>1, <1>5, LandsWhole DEF KvInv, TypeOK, PoolInv
  <2>3. ReceiverType'
    BY <1>1, <1>2, <1>5, <2>2 DEF ReceiverType, KvInv, TypeOK
  <2>. QED  BY <1>2, <1>3, <2>2, <2>3 DEF PoolInv
<1>6. \/ disk' = disk /\ done' = done /\ UNCHANGED faults
      \/ cmd.op = "FILE" /\ disk' = Landed(cmd.file, arena) /\ UNCHANGED <<done, faults>>
      \/ disk' = disk /\ (cmd.op = "DONE" /\ done' = [done EXCEPT ![cmd.tag] = cmd.status]) /\ UNCHANGED faults
      \/ disk' = disk /\ done' = done /\ Fault
  BY <1>1 DEF RecvDrain
<1>7. done \in [Tags -> {"none", "complete", "gaps"}] /\ faults \in 0 .. MaxFaults
  BY DEF KvInv, TypeOK, ReceiverType
<1>8. CASE disk' = disk /\ done' = done /\ UNCHANGED faults
  BY <1>4, <1>7, <1>8
<1>9. CASE disk' = disk /\ (cmd.op = "DONE" /\ done' = [done EXCEPT ![cmd.tag] = cmd.status]) /\ UNCHANGED faults
  <2>1. done' \in [Tags -> {"none", "complete", "gaps"}]
    BY <1>1, <1>7, <1>9, CommandType DEF KvInv, TypeOK
  <2>. QED  BY <1>4, <1>7, <1>9, <2>1
<1>10. CASE disk' = disk /\ done' = done /\ Fault
  <2>1. faults' \in 0 .. MaxFaults
    BY <1>7, <1>10, ReceiverAssumption DEF Fault
  <2>. QED  BY <1>4, <1>7, <1>10, <2>1
<1>. QED  BY <1>5, <1>6, <1>8, <1>9, <1>10

\* The end of a connection leaves the receiver at rest.
LEMMA RecvCloses ==
  ASSUME KvInv, RecvClose, UNCHANGED connectorVars PROVE ReceiverType' /\ CommandInv' /\ PoolInv'
<1>1. /\ rcv = "close" /\ rcv' = "accept" /\ link' = "down" /\ failed' = FALSE
      /\ UNCHANGED <<arena, cmd, reply, mine, free, buf, ring, head, count, wpc, job, disk, done, faults>>
  BY DEF RecvClose
<1>2. ReceiverType'
  BY <1>1 DEF ReceiverType, KvInv, TypeOK
<1>3. CommandInv'
  BY <1>1 DEF CommandInv, KvInv, connectorVars
<1>4. CountInv' /\ ApartInv' /\ KeptInv' /\ BytesInv'
  BY <1>1, PoolFrame, BytesFrame DEF KvInv, PoolInv
<1>5. WholeFiles'
  BY <1>1 DEF WholeFiles, KvInv, PoolInv
<1>. QED  BY <1>2, <1>3, <1>4, <1>5 DEF PoolInv

\* A broken connection leaves what the receiver holds alone.
LEMMA LinkIsLost ==
  ASSUME KvInv, LinkLost, UNCHANGED connectorVars PROVE ReceiverType' /\ CommandInv' /\ PoolInv'
<1>1. /\ link' = "cut" /\ faults' \in 0 .. MaxFaults
      /\ UNCHANGED <<arena, cmd, reply, rcv, mine, free, buf, ring, head, count, wpc, job, failed, disk, done>>
  BY ReceiverAssumption DEF LinkLost, Fault, KvInv, TypeOK, ReceiverType
<1>2. ReceiverType'
  BY <1>1 DEF ReceiverType, KvInv, TypeOK
<1>3. CommandInv'
  BY <1>1 DEF CommandInv, KvInv, connectorVars
<1>4. CountInv' /\ ApartInv' /\ KeptInv' /\ BytesInv'
  BY <1>1, PoolFrame, BytesFrame DEF KvInv, PoolInv
<1>5. WholeFiles'
  BY <1>1 DEF WholeFiles, KvInv, PoolInv
<1>. QED  BY <1>2, <1>3, <1>4, <1>5 DEF PoolInv

\* Every step of the receiver's control thread, and the loss of the connection, keeps the invariant.
LEMMA ReceiverStep ==
  ASSUME KvInv, Receiver \/ LinkLost, UNCHANGED connectorVars PROVE KvInv'
<1>1. ReceiverType' /\ CommandInv' /\ PoolInv'
  BY RecvReads, RecvHangsUp, RecvTakes, RecvCopies, RecvQueues, RecvWrites, RecvDrains, RecvCloses, LinkIsLost
     DEF Receiver
<1>. QED  BY <1>1, ConnectorKeeps DEF KvInv, TypeOK

-----------------------------------------------------------------------------
(* Sender thread *)

\* What a step of the connector leaves of the receiver: the pool, the disk and DONE.
poolVars == <<mine, free, buf, ring, head, count, wpc, job, failed, disk, done>>

\* Such a step keeps the pool's part of the invariant.
LEMMA PoolKeeps ==
  ASSUME PoolInv, UNCHANGED poolVars,
         rcv' = rcv \/ (rcv = "accept" /\ rcv' = "read"),
         rcv = "queue" => cmd' = cmd
  PROVE PoolInv'
<1>1. CountInv' /\ ApartInv' /\ KeptInv'
  BY PoolFrame DEF PoolInv, poolVars
<1>2. BytesInv'
  BY BytesFrame DEF PoolInv, poolVars
<1>3. WholeFiles'
  BY DEF PoolInv, WholeFiles, poolVars
<1>. QED  BY <1>1, <1>2, <1>3 DEF PoolInv

\* The capture the sender works for.
LEMMA HandType ==
  ASSUME KvInv, hand # NoItem
  PROVE /\ hand \in QueueItems /\ hand.cap \in DOMAIN caps /\ Held \in Captures
        /\ spc = "block" => hand.index \in 0 .. NBlocks - 1
        /\ hand.kind = "block" <=> spc = "block"
  BY DEF KvInv, TypeOK, ConnectorType, CaptureInv, QueueItems, Held

\* Taking an item off the send queue keeps the invariant (_sendq.get).
LEMMA SenderGets ==
  ASSUME KvInv, SenderGet PROVE KvInv'
<1>1. /\ hand = NoItem /\ sendq # <<>> /\ hand' = Head(sendq) /\ sendq' = Tail(sendq)
      /\ spc' = IF Head(sendq).kind = "block" THEN "block" ELSE "tail"
      /\ UNCHANGED receiverVars /\ UNCHANGED <<forwardVars, waiting, tx>>
  BY DEF SenderGet
<1>2. sendq \in Seq(QueueItems) /\ Len(sendq) <= QMax
  BY DEF KvInv, TypeOK, ConnectorType
<1>3. Head(sendq) \in QueueItems /\ Tail(sendq) \in Seq(QueueItems) /\ Len(Tail(sendq)) <= QMax
  BY <1>1, <1>2, HeadTailProperties, ConnectorAssumption
<1>4. Head(sendq) # NoItem
  BY <1>3 DEF QueueItems, NoItem
<1>5. QueueItems' = QueueItems
  BY <1>1 DEF forwardVars, QueueItems
<1>6. ConnectorType'
  BY <1>1, <1>3, <1>5 DEF KvInv, TypeOK, ConnectorType, forwardVars
<1>7. CaptureInv'
  BY <1>1 DEF KvInv, TypeOK, ConnectorType, CaptureInv, forwardVars
<1>8. CommandInv'
  BY <1>1, <1>4 DEF KvInv, CommandInv, receiverVars
<1>9. ReceiverType'
  BY <1>1 DEF KvInv, TypeOK, ReceiverType, receiverVars
<1>10. PoolInv'
  BY <1>1, PoolKeeps DEF KvInv, receiverVars, poolVars
<1>. QED  BY <1>6, <1>7, <1>8, <1>9, <1>10 DEF KvInv, TypeOK

\* Skipping a block of a failed capture, or a tail, keeps the invariant.
LEMMA SenderSkips ==
  ASSUME KvInv, SenderSkip PROVE KvInv'
<1>1. /\ hand # NoItem /\ ~waiting
      /\ \/ spc = "block" /\ hand' = NoItem /\ spc' = spc
         \/ spc = "tail" /\ spc' = "manifest" /\ hand' = hand
      /\ UNCHANGED receiverVars /\ UNCHANGED <<forwardVars, sendq, waiting, tx>>
  BY DEF SenderSkip, Skips
<1>5. QueueItems' = QueueItems
  BY <1>1 DEF forwardVars, QueueItems
<1>6. ConnectorType'
  BY <1>1, <1>5 DEF KvInv, TypeOK, ConnectorType, CaptureInv, forwardVars
<1>7. CaptureInv'
  BY <1>1 DEF KvInv, TypeOK, ConnectorType, CaptureInv, forwardVars
<1>8. CommandInv'
  BY <1>1 DEF KvInv, CommandInv, receiverVars
<1>9. ReceiverType'
  BY <1>1 DEF KvInv, TypeOK, ReceiverType, receiverVars
<1>10. PoolInv'
  BY <1>1, PoolKeeps DEF KvInv, receiverVars, poolVars
<1>. QED  BY <1>6, <1>7, <1>8, <1>9, <1>10 DEF KvInv, TypeOK

\* Replacing one capture by one that counts the same.
LEMMA CaptureReplaced ==
  ASSUME ConnectorType, NEW i \in DOMAIN caps, NEW c \in Captures, caps' = [caps EXCEPT ![i] = c]
  PROVE /\ caps' \in Seq(Captures) /\ Len(caps') = Len(caps) /\ DOMAIN caps' = DOMAIN caps
        /\ caps'[i] = c /\ \A j \in DOMAIN caps : j # i => caps'[j] = caps[j]
        /\ QueueItems' = QueueItems
<1>1. caps \in Seq(Captures) /\ DOMAIN caps = 1 .. Len(caps) /\ Len(caps) \in Nat
  BY DEF ConnectorType
<1>2. caps' \in Seq(Captures) /\ Len(caps') = Len(caps)
  BY <1>1, ExceptSeq
<1>3. DOMAIN caps' = DOMAIN caps
  OBVIOUS
<1>. QED  BY <1>1, <1>2, <1>3 DEF QueueItems

\* The sender never changes what a capture has cut or had.
LEMMA CountsKept ==
  ASSUME KvInv, NEW i \in DOMAIN caps, NEW c \in Captures, caps' = [caps EXCEPT ![i] = c],
         c.have = caps[i].have, c.blocks = caps[i].blocks,
         UNCHANGED <<pos, cur, fpc, chunk, sendq, restarts>>,
         hand' \in {hand, NoItem}, spc' \in {"block", "tail", "manifest", "done"},
         waiting' \in BOOLEAN, tx' \in {"none", "up"},
         hand' # NoItem => spc' = spc \/ {spc, spc'} \subseteq {"tail", "manifest", "done"}
  PROVE ConnectorType' /\ CaptureInv'
<1>1. /\ caps' \in Seq(Captures) /\ Len(caps') = Len(caps) /\ DOMAIN caps' = DOMAIN caps
      /\ caps'[i] = c /\ \A j \in DOMAIN caps : j # i => caps'[j] = caps[j]
      /\ QueueItems' = QueueItems
  BY CaptureReplaced DEF KvInv, TypeOK
<1>2. ConnectorType'
  BY <1>1 DEF KvInv, TypeOK, ConnectorType
<1>3. \A j \in DOMAIN caps : caps'[j].have = caps[j].have /\ caps'[j].blocks = caps[j].blocks
  BY <1>1
<1>4. fpc = "put" => cur[chunk.tag] \in DOMAIN caps
  BY DEF KvInv, TypeOK, ConnectorType, CaptureInv, Chunks
<1>5. CaptureInv'
  BY <1>1, <1>3, <1>4 DEF KvInv, CaptureInv
<1>. QED  BY <1>2, <1>5

\* What is sent is a file of the capture, or its DONE.
LEMMA CommandIsOne ==
  ASSUME KvInv, hand # NoItem
  PROVE /\ Payload \in Files \cup {NoFile}
        /\ Command \in Commands /\ Command # NoCmd
        /\ Command.op # "DONE" => Command.file = Payload
<1>1. /\ hand.cap \in DOMAIN caps /\ Held \in Captures /\ Held.tag \in Tags
      /\ spc = "block" => hand.index \in 0 .. NBlocks - 1
      /\ spc \in {"block", "tail", "manifest", "done"}
      /\ arena \in Files \cup {NoFile}
  BY HandType DEF Captures, KvInv, TypeOK, ConnectorType, ReceiverType
<1>. USE ReceiverAssumption
<1>2. CASE spc = "block"
  <2>1. Payload \in Files
    BY <1>1, <1>2 DEF Payload, Files
  <2>. QED  BY <1>2, <2>1 DEF Command, Commands, NoCmd
<1>3. CASE spc = "tail"
  <2>1. Payload \in Files
    BY <1>1, <1>3 DEF Payload, Files, TailFile
  <2>. QED  BY <1>3, <2>1 DEF Command, Commands, NoCmd
<1>4. CASE spc = "manifest"
  <2>1. Payload \in Files
    BY <1>1, <1>4 DEF Payload, Files, ManifestFile
  <2>. QED  BY <1>4, <2>1 DEF Command, Commands, NoCmd
<1>5. CASE spc = "done"
  <2>1. Payload \in Files \cup {NoFile}
    BY <1>1, <1>5 DEF Payload
  <2>2. Status(Held) \in {"complete", "gaps"}
    BY DEF Status
  <2>. QED  BY <1>1, <1>5, <2>1, <2>2 DEF Command, Commands, NoCmd
<1>. QED  BY <1>1, <1>2, <1>3, <1>4, <1>5

\* A send finds the line and the arena at rest.
LEMMA SenderSends ==
  ASSUME KvInv, SenderSend PROVE KvInv'
<1>1. /\ hand # NoItem /\ ~waiting /\ tx = "up" /\ link = "up"
      /\ arena' = Payload /\ cmd' = Command /\ waiting' = TRUE
      /\ UNCHANGED <<link, reply, rcv, mine, free, buf, ring, head, count, wpc, job, failed, disk, done, faults>>
      /\ UNCHANGED <<pos, caps, cur, fpc, chunk, restarts, sendq, hand, spc, tx>>
  BY DEF SenderSend, forwardVars
<1>2. cmd = NoCmd /\ reply = "none" /\ rcv = "read"
  BY <1>1 DEF KvInv, TypeOK, ReceiverType, CommandInv
<1>3. /\ arena' \in Files \cup {NoFile} /\ cmd' \in Commands /\ cmd' # NoCmd
      /\ cmd'.op # "DONE" => cmd'.file = arena'
  BY <1>1, CommandIsOne
<1>4. ReceiverType'
  BY <1>1, <1>3 DEF KvInv, TypeOK, ReceiverType
<1>5. QueueItems' = QueueItems
  BY <1>1 DEF QueueItems
<1>6. ConnectorType' /\ CaptureInv'
  BY <1>1, <1>5 DEF KvInv, TypeOK, ConnectorType, CaptureInv
<1>7. CommandInv'
  BY <1>1, <1>2, <1>3 DEF KvInv, CommandInv
<1>8. PoolInv'
  BY <1>1, <1>2, PoolKeeps DEF KvInv, poolVars
<1>. QED  BY <1>4, <1>6, <1>7, <1>8 DEF KvInv, TypeOK

\* An OK counts one block, or goes on to the next file of the capture's end.
LEMMA SenderOks ==
  ASSUME KvInv, SenderOk PROVE KvInv'
<1>1. /\ waiting /\ reply = "OK" /\ reply' = "none" /\ waiting' = FALSE
      /\ UNCHANGED <<link, arena, cmd, rcv, mine, free, buf, ring, head, count, wpc, job, failed, disk, done, faults>>
      /\ UNCHANGED <<pos, cur, fpc, chunk, sendq, tx, restarts>>
  BY DEF SenderOk
<1>2. hand # NoItem /\ tx = "up" /\ cmd = NoCmd
  BY <1>1 DEF KvInv, CommandInv
<1>3. hand.cap \in DOMAIN caps /\ Held \in Captures /\ Held = caps[hand.cap]
  BY <1>2, HandType DEF Held
<1>4. ReceiverType'
  BY <1>1 DEF KvInv, TypeOK, ReceiverType
<1>5. CommandInv'
  BY <1>1, <1>2 DEF KvInv, CommandInv
<1>6. PoolInv'
  BY <1>1, PoolKeeps DEF KvInv, poolVars
<1>7. ConnectorType' /\ CaptureInv'
  <2>1. CASE spc = "block" /\ caps' = [caps EXCEPT ![hand.cap].sent = @ + 1] /\ hand' = NoItem /\ UNCHANGED spc
    <3>. DEFINE c == [Held EXCEPT !.sent = @ + 1]
    <3>1. c \in Captures /\ c.have = Held.have /\ c.blocks = Held.blocks
      BY <1>3 DEF Captures
    <3>2. caps' = [caps EXCEPT ![hand.cap] = c]
      BY <1>3, <2>1
    <3>. HIDE DEF c
    <3>. QED  BY <1>1, <1>2, <1>3, <2>1, <3>1, <3>2, CountsKept DEF KvInv, TypeOK, ConnectorType
  <2>2. CASE spc = "done" /\ caps' = [caps EXCEPT ![hand.cap].end = "done"] /\ hand' = NoItem /\ UNCHANGED spc
    <3>. DEFINE c == [Held EXCEPT !.end = "done"]
    <3>1. c \in Captures /\ c.have = Held.have /\ c.blocks = Held.blocks
      BY <1>3 DEF Captures
    <3>2. caps' = [caps EXCEPT ![hand.cap] = c]
      BY <1>3, <2>2
    <3>. HIDE DEF c
    <3>. QED  BY <1>1, <1>2, <1>3, <2>2, <3>1, <3>2, CountsKept DEF KvInv, TypeOK, ConnectorType
  <2>3. CASE spc \in {"tail", "manifest"} /\ spc' \in {"manifest", "done"} /\ UNCHANGED <<caps, hand>>
    <3>1. QueueItems' = QueueItems
      BY <2>3 DEF QueueItems
    <3>. QED  BY <1>1, <1>2, <2>3, <3>1 DEF KvInv, TypeOK, ConnectorType, CaptureInv
  <2>. QED  BY <2>1, <2>2, <2>3 DEF SenderOk
<1>. QED  BY <1>4, <1>5, <1>6, <1>7 DEF KvInv, TypeOK

\* A failed send changes the arena only when no command is on the line.
LEMMA SenderFails ==
  ASSUME KvInv, SenderError PROVE KvInv'
<1>1. /\ hand # NoItem /\ SendFails /\ waiting' = FALSE /\ reply' = "none"
      /\ arena' \in {arena} \cup (IF waiting \/ tx # "up" THEN {} ELSE {Payload})
      /\ UNCHANGED <<cmd, rcv, mine, free, buf, ring, head, count, wpc, job, failed, disk, done, faults>>
      /\ UNCHANGED <<pos, cur, fpc, chunk, sendq, restarts>>
  BY DEF SenderError
<1>2. \/ spc = "tail" /\ tx' = "dead" /\ spc' = "manifest" /\ UNCHANGED <<link, caps, hand>>
      \/ /\ spc # "tail" /\ tx' = "none" /\ link' = Hung /\ hand' = NoItem /\ UNCHANGED spc
         /\ caps' = IF spc = "block"
                    THEN [caps EXCEPT ![hand.cap].error = TRUE, ![hand.cap].gap = TRUE]
                    ELSE [caps EXCEPT ![hand.cap].end = "lost"]
  BY DEF SenderError
<1>3. hand.cap \in DOMAIN caps /\ Held \in Captures /\ Held = caps[hand.cap]
  BY <1>1, HandType DEF Held
<1>4. arena' \in Files \cup {NoFile} /\ (cmd # NoCmd => arena' = arena)
  BY <1>1, CommandIsOne DEF KvInv, TypeOK, ReceiverType, CommandInv
<1>5. link' \in {"down", "up", "cut"} /\ (link' = "up" => link = "up" /\ tx' = "dead" /\ spc = "tail")
  BY <1>2 DEF Hung, KvInv, TypeOK, ReceiverType
<1>6. ReceiverType'
  BY <1>1, <1>4, <1>5 DEF KvInv, TypeOK, ReceiverType
<1>7. link' = "up" => cmd = NoCmd
  BY <1>1, <1>5 DEF SendFails, KvInv, CommandInv
<1>8. CommandInv'
  BY <1>1, <1>2, <1>4, <1>5, <1>7 DEF KvInv, CommandInv
<1>9. PoolInv'
  BY <1>1, PoolKeeps DEF KvInv, poolVars
<1>10. ConnectorType' /\ CaptureInv'
  <2>1. CASE spc = "tail" /\ tx' = "dead" /\ spc' = "manifest" /\ UNCHANGED <<link, caps, hand>>
    <3>1. QueueItems' = QueueItems
      BY <2>1 DEF QueueItems
    <3>. QED  BY <1>1, <2>1, <3>1 DEF KvInv, TypeOK, ConnectorType, CaptureInv
  <2>2. CASE /\ tx' = "none" /\ hand' = NoItem /\ UNCHANGED spc
             /\ caps' = [caps EXCEPT ![hand.cap].error = TRUE, ![hand.cap].gap = TRUE]
    <3>. DEFINE c == [Held EXCEPT !.error = TRUE, !.gap = TRUE]
    <3>1. c \in Captures /\ c.have = Held.have /\ c.blocks = Held.blocks
      BY <1>3 DEF Captures
    <3>2. caps' = [caps EXCEPT ![hand.cap] = c]
      BY <1>3, <2>2
    <3>. HIDE DEF c
    <3>. QED  BY <1>1, <1>3, <2>2, <3>1, <3>2, CountsKept DEF KvInv, TypeOK, ConnectorType
  <2>3. CASE /\ tx' = "none" /\ hand' = NoItem /\ UNCHANGED spc
             /\ caps' = [caps EXCEPT ![hand.cap].end = "lost"]
    <3>. DEFINE c == [Held EXCEPT !.end = "lost"]
    <3>1. c \in Captures /\ c.have = Held.have /\ c.blocks = Held.blocks
      BY <1>3 DEF Captures
    <3>2. caps' = [caps EXCEPT ![hand.cap] = c]
      BY <1>3, <2>3
    <3>. HIDE DEF c
    <3>. QED  BY <1>1, <1>3, <2>3, <3>1, <3>2, CountsKept DEF KvInv, TypeOK, ConnectorType
  <2>. QED  BY <1>2, <2>1, <2>2, <2>3
<1>. QED  BY <1>6, <1>8, <1>9, <1>10 DEF KvInv, TypeOK

\* Every step of the sender thread keeps the invariant.
LEMMA SenderStep ==
  ASSUME KvInv, Sender PROVE KvInv'
  BY SenderGets, SenderSkips, SenderSends, SenderOks, SenderFails DEF Sender

-----------------------------------------------------------------------------
(* Forward thread *)

\* A step that leaves the receiver alone.
LEMMA ReceiverRests ==
  ASSUME KvInv, UNCHANGED <<link, arena, cmd, reply, rcv, poolVars>>, UNCHANGED faults \/ Fault,
         UNCHANGED <<hand, waiting, tx>>
  PROVE ReceiverType' /\ CommandInv' /\ PoolInv'
<1>1. faults' \in 0 .. MaxFaults
  BY ReceiverAssumption DEF Fault, KvInv, TypeOK, ReceiverType
<1>2. ReceiverType'
  BY <1>1 DEF KvInv, TypeOK, ReceiverType, poolVars
<1>3. CommandInv'
  BY DEF KvInv, CommandInv
<1>4. PoolInv'
  BY PoolKeeps DEF KvInv
<1>. QED  BY <1>2, <1>3, <1>4

\* A step that leaves the captures alone.
LEMMA CapturesRest ==
  ASSUME KvInv, UNCHANGED <<caps, sendq, hand, spc, waiting, tx>>,
         pos' \in [Tags -> 0 .. Aborted], cur' \in [Tags -> 0 .. Len(caps)], restarts' \in 0 .. MaxRestarts,
         fpc' \in {"idle", "open", "ingest"},
         fpc' # "idle" => chunk' \in Chunks /\ chunk'.start + chunk'.left <= NBlocks,
         fpc' = "ingest" => cur'[chunk'.tag] # 0
  PROVE ConnectorType' /\ CaptureInv'
<1>1. QueueItems' = QueueItems
  BY DEF QueueItems
<1>2. ConnectorType'
  BY <1>1 DEF KvInv, TypeOK, ConnectorType
<1>3. CaptureInv'
  BY DEF KvInv, CaptureInv
<1>. QED  BY <1>2, <1>3

\* What the scheduler knows of a request.
LEMMA PosType ==
  ASSUME KvInv
  PROVE /\ pos \in [Tags -> 0 .. Aborted] /\ cur \in [Tags -> 0 .. Len(caps)] /\ restarts \in 0 .. MaxRestarts
        /\ fpc \in {"idle", "open", "ingest", "put"} /\ (fpc # "idle" => chunk \in Chunks)
        /\ Aborted \in Nat /\ NBlocks \in Nat /\ MaxRestarts \in Nat
  BY ReceiverAssumption, ConnectorAssumption DEF KvInv, TypeOK, ConnectorType, Aborted

\* A chunk that starts to be saved lies within its prompt (wait_for_save).
LEMMA Steps ==
  ASSUME KvInv, NEW t \in Tags, NEW n \in 1 .. NBlocks, Step(t, n) PROVE KvInv'
<1>1. /\ pos[t] + n <= NBlocks /\ pos' = [pos EXCEPT ![t] = @ + n]
      /\ chunk' = [tag |-> t, start |-> pos[t], left |-> n, last |-> pos[t] + n = NBlocks]
      /\ fpc' = IF cur[t] = 0 \/ pos[t] = 0 THEN "open" ELSE "ingest"
      /\ UNCHANGED receiverVars /\ UNCHANGED <<caps, cur, sendq, hand, spc, waiting, tx, restarts>>
  BY DEF Step, NextChunk
<1>2. pos[t] \in 0 .. NBlocks /\ pos' \in [Tags -> 0 .. Aborted]
  BY <1>1, PosType DEF Aborted
<1>3. chunk' \in Chunks /\ chunk'.start + chunk'.left <= NBlocks /\ chunk'.tag = t
  BY <1>1, <1>2, PosType DEF Chunks
<1>4. ConnectorType' /\ CaptureInv'
  BY <1>1, <1>2, <1>3, PosType, CapturesRest
<1>. QED  BY <1>1, <1>4, ReceiverRests DEF KvInv, TypeOK, receiverVars, poolVars

\* Dropping the capture of an incomplete step keeps the invariant.
LEMMA Misses ==
  ASSUME KvInv, NEW t \in Tags, NEW n \in 1 .. NBlocks, Missing(t, n) PROVE KvInv'
<1>1. /\ fpc = "idle" /\ pos[t] + n <= NBlocks /\ pos' = [pos EXCEPT ![t] = @ + n]
      /\ Fault /\ cur' = [cur EXCEPT ![t] = 0]
      /\ UNCHANGED <<link, arena, cmd, reply, rcv, mine, free, buf, ring, head, count, wpc, job, failed, disk, done>>
      /\ UNCHANGED <<caps, fpc, chunk, sendq, hand, spc, waiting, tx, restarts>>
  BY DEF Missing, NextChunk
<1>2. pos' \in [Tags -> 0 .. Aborted] /\ cur' \in [Tags -> 0 .. Len(caps)]
  BY <1>1, PosType DEF Aborted
<1>3. ConnectorType' /\ CaptureInv'
  BY <1>1, <1>2, PosType, CapturesRest
<1>. QED  BY <1>1, <1>3, ReceiverRests DEF KvInv, TypeOK, poolVars

\* A preempted request starts again from 0, and its capture is left as it is.
LEMMA Preempts ==
  ASSUME KvInv, NEW t \in Tags, Preempt(t) PROVE KvInv'
<1>1. /\ fpc = "idle" /\ restarts < MaxRestarts /\ restarts' = restarts + 1 /\ pos' = [pos EXCEPT ![t] = 0]
      /\ UNCHANGED receiverVars /\ UNCHANGED <<caps, cur, fpc, chunk, sendq, hand, spc, waiting, tx>>
  BY DEF Preempt
<1>2. pos' \in [Tags -> 0 .. Aborted] /\ restarts' \in 0 .. MaxRestarts
  BY <1>1, PosType
<1>3. ConnectorType' /\ CaptureInv'
  BY <1>1, <1>2, PosType, CapturesRest
<1>. QED  BY <1>1, <1>3, ReceiverRests DEF KvInv, TypeOK, receiverVars, poolVars

\* A client that goes away leaves the capture as it is.
LEMMA Aborts ==
  ASSUME KvInv, NEW t \in Tags, Abort(t) PROVE KvInv'
<1>1. /\ fpc = "idle" /\ pos' = [pos EXCEPT ![t] = Aborted]
      /\ UNCHANGED receiverVars /\ UNCHANGED <<caps, cur, fpc, chunk, sendq, hand, spc, waiting, tx, restarts>>
  BY DEF Abort
<1>2. pos' \in [Tags -> 0 .. Aborted]
  BY <1>1, PosType
<1>3. ConnectorType' /\ CaptureInv'
  BY <1>1, <1>2, PosType, CapturesRest
<1>. QED  BY <1>1, <1>3, ReceiverRests DEF KvInv, TypeOK, receiverVars, poolVars

\* The receiver that accepts is at rest, and so is the sender.
LEMMA Connects ==
  ASSUME KvInv, Connect PROVE KvInv'
<1>1. /\ fpc = "open" /\ hand = NoItem /\ tx' = "up" /\ link' = "up"
      /\ rcv = "accept" /\ rcv' = "read" /\ reply' = "none"
      /\ UNCHANGED <<arena, cmd, mine, free, buf, ring, head, count, wpc, job, failed, disk, done, faults>>
      /\ UNCHANGED <<pos, caps, cur, fpc, chunk, restarts, sendq, hand, spc, waiting>>
  BY DEF Connect, Joined, forwardVars
<1>2. cmd = NoCmd /\ ~waiting
  BY <1>1 DEF KvInv, TypeOK, ConnectorType, CommandInv
<1>3. ReceiverType'
  BY <1>1 DEF KvInv, TypeOK, ReceiverType
<1>4. CommandInv'
  BY <1>1, <1>2 DEF KvInv, CommandInv
<1>5. PoolInv'
  BY <1>1, PoolKeeps DEF KvInv, poolVars
<1>6. QueueItems' = QueueItems
  BY <1>1 DEF QueueItems
<1>7. ConnectorType' /\ CaptureInv'
  BY <1>1, <1>6 DEF KvInv, TypeOK, ConnectorType, CaptureInv
<1>. QED  BY <1>3, <1>4, <1>5, <1>7 DEF KvInv, TypeOK

\* A new capture comes when the sender has nothing to do.
LEMMA OpensCapture ==
  ASSUME KvInv, fpc = "open", Joined, NEW wire \in BOOLEAN, OpenCapture(wire),
         UNCHANGED <<link, arena, cmd, reply, rcv, poolVars>>, UNCHANGED faults \/ Fault
  PROVE KvInv'
<1>. DEFINE c == NewCapture(chunk.tag, wire)
<1>1. /\ caps' = Append(caps, c) /\ cur' = [cur EXCEPT ![chunk.tag] = Len(caps) + 1]
      /\ fpc' = "ingest" /\ UNCHANGED <<pos, chunk, sendq, hand, spc, waiting, tx, restarts>>
      /\ sendq = <<>> /\ hand = NoItem
  BY DEF OpenCapture, Joined
<1>2. caps \in Seq(Captures) /\ Len(caps) \in Nat /\ chunk \in Chunks /\ chunk.tag \in Tags
  BY PosType DEF KvInv, TypeOK, ConnectorType, Chunks
<1>3. c \in Captures /\ c.blocks = 0 /\ c.have = 0
  BY <1>2, ReceiverAssumption DEF NewCapture, Captures
<1>. HIDE DEF c
<1>4. /\ caps' \in Seq(Captures) /\ Len(caps') = Len(caps) + 1 /\ DOMAIN caps' = 1 .. Len(caps) + 1
      /\ \A i \in 1 .. Len(caps) : caps'[i] = caps[i]
      /\ caps'[Len(caps) + 1] = c
  BY <1>1, <1>2, <1>3
<1>5. cur' \in [Tags -> 0 .. Len(caps')] /\ cur'[chunk.tag] # 0
  BY <1>1, <1>2, <1>4, PosType
<1>6. ConnectorType'
  <2>1. sendq' \in Seq(QueueItems') /\ Len(sendq') <= QMax
    BY <1>1, ConnectorAssumption
  <2>. QED  BY <1>1, <1>4, <1>5, <2>1 DEF KvInv, TypeOK, ConnectorType
<1>7. \A i \in DOMAIN caps' : caps'[i].blocks <= caps'[i].have
  <2>1. \A i \in DOMAIN caps' : i \in DOMAIN caps \/ i = Len(caps) + 1
    BY <1>2, <1>4
  <2>2. DOMAIN caps = 1 .. Len(caps)
    BY <1>2
  <2>. QED  BY <1>3, <1>4, <2>1, <2>2 DEF KvInv, CaptureInv
<1>8. CaptureInv'
  BY <1>1, <1>5, <1>7 DEF KvInv, CaptureInv
<1>9. ReceiverType' /\ CommandInv' /\ PoolInv'
  BY <1>1, ReceiverRests
<1>. QED  BY <1>6, <1>8, <1>9 DEF KvInv, TypeOK

\* Opening a capture, on the handle or with files, keeps the invariant.
LEMMA Opens ==
  ASSUME KvInv, Open \/ OpenFile PROVE KvInv'
<1>1. CASE Open
  BY <1>1, OpensCapture DEF Open, receiverVars, poolVars
<1>2. CASE OpenFile
  BY <1>2, OpensCapture DEF OpenFile, poolVars
<1>. QED  BY <1>1, <1>2

\* The capture a chunk is for.
LEMMA ChunkType ==
  ASSUME KvInv, fpc \in {"ingest", "put"}
  PROVE /\ chunk \in Chunks /\ chunk.tag \in Tags
        /\ cur[chunk.tag] \in DOMAIN caps /\ cur[chunk.tag] # 0 /\ caps[cur[chunk.tag]] \in Captures
        /\ caps[cur[chunk.tag]].blocks <= caps[cur[chunk.tag]].have
  BY DEF KvInv, TypeOK, ConnectorType, CaptureInv, Chunks

\* Rows come in at what the capture has, so that it never has more than the prompt.
LEMMA Ingests ==
  ASSUME KvInv, Ingest PROVE KvInv'
<1>. DEFINE i == cur[chunk.tag]
            c == IF chunk.start # caps[i].have THEN [caps[i] EXCEPT !.gap = TRUE]
                 ELSE [caps[i] EXCEPT !.have = @ + chunk.left]
<1>1. /\ fpc = "ingest" /\ fpc' = "put" /\ UNCHANGED receiverVars
      /\ UNCHANGED <<pos, cur, sendq, hand, spc, waiting, tx, restarts>>
  BY DEF Ingest
<1>2. /\ chunk \in Chunks /\ chunk.tag \in Tags /\ i \in DOMAIN caps /\ i # 0 /\ caps[i] \in Captures
      /\ caps[i].blocks <= caps[i].have
  BY <1>1, ChunkType
<1>3. /\ chunk.start \in 0 .. NBlocks /\ chunk.left \in 0 .. NBlocks /\ chunk.start + chunk.left <= NBlocks
      /\ caps[i].blocks \in 0 .. NBlocks /\ caps[i].have \in 0 .. NBlocks /\ NBlocks \in Nat
  BY <1>1, <1>2, PosType DEF Chunks, Captures, KvInv, CaptureInv
<1>4. /\ caps' = [caps EXCEPT ![i] = c]
      /\ \/ chunk' = chunk /\ chunk.start = caps[i].have
         \/ chunk' = [chunk EXCEPT !.left = 0]
  BY <1>1, <1>2 DEF Ingest
<1>5. c \in Captures /\ c.blocks = caps[i].blocks
      /\ c.have = IF chunk.start # caps[i].have THEN caps[i].have ELSE caps[i].have + chunk.left
  <2>. DEFINE x == caps[i]
  <2>1. x \in Captures /\ x.have \in 0 .. NBlocks
    BY <1>2, <1>3
  <2>. HIDE DEF x
  <2>2. CASE chunk.start # x.have
    <3>1. [x EXCEPT !.gap = TRUE] \in Captures /\ [x EXCEPT !.gap = TRUE].blocks = x.blocks
          /\ [x EXCEPT !.gap = TRUE].have = x.have
      BY <2>1 DEF Captures
    <3>. QED  BY <2>2, <3>1 DEF x
  <2>3. CASE chunk.start = x.have
    <3>1. x.have + chunk.left \in 0 .. NBlocks
      BY <1>3, <2>1, <2>3
    <3>2. /\ [x EXCEPT !.have = @ + chunk.left] \in Captures
          /\ [x EXCEPT !.have = @ + chunk.left].blocks = x.blocks
          /\ [x EXCEPT !.have = @ + chunk.left].have = x.have + chunk.left
      BY <2>1, <3>1 DEF Captures
    <3>. QED  BY <2>3, <3>2 DEF x
  <2>. QED  BY <2>2, <2>3 DEF x
<1>. HIDE DEF c
<1>6. /\ caps' \in Seq(Captures) /\ Len(caps') = Len(caps) /\ DOMAIN caps' = DOMAIN caps
      /\ caps'[i] = c /\ \A j \in DOMAIN caps : j # i => caps'[j] = caps[j]
      /\ QueueItems' = QueueItems
  BY <1>2, <1>4, <1>5, CaptureReplaced DEF KvInv, TypeOK
<1>7. chunk' \in Chunks /\ chunk'.tag = chunk.tag /\ c.blocks + chunk'.left <= c.have
  BY <1>2, <1>3, <1>4, <1>5 DEF Chunks
<1>8. ConnectorType'
  BY <1>1, <1>6, <1>7 DEF KvInv, TypeOK, ConnectorType
<1>9. c.blocks <= c.have
  BY <1>2, <1>3, <1>5
<1>10. cur'[chunk'.tag] = i
  BY <1>1, <1>7
<1>11. CaptureInv'
  <2>1. \A j \in DOMAIN caps' : caps'[j].blocks <= caps'[j].have
    BY <1>6, <1>9 DEF KvInv, CaptureInv
  <2>2. caps'[cur'[chunk'.tag]].blocks + chunk'.left <= caps'[cur'[chunk'.tag]].have
    BY <1>6, <1>7, <1>10
  <2>3. cur'[chunk'.tag] # 0
    BY <1>2, <1>10
  <2>. QED  BY <1>1, <2>1, <2>2, <2>3 DEF KvInv, CaptureInv
<1>12. ReceiverType' /\ CommandInv' /\ PoolInv'
  BY <1>1, ReceiverRests DEF receiverVars, poolVars
<1>. QED  BY <1>8, <1>11, <1>12 DEF KvInv, TypeOK

\* A block is cut only out of rows that are there.
LEMMA CutsBlock ==
  ASSUME KvInv, CutBlock PROVE KvInv'
<1>. DEFINE i == cur[chunk.tag]
            x == caps[i]
<1>1. /\ fpc = "put" /\ chunk.left > 0 /\ UNCHANGED receiverVars
      /\ UNCHANGED <<pos, cur, fpc, hand, spc, waiting, tx, restarts>>
  BY DEF CutBlock
<1>2. chunk \in Chunks /\ chunk.tag \in Tags /\ i \in DOMAIN caps /\ i # 0 /\ x \in Captures
  BY <1>1, ChunkType
<1>3. /\ chunk.left \in 1 .. NBlocks /\ x.blocks \in 0 .. NBlocks /\ x.have \in 0 .. NBlocks
      /\ x.sent \in Nat /\ x.blocks + chunk.left <= x.have /\ NBlocks \in Nat
  BY <1>1, <1>2, PosType DEF Chunks, Captures, KvInv, CaptureInv
<1>4. x.blocks + 1 \in 0 .. NBlocks /\ x.blocks \in 0 .. NBlocks - 1 /\ x.blocks + 1 <= x.have
  BY <1>3
<1>5. ReceiverType' /\ CommandInv' /\ PoolInv'
  BY <1>1, ReceiverRests DEF receiverVars, poolVars
<1>6. sendq \in Seq(QueueItems) /\ Len(sendq) <= QMax
  BY DEF KvInv, TypeOK, ConnectorType
<1>7. CASE chunk' = [chunk EXCEPT !.left = 0] /\ UNCHANGED <<caps, sendq>>
  <2>. HIDE DEF i, x
  <2>1. chunk' \in Chunks /\ chunk'.tag = chunk.tag /\ chunk'.left = 0
    <3>1. 0 \in 0 .. NBlocks
      BY <1>3
    <3>2. chunk \in Chunks /\ chunk' = [chunk EXCEPT !.left = 0]
      BY <1>2, <1>7
    <3>. QED  BY <3>1, <3>2 DEF Chunks
  <2>2. QueueItems' = QueueItems
    BY <1>7 DEF QueueItems
  <2>3. ConnectorType'
    BY <1>1, <1>7, <2>1, <2>2 DEF KvInv, TypeOK, ConnectorType
  <2>4. CaptureInv'
    BY <1>1, <1>2, <1>3, <1>7, <2>1 DEF KvInv, CaptureInv, i, x
  <2>. QED  BY <1>5, <2>3, <2>4 DEF KvInv, TypeOK
<1>8. ASSUME NEW c \in Captures, caps' = [caps EXCEPT ![i] = c], c.have = x.have, c.blocks = x.blocks + 1,
             chunk' = [chunk EXCEPT !.left = @ - 1],
             sendq' = sendq \/ (Len(sendq) < QMax /\ sendq' = Append(sendq, BlockItem(i, x.blocks)))
      PROVE KvInv'
  <2>1. /\ caps' \in Seq(Captures) /\ Len(caps') = Len(caps) /\ DOMAIN caps' = DOMAIN caps
        /\ caps'[i] = c /\ \A j \in DOMAIN caps : j # i => caps'[j] = caps[j]
        /\ QueueItems' = QueueItems
    BY <1>2, <1>8, CaptureReplaced DEF KvInv, TypeOK
  <2>2. chunk' \in Chunks /\ chunk'.tag = chunk.tag /\ chunk'.left = chunk.left - 1
    BY <1>2, <1>3, <1>8 DEF Chunks
  <2>3. sendq' \in Seq(QueueItems) /\ Len(sendq') <= QMax
    <3>1. BlockItem(i, x.blocks) \in QueueItems
      BY <1>2, <1>4 DEF BlockItem, QueueItems
    <3>. QED  BY <1>6, <1>8, <3>1, ConnectorAssumption
  <2>4. ConnectorType'
    BY <1>1, <2>1, <2>2, <2>3 DEF KvInv, TypeOK, ConnectorType
  <2>5. CaptureInv'
    <3>1. \A j \in DOMAIN caps' : caps'[j].blocks <= caps'[j].have
      BY <1>4, <1>8, <2>1 DEF KvInv, CaptureInv
    <3>2. cur'[chunk'.tag] = i /\ caps'[i] = c /\ c.blocks + chunk'.left <= c.have
      BY <1>1, <1>3, <1>8, <2>1, <2>2
    <3>. QED  BY <1>1, <1>2, <3>1, <3>2 DEF KvInv, CaptureInv
  <2>. QED  BY <1>5, <2>4, <2>5 DEF KvInv, TypeOK
<1>9. CASE /\ Len(sendq) < QMax /\ sendq' = Append(sendq, BlockItem(i, x.blocks))
           /\ caps' = [caps EXCEPT ![i].blocks = @ + 1] /\ chunk' = [chunk EXCEPT !.left = @ - 1]
  <2>. DEFINE c == [x EXCEPT !.blocks = @ + 1]
  <2>. HIDE DEF x
  <2>1. c \in Captures /\ c.have = x.have /\ c.blocks = x.blocks + 1
    BY <1>2, <1>4 DEF Captures
  <2>2. caps' = [caps EXCEPT ![i] = c]
    BY <1>9 DEF x
  <2>. HIDE DEF c
  <2>. QED  BY <1>8, <1>9, <2>1, <2>2
<1>10. CASE /\ caps' = [caps EXCEPT ![i].blocks = @ + 1, ![i].sent = @ + 1] /\ chunk' = [chunk EXCEPT !.left = @ - 1]
            /\ UNCHANGED sendq
  <2>. DEFINE y == [x EXCEPT !.blocks = @ + 1]
              c == [y EXCEPT !.sent = @ + 1]
  <2>. HIDE DEF x
  <2>1. c \in Captures /\ c.have = x.have /\ c.blocks = x.blocks + 1
    <3>1. y \in Captures /\ y.have = x.have /\ y.blocks = x.blocks + 1 /\ y.sent \in Nat
      BY <1>2, <1>3, <1>4 DEF Captures
    <3>. HIDE DEF y
    <3>2. c \in Captures /\ c.have = y.have /\ c.blocks = y.blocks
      BY <3>1 DEF Captures
    <3>. QED  BY <3>1, <3>2
  <2>2. caps' = [caps EXCEPT ![i] = c]
    BY <1>2, <1>10 DEF x
  <2>. HIDE DEF y, c
  <2>. QED  BY <1>8, <1>10, <2>1, <2>2
<1>. QED  BY <1>7, <1>9, <1>10 DEF CutBlock

\* The end of a chunk hands the capture over, or not, and keeps the invariant (_finish).
LEMMA EndsChunk ==
  ASSUME KvInv, EndChunk PROVE KvInv'
<1>. DEFINE i == cur[chunk.tag]
            x == caps[i]
<1>1. /\ fpc = "put" /\ fpc' = "idle" /\ UNCHANGED receiverVars
      /\ UNCHANGED <<pos, chunk, hand, spc, waiting, tx, restarts>>
  BY DEF EndChunk
<1>2. chunk.tag \in Tags /\ i \in DOMAIN caps /\ x \in Captures
  BY <1>1, ChunkType
<1>3. ReceiverType' /\ CommandInv' /\ PoolInv'
  BY <1>1, ReceiverRests DEF receiverVars, poolVars
<1>4. CASE UNCHANGED <<caps, cur, sendq>>
  <2>1. QueueItems' = QueueItems
    BY <1>4 DEF QueueItems
  <2>. QED  BY <1>1, <1>3, <1>4, <2>1 DEF KvInv, TypeOK, ConnectorType, CaptureInv
<1>5. ASSUME NEW e \in {"finishing", "file"}, caps' = [caps EXCEPT ![i].end = e],
             cur' = [cur EXCEPT ![chunk.tag] = 0],
             sendq' = sendq \/ (Len(sendq) < QMax /\ sendq' = Append(sendq, FinishItem(i)))
      PROVE KvInv'
  <2>. DEFINE c == [x EXCEPT !.end = e]
  <2>1. c \in Captures /\ c.have = x.have /\ c.blocks = x.blocks /\ caps' = [caps EXCEPT ![i] = c]
    <3>1. caps' = [caps EXCEPT ![i] = c]
      BY <1>5
    <3>. HIDE DEF x
    <3>2. c \in Captures /\ c.have = x.have /\ c.blocks = x.blocks
      BY <1>2 DEF Captures
    <3>. QED  BY <3>1, <3>2
  <2>. HIDE DEF c
  <2>2. /\ caps' \in Seq(Captures) /\ Len(caps') = Len(caps) /\ DOMAIN caps' = DOMAIN caps
        /\ caps'[i] = c /\ \A j \in DOMAIN caps : j # i => caps'[j] = caps[j]
        /\ QueueItems' = QueueItems
    BY <1>2, <2>1, CaptureReplaced DEF KvInv, TypeOK
  <2>3. sendq' \in Seq(QueueItems) /\ Len(sendq') <= QMax
    <3>1. FinishItem(i) \in QueueItems
      BY <1>2 DEF FinishItem, QueueItems
    <3>2. sendq \in Seq(QueueItems) /\ Len(sendq) <= QMax
      BY DEF KvInv, TypeOK, ConnectorType
    <3>3. sendq' = sendq \/ (Len(sendq) < QMax /\ sendq' = Append(sendq, FinishItem(i)))
      BY <1>5
    <3>. DEFINE S == QueueItems
                e1 == FinishItem(i)
    <3>. HIDE DEF S, e1
    <3>4. sendq \in Seq(S) /\ e1 \in S /\ (sendq' = sendq \/ (Len(sendq) < QMax /\ sendq' = Append(sendq, e1)))
      BY <3>1, <3>2, <3>3 DEF S, e1
    <3>5. sendq' \in Seq(S) /\ Len(sendq') <= QMax
      BY <3>2, <3>4, ConnectorAssumption
    <3>. QED  BY <3>5 DEF S
  <2>4. cur' \in [Tags -> 0 .. Len(caps)]
    <3>1. cur \in [Tags -> 0 .. Len(caps)] /\ Len(caps) \in Nat
      BY DEF KvInv, TypeOK, ConnectorType
    <3>2. cur' = [cur EXCEPT ![chunk.tag] = 0]
      BY <1>5
    <3>3. 0 \in 0 .. Len(caps)
      BY <3>1
    <3>. QED  BY <3>1, <3>2, <3>3
  <2>5. ConnectorType'
    BY <1>1, <2>2, <2>3, <2>4 DEF KvInv, TypeOK, ConnectorType
  <2>6. CaptureInv'
    BY <1>1, <2>1, <2>2 DEF KvInv, CaptureInv
  <2>. QED  BY <1>3, <2>5, <2>6 DEF KvInv, TypeOK
<1>. QED  BY <1>4, <1>5 DEF EndChunk

-----------------------------------------------------------------------------
(* The theorems *)

\* Every step of the forward thread keeps the invariant.
LEMMA ForwardStep ==
  ASSUME KvInv, Forward PROVE KvInv'
  BY Steps, Misses, Preempts, Aborts, Connects, Opens, Ingests, CutsBlock, EndsChunk DEF Forward

\* The invariant holds at the start: all buffers are free.
LEMMA InitKeeps ==
  ASSUME Init PROVE KvInv
<1>. USE ReceiverAssumption, ConnectorAssumption DEF Init, ReceiverInit
<1>1. free \in Seq(Buffers) /\ Len(free) = Depth /\ DOMAIN free = Buffers /\ \A j \in Buffers : free[j] = j
  <2>1. free \in [1 .. Depth -> Buffers]
    BY DEF Buffers
  <2>2. free \in Seq(Buffers) /\ Len(free) = Depth
    BY <2>1
  <2>. QED  BY <2>2 DEF Buffers
<1>2. ReceiverType
  <2>1. ring \in [0 .. Depth - 1 -> Jobs \cup {NoJob}] /\ buf \in [Buffers -> Files \cup {NoFile}]
    OBVIOUS
  <2>2. DOMAIN disk = {}
    OBVIOUS
  <2>3. done \in [Tags -> {"none", "complete", "gaps"}] /\ mine \in Buffers \cup {0}
    OBVIOUS
  <2>4. head \in 0 .. Depth - 1 /\ count \in 0 .. Depth /\ faults \in 0 .. MaxFaults
    OBVIOUS
  <2>5. cmd \in Commands \cup {NoCmd} /\ arena \in Files \cup {NoFile} /\ job \in Jobs \cup {NoJob}
    OBVIOUS
  <2>6. free \in Seq(Buffers) /\ Len(free) <= Depth
    BY <1>1
  <2>. QED  BY <2>1, <2>2, <2>3, <2>4, <2>5, <2>6 DEF ReceiverType
<1>3. ConnectorType
  <2>1. pos \in [Tags -> 0 .. Aborted] /\ restarts \in 0 .. MaxRestarts
    BY DEF Aborted
  <2>2. caps \in Seq(Captures) /\ Len(caps) = 0 /\ cur \in [Tags -> 0 .. Len(caps)]
    OBVIOUS
  <2>3. sendq \in Seq(QueueItems) /\ Len(sendq) <= QMax
    OBVIOUS
  <2>. QED  BY <2>1, <2>2, <2>3 DEF ConnectorType
<1>4. CommandInv /\ CaptureInv
  BY DEF CommandInv, CaptureInv, NoCmd, NoItem
<1>5. CountInv
  BY <1>1 DEF CountInv
<1>6. ApartInv
  BY <1>1 DEF ApartInv, Buffers
<1>7. KeptInv
  BY <1>1 DEF KeptInv
<1>8. BytesInv /\ WholeFiles
  BY DEF BytesInv, WholeFiles
<1>. QED  BY <1>2, <1>3, <1>4, <1>5, <1>6, <1>7, <1>8 DEF KvInv, TypeOK, PoolInv

\* A step that changes nothing keeps the invariant.
LEMMA Stutters ==
  ASSUME KvInv, UNCHANGED vars PROVE KvInv'
<1>1. ReceiverType' /\ CommandInv' /\ PoolInv'
  BY ReceiverRests DEF vars, receiverVars, connectorVars, poolVars
<1>. QED  BY <1>1, ConnectorKeeps DEF KvInv, TypeOK, vars

\* The invariant holds of every run of connector and receiver (pd_kv_connector.py, pd_rdma.c).
\* The three theorems below are parts of it.
THEOREM KvInvariant == Spec => []KvInv
<1>1. Init => KvInv
  BY InitKeeps
<1>2. KvInv /\ [Next]_vars => KvInv'
  BY ForwardStep, SenderStep, ReceiverStep, WriterStep, Stutters DEF Next
<1>. QED  BY <1>1, <1>2, PTL DEF Spec

\* Types: the pool, the ring and the send queue stay within their bounds for every depth,
\* every length of prompt and any number of requests (pd_rdma.c 259-269, pd_kv_connector.py 72).
THEOREM KvTypeCorrect == Spec => []TypeOK
<1>1. KvInv => TypeOK
  BY DEF KvInv
<1>. QED  BY <1>1, KvInvariant, PTL

\* No file holds another file's bytes, although all blocks pass through one arena and a few
\* buffers (write_block and pd_writer_put in pd_rdma.c, _send_block in pd_kv_connector.py).
THEOREM WholeFilesCorrect == Spec => []WholeFiles
<1>1. KvInv => WholeFiles
  BY DEF KvInv, PoolInv
<1>. QED  BY <1>1, KvInvariant, PTL

\* Each buffer of the pool is in exactly one place, whatever fails (pd_writer_put and the
\* writer thread in pd_rdma.c).
THEOREM PoolCorrect == Spec => []PoolConserved
<1>1. KvInv => PoolConserved
  <2>. SUFFICES ASSUME KvInv, NEW b \in Buffers PROVE \E p \in Places(b) : Places(b) = {p}
    BY DEF PoolConserved
  <2>. DEFINE F == {<<"free", i>> : i \in {i \in DOMAIN free : free[i] = b}}
              R == {<<"ring", i>> : i \in {i \in Queued : ring[i].b = b}}
              M == IF mine = b THEN {<<"receiver", 0>>} ELSE {}
              W == IF wpc # "wait" /\ job.b = b THEN {<<"writer", 0>>} ELSE {}
  <2>1. Places(b) = F \cup R \cup M \cup W
    BY DEF Places
  <2>2. ApartInv /\ KeptInv
    BY DEF KvInv, PoolInv
  <2>3. \A i \in Queued : \E k \in 0 .. count - 1 : i = Place(k) /\ ring[i] = Job(k)
    BY DEF Queued, Job, Place
  <2>4. \A k \in 0 .. count - 1 : Place(k) \in Queued /\ ring[Place(k)] = Job(k)
    BY DEF Queued, Job, Place
  <2>5. \A i, j \in Queued : ring[i].b = ring[j].b => i = j
    BY <2>2, <2>3 DEF ApartInv
  <2>6. /\ \A i \in DOMAIN free, j \in Queued : free[i] # ring[j].b
        /\ \A j \in Queued : ring[j].b # mine
        /\ wpc # "wait" => \A j \in Queued : ring[j].b # job.b
    BY <2>2, <2>3 DEF ApartInv
  <2>7. CASE \E i \in DOMAIN free : free[i] = b
    <3>1. PICK i \in DOMAIN free : free[i] = b
      BY <2>7
    <3>2. F = {<<"free", i>>} /\ R = {} /\ M = {} /\ W = {}
      BY <2>2, <2>6, <3>1 DEF ApartInv
    <3>. QED  BY <2>1, <3>2
  <2>8. CASE \E k \in 0 .. count - 1 : Job(k).b = b
    <3>1. PICK i \in Queued : ring[i].b = b
      BY <2>4, <2>8
    <3>2. F = {} /\ R = {<<"ring", i>>} /\ M = {} /\ W = {}
      BY <2>5, <2>6, <3>1
    <3>. QED  BY <2>1, <3>2
  <2>9. CASE mine = b
    <3>1. F = {} /\ R = {} /\ M = {<<"receiver", 0>>} /\ W = {}
      BY <2>2, <2>6, <2>9 DEF ApartInv
    <3>. QED  BY <2>1, <3>1
  <2>10. CASE wpc # "wait" /\ job.b = b
    <3>1. F = {} /\ R = {} /\ M = {} /\ W = {<<"writer", 0>>}
      BY <2>2, <2>6, <2>10 DEF ApartInv
    <3>. QED  BY <2>1, <3>1
  <2>. QED  BY <2>2, <2>7, <2>8, <2>9, <2>10 DEF KeptInv
<1>. QED  BY <1>1, KvInvariant, PTL

-----------------------------------------------------------------------------
(***************************************************************************)
(* Proof that connector and receiver implement what the front door relies  *)
(* on (CaptureLanding), and so that DONE speaks the truth, when the engine *)
(* runs one tagged request at a time (Overlap = FALSE).  With overlapping  *)
(* requests the run v_done shows that it may not.                          *)
(***************************************************************************)

-----------------------------------------------------------------------------
(* The inductive invariant *)

Newest == caps[Len(caps)]

\* One request at a time is in its prompt, and the newest capture is the one it fills.
SoloInv ==
  /\ \A t, u \in Tags : Unfinished(t) /\ Unfinished(u) => t = u
  /\ fpc # "idle" => \A u \in Tags : u # chunk.tag => ~Unfinished(u)
  /\ \A t \in Tags : Unfinished(t) /\ cur[t] # 0 => cur[t] = Len(caps)
  /\ \A t \in Tags : cur[t] # 0 => caps[cur[t]].tag = t
  /\ fpc \in {"ingest", "put"} => cur[chunk.tag] = Len(caps)
  /\ fpc # "idle" /\ chunk.last => pos[chunk.tag] = NBlocks
  /\ fpc \in {"open", "ingest"} => chunk.start + chunk.left = pos[chunk.tag]

\* A request whose capture has ended computes nothing more, and has no other capture.
EndInv ==
  \A i \in DOMAIN caps : caps[i].end # "open" =>
    /\ pos[caps[i].tag] = NBlocks /\ cur[caps[i].tag] = 0
    /\ fpc # "idle" => chunk.tag # caps[i].tag

\* What a capture had is cut, and is what its request has computed, unless there is a gap.
CutInv ==
  /\ caps # <<>> /\ Newest.wire /\ ~Newest.gap /\ ~Newest.error
       => Newest.have = Newest.blocks + (IF fpc = "put" THEN chunk.left ELSE 0)
  /\ fpc = "put" /\ ~Newest.gap => Newest.have = pos[chunk.tag]

\* An item for the sender is of the newest capture, which goes over the wire.
Item(x) ==
  /\ x.cap = Len(caps) /\ Newest.wire
  /\ x.kind = "finish" => Newest.end = "finishing" /\ (~Newest.gap => Newest.have = NBlocks)

\* A capture's end is its last item.
ItemInv ==
  /\ \A m \in DOMAIN sendq : Item(sendq[m]) /\ (sendq[m].kind = "finish" => m = Len(sendq))
  /\ hand # NoItem => Item(hand) /\ (hand.kind = "finish" => sendq = <<>>)

Manifest(t) == <<t, ManifestFile>>

\* What is on the control line.
BlockOut == cmd # NoCmd /\ cmd.op \in {"OBLK", "BLK"}
TailOut(t) == cmd # NoCmd /\ cmd.op = "FILE" /\ cmd.file = <<t, TailFile>>
ManifestOut(t) == cmd # NoCmd /\ cmd.op = "FILE" /\ cmd.file = Manifest(t)
DoneOut(t) == cmd # NoCmd /\ cmd.op = "DONE" /\ cmd.tag = t

\* The line carries what the sender waits for.
LineInv ==
  /\ waiting /\ cmd # NoCmd =>
       /\ spc = "block" => BlockOut /\ cmd.file = <<Held.tag, hand.index>>
       /\ spc = "tail" => TailOut(Held.tag)
       /\ spc = "manifest" => ManifestOut(Held.tag)
       /\ spc = "done" => DoneOut(Held.tag)
  /\ BlockOut => cmd.file[2] < NBlocks
  /\ cmd # NoCmd /\ cmd.op = "FILE" => cmd.file[2] \in {TailFile, ManifestFile}

\* Files the receiver has acknowledged and not yet written.
Pipe == {Job(k).file : k \in 0 .. count - 1} \cup (IF wpc = "write" THEN {job.file} ELSE {})

\* The receiver has the file: it has landed, or will, or a failure is still to be reported.
Safe(f) == f \in DOMAIN disk \/ failed \/ f \in Pipe

\* The newest capture is being sent.
Sending == caps # <<>> /\ Newest.wire /\ ~Newest.error /\ Newest.end \in {"open", "finishing"}

\* As long as its connection works, every block that was cut is with the receiver or on its way to it.
CoverInv ==
  /\ Sending => tx # "none"
  /\ Sending /\ tx = "up" /\ link = "up" /\ reply # "ERR" =>
       \A k \in 0 .. Newest.blocks - 1 :
         \/ Safe(<<Newest.tag, k>>) \/ hand = BlockItem(Len(caps), k)
         \/ \E m \in DOMAIN sendq : sendq[m] = BlockItem(Len(caps), k)
  /\ waiting /\ reply = "OK" /\ spc = "block" /\ link = "up" => Safe(<<Held.tag, hand.index>>)

\* A tail, and a DONE that says `complete`, are sent behind every block.
ClaimInv ==
  \A t \in Tags, k \in 0 .. NBlocks - 1 :
    TailOut(t) \/ (DoneOut(t) /\ cmd.status = "complete") => Safe(<<t, k>>)

\* The manifest is on the disk or on the line.
Closed(t) == Manifest(t) \in DOMAIN disk \/ ManifestOut(t)

\* Blocks and tail come before the manifest, the manifest before DONE.
OrderInv ==
  /\ \A t \in Tags : Closed(t) => \E i \in DOMAIN caps : caps[i].tag = t /\ caps[i].end # "open"
  /\ \A t \in Tags : done[t] # "none" \/ DoneOut(t) => Manifest(t) \in DOMAIN disk
  /\ \A t \in Tags : DoneOut(t) => done[t] = "none"
  /\ \A t \in Tags : TailOut(t) => Manifest(t) \notin DOMAIN disk
  /\ BlockOut => Manifest(cmd.file[1]) \notin DOMAIN disk
  /\ \A f \in Pipe : Manifest(f[1]) \notin DOMAIN disk /\ f[2] < NBlocks

\* The same for the items on their way to the sender.
StageInv ==
  /\ sendq # <<>> => ~Closed(Newest.tag)
  /\ hand # NoItem =>
       /\ spc \in {"block", "tail"} => ~Closed(Held.tag)
       /\ spc = "manifest" => done[Held.tag] = "none" /\ ~DoneOut(Held.tag)
       /\ spc = "manifest" /\ waiting /\ reply = "OK" => Manifest(Held.tag) \in DOMAIN disk
       /\ spc = "done" /\ ~waiting => done[Held.tag] = "none" /\ ~DoneOut(Held.tag) /\ Manifest(Held.tag) \in DOMAIN disk

LandInv ==
  SoloInv /\ EndInv /\ CutInv /\ ItemInv /\ LineInv /\ CoverInv /\ ClaimInv /\ OrderInv /\ StageInv /\ DoneIsWhole

-----------------------------------------------------------------------------
(* The receiver's pipe *)

\* Every file on the line, in the pipe and on the disk is a file of a capture.
LEMMA PipeType ==
  ASSUME KvInv
  PROVE  /\ Pipe \subseteq Files /\ DOMAIN disk \subseteq Files
         /\ cmd # NoCmd /\ cmd.op # "DONE" => cmd.file \in Files
         /\ cmd # NoCmd /\ cmd.op = "DONE" => cmd.tag \in Tags
         /\ \A f \in Files : f[1] \in Tags /\ f[2] \in 0 .. NBlocks + 1 /\ f = <<f[1], f[2]>>
<1>1. \A k \in 0 .. count - 1 : Job(k) \in Jobs
  BY DEF KvInv, PoolInv, BytesInv
<1>2. wpc = "write" => job \in Jobs
  BY DEF KvInv, PoolInv, BytesInv
<1>3. \A x \in Jobs : x.file \in Files
  BY DEF Jobs
<1>4. Pipe \subseteq Files
  BY <1>1, <1>2, <1>3 DEF Pipe
<1>5. ReceiverType
  BY DEF KvInv, TypeOK
<1>6. cmd # NoCmd => /\ cmd.op # "DONE" => cmd.file \in Files
                     /\ cmd.op = "DONE" => cmd.tag \in Tags
  BY <1>5, CommandType
<1> QED BY <1>4, <1>5, <1>6 DEF Files, ReceiverType

\* A drained receiver has nothing in its pipe.
LEMMA PipeDrained ==
  ASSUME KvInv, Drained
  PROVE  Pipe = {}
<1>1. 0 .. count - 1 = {} /\ wpc # "write"
  BY DEF Drained
<1> QED BY <1>1 DEF Pipe

\* What leaves the queue is what the writer writes.
LEMMA PipeTaken ==
  ASSUME KvInv, WriterTake
  PROVE  Pipe' = Pipe
<1>. USE ReceiverAssumption
<1>1. /\ head \in 0 .. Depth - 1 /\ count \in 1 .. Depth /\ count' = count - 1
      /\ head' = NextPlace(head) /\ ring' = ring
      /\ job' = ring[head] /\ wpc = "wait" /\ wpc' = "write"
  BY DEF WriterTake, TakeJob, ReceiverType, KvInv, TypeOK
<1>2. \A k \in 0 .. count' - 1 : Job(k)' = Job(k + 1) /\ k + 1 \in 0 .. count - 1
  <2>. TAKE k \in 0 .. count' - 1
  <2>1. k \in 0 .. Depth - 1 /\ k + 1 \in 0 .. count - 1
    BY <1>1
  <2>. QED  BY <1>1, <2>1, PlaceNext DEF Job, Place
<1>3. job' = Job(0) /\ 0 \in 0 .. count - 1
  <2>1. (head + 0) % Depth = head
    BY <1>1, PlaceFirst
  <2>. QED  BY <1>1, <2>1 DEF Job, Place
<1>4. Pipe' = {Job(k)'.file : k \in 0 .. count' - 1} \cup {job'.file}
  BY <1>1 DEF Pipe
<1>5. Pipe = {Job(k).file : k \in 0 .. count - 1}
  BY <1>1 DEF Pipe
<1>6. Pipe' \subseteq Pipe
  BY <1>2, <1>3, <1>4, <1>5
<1>7. ASSUME NEW k \in 0 .. count - 1 PROVE Job(k).file \in Pipe'
  <2>1. CASE k = 0
    BY <1>3, <1>4, <2>1
  <2>2. CASE k # 0
    <3>1. k - 1 \in 0 .. count' - 1 /\ (k - 1) + 1 = k
      BY <1>1, <2>2
    <3>2. Job(k - 1)' = Job(k)
      BY <1>2, <3>1
    <3> QED BY <1>4, <3>1, <3>2
  <2> QED BY <2>1, <2>2
<1> QED BY <1>5, <1>6, <1>7

\* A written file leaves the pipe.
LEMMA PipeWritten ==
  ASSUME KvInv, WriterWrite
  PROVE  /\ Pipe' \subseteq Pipe /\ \A f \in Pipe : f \in Pipe' \/ f = job.file
         /\ job.file \in Pipe
<1>1. wpc = "write" /\ wpc' = "return" /\ UNCHANGED <<ring, head, count, job>>
  BY DEF WriterWrite
<1>2. \A k : Job(k)' = Job(k)
  BY <1>1 DEF Job, Place
<1> QED BY <1>1, <1>2 DEF Pipe

\* An acknowledged block enters the pipe.
LEMMA PipeQueued ==
  ASSUME KvInv, RecvQueue
  PROVE  Pipe' = Pipe \cup {cmd.file}
<1>1. /\ rcv = "queue" /\ ring' = [ring EXCEPT ![Place(count)] = [file |-> cmd.file, b |-> mine]]
      /\ count' = count + 1 /\ UNCHANGED <<head, wpc, job>>
  BY DEF RecvQueue, Place
<1>2. mine # 0
  BY <1>1 DEF KvInv, PoolInv, CountInv
<1>3. head \in 0 .. Depth - 1 /\ count \in 0 .. Depth - 1 /\ Len(free) \in Nat
  BY <1>2, ReceiverAssumption DEF KvInv, PoolInv, CountInv, TypeOK, ReceiverType
<1>. DEFINE new == [file |-> cmd.file, b |-> mine]
<1>6. Place(count) \in 0 .. Depth - 1
  BY <1>3, PlaceType DEF Place
<1>7. /\ ring'[Place(count)] = new
      /\ \A p \in 0 .. Depth - 1 : p # Place(count) => ring'[p] = ring[p]
  BY <1>1, <1>6 DEF KvInv, TypeOK, ReceiverType
<1>8. \A k \in 0 .. count - 1 : Job(k)' = Job(k)
  <2>. TAKE k \in 0 .. count - 1
  <2>1. k \in 0 .. Depth - 1 /\ k # count /\ k \in Nat
    BY <1>3, ReceiverAssumption
  <2>2. Place(k) \in 0 .. Depth - 1 /\ Place(k) # Place(count) /\ Place(k)' = Place(k)
    BY <1>1, <1>3, <2>1, PlaceType, PlaceApart DEF Place
  <2>. QED  BY <1>7, <2>2 DEF Job
<1>10. \A k \in 0 .. count' - 1 : k = count \/ k \in 0 .. count - 1
  BY <1>1, <1>3
<1>11. count \in 0 .. count' - 1 /\ 0 .. count - 1 \subseteq 0 .. count' - 1
  BY <1>1, <1>3
<1>12. \A k \in 0 .. count' - 1 : Job(k)'.file = IF k = count THEN cmd.file ELSE Job(k).file
  <2>1. \A k : k = count => Job(k)' = new
    BY <1>1, <1>7 DEF Job, Place
  <2>2. new.file = cmd.file
    OBVIOUS
  <2> HIDE DEF new
  <2> QED BY <2>1, <2>2, <1>8, <1>10
<1>13. {Job(k)'.file : k \in 0 .. count' - 1} = {Job(k).file : k \in 0 .. count - 1} \cup {cmd.file}
  <2>1. ASSUME NEW k \in 0 .. count - 1 PROVE Job(k).file \in {Job(i)'.file : i \in 0 .. count' - 1}
    BY <1>3, <1>8, <1>11
  <2>2. cmd.file \in {Job(i)'.file : i \in 0 .. count' - 1}
    BY <1>11, <1>12
  <2>3. \A k \in 0 .. count' - 1 : Job(k)'.file \in {Job(i).file : i \in 0 .. count - 1} \cup {cmd.file}
    BY <1>10, <1>12
  <2> QED BY <2>1, <2>2, <2>3
<1> QED BY <1>1, <1>13 DEF Pipe

\* A step that moves no job leaves the pipe.
LEMMA PipeSame ==
  ASSUME UNCHANGED <<ring, head, count, job>>, wpc' = "write" <=> wpc = "write"
  PROVE  Pipe' = Pipe
<1>1. \A k : Job(k)' = Job(k)
  BY DEF Job, Place
<1> QED BY <1>1 DEF Pipe

-----------------------------------------------------------------------------
(* Receiver steps *)

\* What a step of the receiver may do to what the invariant speaks of.
ReceiverMay ==
  /\ UNCHANGED connectorVars
  /\ cmd' = cmd \/ cmd' = NoCmd
  /\ link' = "up" => link = "up"
  /\ \A f : Safe(f) => Safe(f)' \/ (cmd' = NoCmd /\ (link' # "up" \/ reply' = "ERR"))
  /\ \/ reply' = reply
     \/ cmd # NoCmd /\ cmd' = NoCmd /\ reply' # "OK"
     \/ cmd # NoCmd /\ cmd' = NoCmd /\ (BlockOut => \A f : f = cmd.file => Safe(f)') /\ (cmd.op = "FILE" => cmd.file \in DOMAIN disk')
  /\ DOMAIN disk \subseteq DOMAIN disk'
  /\ \A f \in DOMAIN disk' \ DOMAIN disk :
       \/ f[2] < NBlocks
       \/ cmd # NoCmd /\ cmd.op = "FILE" /\ cmd.file = f /\ cmd' = NoCmd /\ Pipe' = {}
  /\ \A f \in Pipe' : f \in Pipe \/ (BlockOut /\ cmd.file = f /\ UNCHANGED disk)
  /\ \/ done' = done
     \/ /\ cmd # NoCmd /\ cmd.op = "DONE" /\ cmd' = NoCmd /\ done' = [done EXCEPT ![cmd.tag] = cmd.status]
        /\ UNCHANGED disk /\ \A f : Safe(f) => f \in DOMAIN disk

\* Steps that put nothing on the disk and answer nothing.
LEMMA ReceiverIdles ==
  ASSUME KvInv, LandInv, UNCHANGED connectorVars,
         RecvRead \/ RecvHangup \/ RecvTake \/ RecvCopy \/ RecvClose \/ LinkLost \/ WriterTake \/ WriterReturn
  PROVE  ReceiverMay
<1>1. UNCHANGED <<disk, done>> /\ (cmd' = cmd \/ cmd' = NoCmd) /\ (link' = "up" => link = "up")
      /\ (reply' = reply \/ (cmd # NoCmd /\ cmd' = NoCmd /\ reply' # "OK"))
  BY DEF RecvRead, RecvHangup, RecvTake, RecvCopy, RecvClose, LinkLost, WriterTake, TakeJob, WriterReturn, Answer, KvInv, CommandInv
<1>2. Pipe' = Pipe
  <2>1. CASE WriterTake
    BY <2>1, PipeTaken
  <2>2. CASE ~WriterTake
    <3>1. UNCHANGED <<ring, head, count, job>> /\ (wpc' = "write" <=> wpc = "write")
      BY <2>2 DEF RecvRead, RecvHangup, RecvTake, RecvCopy, RecvClose, LinkLost, WriterReturn
    <3> QED BY <3>1, PipeSame
  <2> QED BY <2>1, <2>2
<1>3. UNCHANGED failed \/ (cmd' = NoCmd /\ link' # "up")
  <2>1. CASE RecvClose
    <3>1. cmd = NoCmd /\ cmd' = cmd /\ link' = "down"
      BY <2>1 DEF RecvClose, KvInv, CommandInv
    <3> QED BY <3>1
  <2>2. CASE ~RecvClose
    BY <2>2 DEF RecvRead, RecvHangup, RecvTake, RecvCopy, LinkLost, WriterTake, TakeJob, WriterReturn
  <2> QED BY <2>1, <2>2
<1>4. \A f : Safe(f) => Safe(f)' \/ (cmd' = NoCmd /\ link' # "up")
  BY <1>1, <1>2, <1>3 DEF Safe
<1> QED BY <1>1, <1>2, <1>4 DEF ReceiverMay

\* A block enters the pipe, or is written at once.
LEMMA ReceiverAcks ==
  ASSUME KvInv, LandInv, UNCHANGED connectorVars, RecvQueue \/ RecvWrite
  PROVE  ReceiverMay
<1>0. cmd # NoCmd /\ BlockOut /\ cmd.file[2] < NBlocks /\ cmd.op \notin {"FILE", "DONE"}
  <2>1. cmd # NoCmd /\ cmd.op \in {"OBLK", "BLK"}
    BY DEF RecvQueue, RecvWrite, KvInv, CommandInv
  <2> QED BY <2>1 DEF BlockOut, LandInv, LineInv
<1>1. cmd' = NoCmd /\ UNCHANGED <<link, failed, done>>
  BY DEF RecvQueue, RecvWrite, Answer
<1>2. CASE RecvQueue
  <2>1. Pipe' = Pipe \cup {cmd.file} /\ UNCHANGED disk
    BY <1>2, PipeQueued DEF RecvQueue
  <2>2. \A f : Safe(f) => Safe(f)'
    BY <1>1, <2>1 DEF Safe
  <2>3. \A f : f = cmd.file => Safe(f)'
    <3>1. \A f : f = cmd.file => f \in Pipe'
      BY <2>1
    <3> QED BY <3>1 DEF Safe
  <2> QED BY <1>0, <1>1, <2>1, <2>2, <2>3 DEF ReceiverMay
<1>3. CASE RecvWrite
  <2>1. Pipe' = Pipe
    BY <1>3, PipeSame DEF RecvWrite
  <2>2. CASE disk' = Landed(cmd.file, arena) /\ Answer("OK")
    <3>1. DOMAIN disk' = DOMAIN disk \cup {cmd.file}
      BY <2>2 DEF Landed
    <3>2. \A f : Safe(f) => Safe(f)'
      BY <1>1, <2>1, <3>1 DEF Safe
    <3>3. \A f : f = cmd.file => Safe(f)'
      BY <3>1 DEF Safe
    <3> QED BY <1>0, <1>1, <2>1, <3>1, <3>2, <3>3 DEF ReceiverMay
  <2>3. CASE Answer("ERR") /\ UNCHANGED disk
    <3>1. \A f : Safe(f) => Safe(f)'
      BY <1>1, <2>1, <2>3 DEF Safe
    <3>2. reply' # "OK"
      BY <2>3 DEF Answer
    <3> QED BY <1>0, <1>1, <2>1, <2>3, <3>1, <3>2 DEF ReceiverMay
  <2> QED BY <1>3, <2>2, <2>3 DEF RecvWrite
<1> QED BY <1>2, <1>3


\* The writer lands a block, or reports that it could not.
LEMMA ReceiverWrites ==
  ASSUME KvInv, LandInv, UNCHANGED connectorVars, WriterWrite
  PROVE  ReceiverMay
<1>1. UNCHANGED <<link, cmd, reply, done>>
  BY DEF WriterWrite
<1>2. Pipe' \subseteq Pipe /\ (\A f \in Pipe : f \in Pipe' \/ f = job.file) /\ job.file \in Pipe
  BY PipeWritten
<1>3. job.file[2] < NBlocks
  BY <1>2 DEF LandInv, OrderInv
<1>4. CASE disk' = Landed(job.file, buf[job.b]) /\ UNCHANGED failed
  <2>1. DOMAIN disk' = DOMAIN disk \cup {job.file}
    BY <1>4 DEF Landed
  <2>2. \A f : Safe(f) => Safe(f)'
    BY <1>2, <1>4, <2>1 DEF Safe
  <2> QED BY <1>1, <1>2, <1>3, <2>1, <2>2 DEF ReceiverMay
<1>5. CASE failed' = TRUE /\ UNCHANGED disk
  <2>1. \A f : Safe(f)'
    BY <1>5 DEF Safe
  <2> QED BY <1>1, <1>2, <1>5, <2>1 DEF ReceiverMay
<1> QED BY <1>4, <1>5 DEF WriterWrite

\* Behind the drain everything has landed, or ERR says that something has not.
LEMMA ReceiverDrains ==
  ASSUME KvInv, LandInv, UNCHANGED connectorVars, RecvDrain
  PROVE  ReceiverMay
<1>1. cmd # NoCmd /\ cmd.op \in {"FILE", "DONE"} /\ cmd' = NoCmd /\ UNCHANGED link /\ ~BlockOut
  BY DEF RecvDrain, KvInv, CommandInv, Answer, BlockOut
<1>2. Pipe = {} /\ Pipe' = {}
  BY PipeDrained, PipeSame DEF RecvDrain
<1>3. CASE Answer("ERR") /\ UNCHANGED <<disk, done>>
  <2>1. link' # "up" \/ reply' = "ERR"
    BY <1>1, <1>3 DEF Answer
  <2>2. reply' # "OK"
    BY <1>3 DEF Answer
  <2> QED BY <1>1, <1>2, <1>3, <2>1, <2>2 DEF ReceiverMay
<1>4. CASE /\ ~failed /\ Answer("OK")
           /\ IF cmd.op = "FILE"
              THEN disk' = Landed(cmd.file, arena) /\ UNCHANGED done
              ELSE done' = [done EXCEPT ![cmd.tag] = cmd.status] /\ UNCHANGED disk
  <2>0. \A f : Safe(f) => f \in DOMAIN disk
    BY <1>2, <1>4 DEF Safe
  <2>1. CASE cmd.op = "FILE" /\ disk' = Landed(cmd.file, arena) /\ UNCHANGED done
    <3>1. DOMAIN disk' = DOMAIN disk \cup {cmd.file}
      BY <2>1 DEF Landed
    <3>2. \A f : Safe(f) => Safe(f)'
      BY <2>0, <3>1 DEF Safe
    <3> QED BY <1>1, <1>2, <2>1, <3>1, <3>2 DEF ReceiverMay
  <2>2. CASE cmd.op = "DONE" /\ done' = [done EXCEPT ![cmd.tag] = cmd.status] /\ UNCHANGED disk
    <3>1. \A f : Safe(f) => Safe(f)'
      BY <2>0, <2>2 DEF Safe
    <3> QED BY <1>1, <1>2, <2>0, <2>2, <3>1 DEF ReceiverMay
  <2> QED BY <1>1, <1>4, <2>1, <2>2
<1> QED BY <1>3, <1>4 DEF RecvDrain

\* Every step of the receiver, of its writer and of the network is one of these.
LEMMA ReceiverDoes ==
  ASSUME KvInv, LandInv, UNCHANGED connectorVars, Receiver \/ Writer \/ LinkLost
  PROVE  ReceiverMay
BY ReceiverIdles, ReceiverAcks, ReceiverWrites, ReceiverDrains DEF Receiver, Writer

\* What the receiver may do keeps the connector's parts, and the line in step with the sender.
LEMMA ReceiverLine ==
  ASSUME KvInv, LandInv, ReceiverMay
  PROVE  SoloInv' /\ EndInv' /\ CutInv' /\ ItemInv' /\ LineInv'
<1>1. UNCHANGED <<pos, caps, cur, fpc, chunk, sendq, hand, spc, waiting, tx>>
  BY DEF ReceiverMay, connectorVars
<1>2. SoloInv'
  BY <1>1 DEF LandInv, SoloInv, Unfinished, Running
<1>3. EndInv' /\ CutInv'
  BY <1>1 DEF LandInv, EndInv, CutInv, Newest
<1>4. ItemInv'
  BY <1>1 DEF LandInv, ItemInv, Item, Newest
<1>5. cmd' = cmd \/ cmd' = NoCmd
  BY DEF ReceiverMay
<1>6. LineInv'
  BY <1>1, <1>5 DEF LandInv, LineInv, BlockOut, TailOut, ManifestOut, DoneOut, Held, Manifest
<1> QED BY <1>2, <1>3, <1>4, <1>6

\* It loses no block without a word, while the connection works.
LEMMA ReceiverCovers ==
  ASSUME KvInv, LandInv, ReceiverMay
  PROVE  CoverInv' /\ ClaimInv'
<1>1. UNCHANGED <<caps, sendq, hand, spc, waiting, tx>>
  BY DEF ReceiverMay, connectorVars
<1>2. ASSUME link' = "up", reply' # "ERR" PROVE link = "up" /\ \A f : Safe(f) => Safe(f)'
  BY <1>2 DEF ReceiverMay
<1>3. reply' # "ERR" => reply # "ERR" \/ cmd' = NoCmd
  BY DEF ReceiverMay
<1>4. ASSUME Sending', tx' = "up", link' = "up", reply' # "ERR", NEW k \in 0 .. Newest'.blocks - 1
      PROVE  \/ Safe(<<Newest.tag, k>>)' \/ hand' = BlockItem(Len(caps)', k)
             \/ \E m \in DOMAIN sendq' : sendq'[m] = BlockItem(Len(caps)', k)
  <2>1. Sending /\ tx = "up" /\ link = "up" /\ k \in 0 .. Newest.blocks - 1
    BY <1>1, <1>2, <1>4 DEF Sending, Newest
  <2>2. reply # "ERR"
    <3>1. CASE cmd # NoCmd
      BY <3>1 DEF KvInv, CommandInv
    <3>2. CASE cmd = NoCmd
      BY <1>4, <3>2 DEF ReceiverMay, KvInv, CommandInv
    <3> QED BY <3>1, <3>2
  <2>3. \/ Safe(<<Newest.tag, k>>) \/ hand = BlockItem(Len(caps), k)
        \/ \E m \in DOMAIN sendq : sendq[m] = BlockItem(Len(caps), k)
    BY <2>1, <2>2 DEF LandInv, CoverInv
  <2>4. \A f : Safe(f) => Safe(f)'
    BY <1>2, <1>4
  <2>5. CASE Safe(<<Newest.tag, k>>)
    <3>1. \A f : f = <<Newest.tag, k>> => Safe(f)'
      BY <2>4, <2>5
    <3>2. Newest' = Newest
      BY <1>1 DEF Newest
    <3> QED BY <3>1, <3>2
  <2> QED BY <1>1, <2>3, <2>5
<1>5. CoverInv'
  <2>1. Sending' => tx' # "none"
    BY <1>1 DEF LandInv, CoverInv, Sending, Newest
  <2>2. ASSUME waiting', reply' = "OK", spc' = "block", link' = "up" PROVE Safe(<<Held.tag, hand.index>>)'
    <3>1. \A f : Safe(f) => Safe(f)'
      BY <1>2, <2>2
    <3>2. <<Held.tag, hand.index>>' = <<Held.tag, hand.index>>
      BY <1>1 DEF Held
    <3>3. \A f : f = <<Held.tag, hand.index>> => Safe(f)'
      <4>1. CASE reply = "OK"
        <5>1. Safe(<<Held.tag, hand.index>>)
          BY <1>1, <1>2, <2>2, <4>1 DEF LandInv, CoverInv
        <5> QED BY <3>1, <5>1
      <4>2. CASE reply # "OK"
        <5>1. cmd # NoCmd /\ BlockOut => \A f : f = cmd.file => Safe(f)'
          BY <2>2, <4>2 DEF ReceiverMay
        <5>2. cmd # NoCmd
          BY <2>2, <4>2 DEF ReceiverMay
        <5>3. BlockOut /\ cmd.file = <<Held.tag, hand.index>>
          BY <1>1, <2>2, <5>2 DEF LandInv, LineInv
        <5> QED BY <5>1, <5>2, <5>3
      <4> QED BY <4>1, <4>2
    <3> QED BY <3>2, <3>3
  <2> QED BY <1>4, <2>1, <2>2 DEF CoverInv
<1>6. ClaimInv'
  <2> SUFFICES ASSUME NEW t \in Tags, NEW k \in 0 .. NBlocks - 1,
                      TailOut(t)' \/ (DoneOut(t)' /\ cmd'.status = "complete")
               PROVE  Safe(<<t, k>>)'
    BY DEF ClaimInv
  <2>1. cmd' = cmd /\ cmd' # NoCmd
    BY DEF ReceiverMay, TailOut, DoneOut
  <2>2. Safe(<<t, k>>)
    BY <2>1 DEF LandInv, ClaimInv, TailOut, DoneOut
  <2>3. \A f : Safe(f) => Safe(f)'
    BY <2>1 DEF ReceiverMay
  <2> QED BY <2>2, <2>3
<1> QED BY <1>5, <1>6


\* A manifest lands from the line, with nothing left in the pipe; nothing is closed that was not.
LEMMA ReceiverClosesNone ==
  ASSUME KvInv, LandInv, ReceiverMay, NEW t
  PROVE  /\ Closed(t)' => Closed(t)
         /\ Manifest(t) \in DOMAIN disk' /\ Manifest(t) \notin DOMAIN disk => ManifestOut(t) /\ cmd' = NoCmd /\ Pipe' = {}
         /\ DoneOut(t)' => DoneOut(t) /\ cmd' = cmd
         /\ TailOut(t)' => TailOut(t) /\ cmd' = cmd
<1>1. cmd' = cmd \/ cmd' = NoCmd
  BY DEF ReceiverMay
<1>2. Manifest(t)[2] = NBlocks + 1 /\ NBlocks \in Nat /\ Manifest(t)' = Manifest(t)
  BY ReceiverAssumption DEF Manifest, ManifestFile
<1>3. ASSUME Manifest(t) \in DOMAIN disk', Manifest(t) \notin DOMAIN disk
      PROVE  ManifestOut(t) /\ cmd' = NoCmd /\ Pipe' = {}
  <2>1. ~(Manifest(t)[2] < NBlocks)
    BY <1>2
  <2>2. cmd # NoCmd /\ cmd.op = "FILE" /\ cmd.file = Manifest(t) /\ cmd' = NoCmd /\ Pipe' = {}
    BY <1>3, <2>1 DEF ReceiverMay
  <2> QED BY <2>2 DEF ManifestOut
<1>4. ManifestOut(t)' => ManifestOut(t)
  BY <1>1, <1>2 DEF ManifestOut
<1> QED BY <1>1, <1>2, <1>3, <1>4 DEF Closed, DoneOut, TailOut

\* The receiver keeps blocks, manifest and DONE in order.
LEMMA ReceiverOrders ==
  ASSUME KvInv, LandInv, ReceiverMay
  PROVE  OrderInv' /\ StageInv' /\ DoneIsWhole'
<1>0. UNCHANGED <<caps, sendq, hand, spc, waiting>> /\ Held' = Held /\ Newest' = Newest
  BY DEF ReceiverMay, connectorVars, Held, Newest
<1>1. \A t : Manifest(t)' = Manifest(t)
  BY DEF Manifest
<1>2. \A t : Closed(t)' => Closed(t)
  BY ReceiverClosesNone
<1>3. \A t : DoneOut(t)' => DoneOut(t) /\ cmd' = cmd /\ cmd # NoCmd
  BY ReceiverClosesNone DEF DoneOut
<1>4. \A t : TailOut(t)' => TailOut(t) /\ cmd' = cmd /\ cmd # NoCmd
  BY ReceiverClosesNone DEF TailOut
<1>5. \A t : Manifest(t) \in DOMAIN disk' => Manifest(t) \in DOMAIN disk \/ (cmd' = NoCmd /\ Pipe' = {})
  BY ReceiverClosesNone
<1>6. DOMAIN disk \subseteq DOMAIN disk' /\ (cmd' = cmd \/ cmd' = NoCmd)
  BY DEF ReceiverMay
<1>7. \A t \in Tags : done'[t] = done[t] \/ (DoneOut(t) /\ cmd' = NoCmd /\ done'[t] = cmd.status /\ \A f : Safe(f) => f \in DOMAIN disk)
  <2>1. done \in [Tags -> {"none", "complete", "gaps"}]
    BY DEF KvInv, TypeOK, ReceiverType
  <2> QED BY <2>1 DEF ReceiverMay, DoneOut
<1>8. OrderInv
  BY DEF LandInv
<1>9. OrderInv'
  <2>1. \A t \in Tags : Closed(t)' => \E i \in DOMAIN caps' : caps'[i].tag = t /\ caps'[i].end # "open"
    BY <1>0, <1>2, <1>8 DEF OrderInv
  <2>2. \A t \in Tags : done'[t] # "none" \/ DoneOut(t)' => Manifest(t) \in DOMAIN disk'
    BY <1>3, <1>6, <1>7, <1>8 DEF OrderInv
  <2>3. \A t \in Tags : DoneOut(t)' => done'[t] = "none"
    BY <1>3, <1>7, <1>8 DEF OrderInv
  <2>4. \A t \in Tags : TailOut(t)' => Manifest(t) \notin DOMAIN disk'
    BY <1>4, <1>5, <1>8 DEF OrderInv
  <2>5. BlockOut' => Manifest(cmd.file[1])' \notin DOMAIN disk'
    <3> SUFFICES ASSUME BlockOut' PROVE Manifest(cmd.file[1])' \notin DOMAIN disk'
      OBVIOUS
    <3>1. cmd' = cmd /\ cmd' # NoCmd /\ BlockOut
      BY <1>6 DEF BlockOut
    <3>2. Manifest(cmd.file[1]) \notin DOMAIN disk
      BY <1>8, <3>1 DEF OrderInv
    <3>3. Manifest(cmd.file[1]) \notin DOMAIN disk'
      BY <1>5, <3>1, <3>2
    <3> QED BY <3>1, <3>3 DEF Manifest
  <2>6. ASSUME NEW f \in Pipe' PROVE Manifest(f[1]) \notin DOMAIN disk' /\ f[2] < NBlocks
    <3>1. CASE f \in Pipe
      BY <1>5, <1>8, <3>1 DEF OrderInv
    <3>2. CASE BlockOut /\ cmd.file = f /\ UNCHANGED disk
      BY <1>8, <3>2 DEF OrderInv, LandInv, LineInv
    <3> QED BY <3>1, <3>2 DEF ReceiverMay
  <2>7. \A f \in Pipe' : Manifest(f[1])' \notin DOMAIN disk' /\ f[2] < NBlocks
    BY <1>1, <2>6
  <2>8. \A t \in Tags : /\ done'[t] # "none" \/ DoneOut(t)' => Manifest(t)' \in DOMAIN disk'
                        /\ TailOut(t)' => Manifest(t)' \notin DOMAIN disk'
    BY <1>1, <2>2, <2>4
  <2> QED BY <2>1, <2>3, <2>5, <2>7, <2>8 DEF OrderInv
<1>10. StageInv'
  <2>1. sendq' # <<>> => ~Closed(Newest.tag)'
    <3>1. sendq # <<>> => ~Closed(Newest.tag)
      BY DEF LandInv, StageInv
    <3>2. \A t : t = Newest.tag => (Closed(t)' => Closed(t))
      BY <1>2
    <3>3. ASSUME Closed(Newest.tag)' PROVE Closed(Newest.tag)
      BY <1>0, <1>2, <3>3
    <3> QED BY <1>0, <3>1, <3>3
  <2>2. ASSUME hand # NoItem PROVE
          /\ spc \in {"block", "tail"} => ~Closed(Held.tag)'
          /\ spc = "manifest" => done'[Held.tag] = "none" /\ ~DoneOut(Held.tag)'
          /\ spc = "manifest" /\ waiting /\ reply' = "OK" => Manifest(Held.tag) \in DOMAIN disk'
          /\ spc = "done" /\ ~waiting => done'[Held.tag] = "none" /\ ~DoneOut(Held.tag)' /\ Manifest(Held.tag) \in DOMAIN disk'
    <3>0. Held.tag \in Tags
      BY <2>2, HandType DEF Captures
    <3>1. Held'.tag = Held.tag
      BY <1>0
    <3>2. Closed(Held.tag)' => Closed(Held.tag)
      BY <1>2, <3>1
    <3>3. DoneOut(Held.tag)' => DoneOut(Held.tag)
      BY <1>3, <3>1
    <3>4. ASSUME spc = "manifest", waiting, reply' = "OK" PROVE Manifest(Held.tag) \in DOMAIN disk'
      <4>1. CASE reply = "OK"
        BY <1>6, <2>2, <3>4, <4>1 DEF LandInv, StageInv
      <4>2. CASE reply # "OK"
        <5>1. cmd # NoCmd /\ (cmd.op = "FILE" => cmd.file \in DOMAIN disk')
          BY <3>4, <4>2 DEF ReceiverMay
        <5>2. ManifestOut(Held.tag)
          BY <3>4, <5>1 DEF LandInv, LineInv
        <5> QED BY <5>1, <5>2 DEF ManifestOut
      <4> QED BY <4>1, <4>2
    <3>5. done'[Held.tag] = done[Held.tag] \/ DoneOut(Held.tag)
      BY <1>7, <3>0
    <3> QED BY <1>6, <2>2, <3>2, <3>3, <3>4, <3>5 DEF LandInv, StageInv
  <2>3. Manifest(Held.tag)' = Manifest(Held.tag)
    BY <1>0 DEF Manifest
  <2> QED BY <1>0, <2>1, <2>2, <2>3 DEF StageInv
<1>11. DoneIsWhole'
  <2> SUFFICES ASSUME NEW t \in Tags, done'[t] = "complete", NEW k \in 0 .. NBlocks - 1 PROVE <<t, k>> \in DOMAIN disk'
    BY DEF DoneIsWhole, Landing!Whole, Landing!Block
  <2>1. CASE done'[t] = done[t]
    <3>1. <<t, k>> \in DOMAIN disk
      BY <2>1 DEF LandInv, DoneIsWhole, Landing!Whole, Landing!Block
    <3> QED BY <1>6, <3>1
  <2>2. CASE DoneOut(t) /\ done'[t] = cmd.status /\ \A f : Safe(f) => f \in DOMAIN disk
    <3>1. Safe(<<t, k>>)
      BY <2>2 DEF LandInv, ClaimInv
    <3> QED BY <1>6, <2>2, <3>1
  <2> QED BY <1>7, <2>1, <2>2
<1> QED BY <1>9, <1>10, <1>11

\* Every step of the receiver keeps the invariant.
LEMMA ReceiverLands ==
  ASSUME KvInv, LandInv, UNCHANGED connectorVars, Receiver \/ Writer \/ LinkLost
  PROVE  LandInv'
BY ReceiverDoes, ReceiverLine, ReceiverCovers, ReceiverOrders DEF LandInv
-----------------------------------------------------------------------------
(* Steps of the forward thread *)

\* A step that leaves the receiver's files and the line alone.
LEMMA LineStays ==
  ASSUME UNCHANGED <<cmd, disk, done, failed, ring, head, count, job, wpc>>
  PROVE  /\ Pipe' = Pipe /\ (BlockOut' <=> BlockOut)
         /\ \A f : Safe(f)' <=> Safe(f)
         /\ \A t : /\ TailOut(t)' <=> TailOut(t)
                   /\ ManifestOut(t)' <=> ManifestOut(t)
                   /\ DoneOut(t)' <=> DoneOut(t)
                   /\ Closed(t)' <=> Closed(t)
                   /\ Manifest(t)' = Manifest(t)
<1>1. Pipe' = Pipe
  BY PipeSame
<1>2. \A f : Safe(f)' <=> Safe(f)
  BY <1>1 DEF Safe
<1>3. BlockOut' <=> BlockOut
  BY DEF BlockOut
<1>4. \A t : /\ TailOut(t)' <=> TailOut(t)
             /\ ManifestOut(t)' <=> ManifestOut(t)
             /\ DoneOut(t)' <=> DoneOut(t)
             /\ Manifest(t)' = Manifest(t)
  BY DEF TailOut, ManifestOut, DoneOut, Manifest
<1>5. \A t : Closed(t)' <=> Closed(t)
  BY <1>4 DEF Closed
<1> QED BY <1>1, <1>2, <1>3, <1>4, <1>5

\* A step that leaves receiver and line alone leaves what speaks of them alone.
LEMMA FilesStay ==
  ASSUME LandInv, UNCHANGED <<cmd, disk, done, failed, ring, head, count, job, wpc>>,
         \A i \in DOMAIN caps : i \in DOMAIN caps' /\ caps'[i].tag = caps[i].tag /\ (caps[i].end # "open" => caps'[i].end # "open")
  PROVE  ClaimInv' /\ OrderInv' /\ DoneIsWhole'
<1>1. /\ Pipe' = Pipe /\ (BlockOut' <=> BlockOut)
      /\ \A f : Safe(f)' <=> Safe(f)
      /\ \A t : /\ TailOut(t)' <=> TailOut(t)
                /\ DoneOut(t)' <=> DoneOut(t)
                /\ Closed(t)' <=> Closed(t)
                /\ Manifest(t)' = Manifest(t)
  BY LineStays
<1>2. ClaimInv'
  BY <1>1 DEF LandInv, ClaimInv
<1>3. OrderInv'
  <2>1. \A t \in Tags : Closed(t)' => \E i \in DOMAIN caps' : caps'[i].tag = t /\ caps'[i].end # "open"
    BY <1>1 DEF LandInv, OrderInv
  <2>2. \A f \in Pipe' : Manifest(f[1])' \notin DOMAIN disk' /\ f[2] < NBlocks
    BY <1>1 DEF LandInv, OrderInv
  <2>3. BlockOut' => Manifest(cmd.file[1])' \notin DOMAIN disk'
    BY <1>1 DEF LandInv, OrderInv, Manifest
  <2>4. \A t \in Tags : /\ done'[t] # "none" \/ DoneOut(t)' => Manifest(t)' \in DOMAIN disk'
                        /\ DoneOut(t)' => done'[t] = "none"
                        /\ TailOut(t)' => Manifest(t)' \notin DOMAIN disk'
    BY <1>1 DEF LandInv, OrderInv
  <2> QED BY <2>1, <2>2, <2>3, <2>4 DEF OrderInv
<1>4. DoneIsWhole'
  BY DEF LandInv, DoneIsWhole, Landing!Whole, Landing!Block
<1> QED BY <1>2, <1>3, <1>4

\* A step of the scheduler changes nothing of captures, queue and line.
LEMMA ScheduleKeeps ==
  ASSUME KvInv, LandInv, SoloInv', EndInv', CutInv',
         UNCHANGED <<link, cmd, reply, disk, done, failed, ring, head, count, job, wpc>>,
         UNCHANGED <<caps, sendq, hand, spc, waiting, tx>>
  PROVE  LandInv'
<1>1. /\ \A f : Safe(f)' <=> Safe(f)
      /\ BlockOut' <=> BlockOut
      /\ \A t : /\ TailOut(t)' <=> TailOut(t)
                /\ ManifestOut(t)' <=> ManifestOut(t)
                /\ DoneOut(t)' <=> DoneOut(t)
                /\ Closed(t)' <=> Closed(t)
                /\ Manifest(t)' = Manifest(t)
  BY LineStays
<1>2. ClaimInv' /\ OrderInv' /\ DoneIsWhole'
  BY FilesStay
<1>3. Newest' = Newest /\ Held' = Held /\ (Sending' <=> Sending)
  BY DEF Newest, Held, Sending
<1>4. ItemInv'
  BY <1>3 DEF LandInv, ItemInv, Item
<1>5. LineInv'
  BY <1>3 DEF LandInv, LineInv, BlockOut, TailOut, ManifestOut, DoneOut, Manifest
<1>6. CoverInv'
  <2>1. Sending' => tx' # "none"
    BY <1>3 DEF LandInv, CoverInv
  <2>3. ASSUME Sending, tx = "up", link = "up", reply # "ERR", NEW k \in 0 .. Newest.blocks - 1
        PROVE  Safe(<<Newest.tag, k>>)' \/ hand = BlockItem(Len(caps), k) \/ \E m \in DOMAIN sendq : sendq[m] = BlockItem(Len(caps), k)
    <3>1. Safe(<<Newest.tag, k>>) \/ hand = BlockItem(Len(caps), k) \/ \E m \in DOMAIN sendq : sendq[m] = BlockItem(Len(caps), k)
      BY <2>3 DEF LandInv, CoverInv
    <3>2. \A f : f = <<Newest.tag, k>> => (Safe(f)' <=> Safe(f))
      BY <1>1
    <3> QED BY <1>3, <3>1, <3>2
  <2>4. ASSUME waiting, reply = "OK", spc = "block", link = "up" PROVE Safe(<<Held.tag, hand.index>>)'
    <3>1. Safe(<<Held.tag, hand.index>>)
      BY <2>4 DEF LandInv, CoverInv
    <3>2. \A f : f = <<Held.tag, hand.index>> => (Safe(f)' <=> Safe(f))
      BY <1>1
    <3> QED BY <1>3, <3>1, <3>2
  <2> QED BY <1>3, <2>1, <2>3, <2>4 DEF CoverInv
<1>7. StageInv'
  <2>1. \A t : t = Newest.tag \/ t = Held.tag =>
               (Closed(t)' <=> Closed(t)) /\ (DoneOut(t)' <=> DoneOut(t)) /\ Manifest(t)' = Manifest(t)
    BY <1>1
  <2>2. /\ Closed(Newest.tag)' <=> Closed(Newest.tag)
        /\ Closed(Held.tag)' <=> Closed(Held.tag)
        /\ DoneOut(Held.tag)' <=> DoneOut(Held.tag)
        /\ Manifest(Held.tag)' = Manifest(Held.tag)
    BY <1>3, <2>1
  <2>3. sendq # <<>> => ~Closed(Newest.tag)'
    BY <2>2 DEF LandInv, StageInv
  <2> QED BY <1>3, <2>2, <2>3 DEF LandInv, StageInv
<1> QED BY <1>2, <1>4, <1>5, <1>6, <1>7 DEF LandInv

\* What a capture is.
LEMMA CapType ==
  ASSUME KvInv
  PROVE  /\ caps \in Seq(Captures) /\ Len(caps) \in Nat /\ DOMAIN caps = 1 .. Len(caps)
         /\ \A i \in DOMAIN caps : caps[i] \in Captures /\ caps[i].tag \in Tags /\ caps[i].blocks <= caps[i].have
         /\ caps # <<>> => Len(caps) \in DOMAIN caps /\ Newest \in Captures
<1>1. caps \in Seq(Captures)
  BY DEF KvInv, TypeOK, ConnectorType
<1>2. Len(caps) \in Nat /\ DOMAIN caps = 1 .. Len(caps) /\ \A i \in DOMAIN caps : caps[i] \in Captures
  BY <1>1
<1>3. \A i \in DOMAIN caps : caps[i].tag \in Tags /\ caps[i].blocks <= caps[i].have
  BY <1>2 DEF Captures, KvInv, CaptureInv
<1>4. caps # <<>> => Len(caps) \in DOMAIN caps
  BY <1>1
<1> QED BY <1>1, <1>2, <1>3, <1>4 DEF Newest

\* A chunk is scheduled for the one request that is in its prompt, or for a new one.
LEMMA StepLands ==
  ASSUME ~Overlap, KvInv, LandInv, NEW t \in Tags, NEW n \in 1 .. NBlocks, Step(t, n) PROVE LandInv'
<1>1. /\ fpc = "idle" /\ pos[t] + n <= NBlocks /\ pos' = [pos EXCEPT ![t] = @ + n]
      /\ \A u \in Tags \ {t} : ~Unfinished(u)
      /\ chunk' = [tag |-> t, start |-> pos[t], left |-> n, last |-> pos[t] + n = NBlocks]
      /\ fpc' = IF cur[t] = 0 \/ pos[t] = 0 THEN "open" ELSE "ingest"
      /\ UNCHANGED receiverVars /\ UNCHANGED <<caps, cur, sendq, hand, spc, waiting, tx, restarts>>
  BY DEF Step, NextChunk
<1>2. /\ pos[t] \in 0 .. NBlocks - 1 /\ pos'[t] = pos[t] + n /\ pos'[t] \in 1 .. NBlocks
      /\ \A u \in Tags : u # t => pos'[u] = pos[u]
  BY <1>1, PosType
<1>3. SoloInv /\ EndInv /\ CutInv
  BY DEF LandInv
<1>4. \A u \in Tags : u # t => ~Unfinished(u)'
  BY <1>1, <1>2 DEF Unfinished, Running
<1>5. cur[t] # 0 => Unfinished(t)
  BY <1>2, PosType DEF Unfinished, Running
<1>6. SoloInv'
  <2>1. cur[t] # 0 => cur[t] = Len(caps)
    BY <1>3, <1>5 DEF SoloInv
  <2>2. chunk'.tag = t /\ chunk'.start + chunk'.left = pos'[t] /\ (chunk'.last => pos'[t] = NBlocks)
    BY <1>1, <1>2
  <2>3. fpc' = "ingest" => cur[t] # 0
    BY <1>1
  <2> QED BY <1>1, <1>3, <1>4, <2>1, <2>2, <2>3 DEF SoloInv
<1>7. EndInv'
  <2>1. ASSUME NEW i \in DOMAIN caps, caps[i].end # "open" PROVE pos'[caps[i].tag] = NBlocks /\ cur[caps[i].tag] = 0 /\ t # caps[i].tag
    <3>1. pos[caps[i].tag] = NBlocks /\ cur[caps[i].tag] = 0 /\ caps[i].tag \in Tags
      BY <1>3, <2>1, CapType DEF EndInv
    <3>2. t # caps[i].tag
      BY <1>2, <3>1, PosType
    <3> QED BY <1>2, <3>1, <3>2
  <2> QED BY <1>1, <2>1 DEF EndInv
<1>8. CutInv'
  <2>1. fpc' # "put" /\ fpc # "put"
    BY <1>1
  <2> QED BY <1>1, <1>3, <2>1 DEF CutInv, Newest
<1> QED BY <1>1, <1>6, <1>7, <1>8, ScheduleKeeps DEF receiverVars

\* Other steps of the scheduler, between chunks.
LEMMA IdleKeeps ==
  ASSUME KvInv, LandInv, fpc = "idle", NEW t \in Tags, NEW p \in 0 .. Aborted,
         pos[t] # NBlocks, pos' = [pos EXCEPT ![t] = p], cur' = cur \/ cur' = [cur EXCEPT ![t] = 0],
         \A u \in Tags : Unfinished(u)' => Unfinished(u) \/ (u = t /\ cur'[t] = 0 /\ \A v \in Tags \ {t} : ~Unfinished(v)),
         UNCHANGED <<fpc, chunk, link, cmd, reply, disk, done, failed, ring, head, count, job, wpc>>,
         UNCHANGED <<caps, sendq, hand, spc, waiting, tx>>
  PROVE  LandInv'
<1>1. SoloInv /\ EndInv /\ CutInv
  BY DEF LandInv
<1>2. SoloInv'
  <2>1. \A u \in Tags : cur'[u] = cur[u] \/ cur'[u] = 0
    BY PosType
  <2>2. \A u, v \in Tags : Unfinished(u)' /\ Unfinished(v)' => u = v
    BY <1>1 DEF SoloInv
  <2>3. \A u \in Tags : Unfinished(u)' /\ cur'[u] # 0 => cur'[u] = Len(caps)
    BY <1>1, <2>1 DEF SoloInv
  <2>4. \A u \in Tags : cur'[u] # 0 => caps[cur'[u]].tag = u
    BY <1>1, <2>1 DEF SoloInv
  <2> QED BY <2>2, <2>3, <2>4 DEF SoloInv
<1>3. EndInv'
  <2>1. ASSUME NEW i \in DOMAIN caps, caps[i].end # "open" PROVE pos'[caps[i].tag] = NBlocks /\ cur'[caps[i].tag] = 0
    <3>1. pos[caps[i].tag] = NBlocks /\ cur[caps[i].tag] = 0 /\ caps[i].tag \in Tags
      BY <1>1, <2>1, CapType DEF EndInv
    <3> QED BY <3>1, PosType
  <2> QED BY <2>1 DEF EndInv
<1>4. CutInv'
  BY <1>1 DEF CutInv, Newest
<1> QED BY <1>2, <1>3, <1>4, ScheduleKeeps

\* A chunk without its layers counts as computed, and its capture is dropped.
LEMMA MissingLands ==
  ASSUME ~Overlap, KvInv, LandInv, NEW t \in Tags, NEW n \in 1 .. NBlocks, Missing(t, n) PROVE LandInv'
<1>1. /\ fpc = "idle" /\ pos[t] + n <= NBlocks /\ pos' = [pos EXCEPT ![t] = @ + n]
      /\ \A u \in Tags \ {t} : ~Unfinished(u)
      /\ cur' = [cur EXCEPT ![t] = 0]
      /\ UNCHANGED <<link, cmd, reply, disk, done, failed, ring, head, count, job, wpc>>
      /\ UNCHANGED <<caps, fpc, chunk, sendq, hand, spc, waiting, tx>>
  BY DEF Missing, NextChunk
<1>2. pos[t] # NBlocks /\ pos[t] + n \in 0 .. Aborted /\ pos' = [pos EXCEPT ![t] = pos[t] + n]
  BY <1>1, PosType DEF Aborted
<1>3. \A u \in Tags : u # t => (Unfinished(u)' <=> Unfinished(u))
  BY <1>1, PosType DEF Unfinished, Running
<1>4. cur'[t] = 0
  BY <1>1, PosType
<1> QED BY <1>1, <1>2, <1>3, <1>4, IdleKeeps

\* A preempted request stays the one in its prompt.
LEMMA PreemptLands ==
  ASSUME KvInv, LandInv, NEW t \in Tags, Preempt(t) PROVE LandInv'
<1>1. /\ fpc = "idle" /\ Running(t) /\ pos' = [pos EXCEPT ![t] = 0]
      /\ UNCHANGED <<link, cmd, reply, disk, done, failed, ring, head, count, job, wpc>>
      /\ UNCHANGED <<caps, cur, fpc, chunk, sendq, hand, spc, waiting, tx>>
  BY DEF Preempt, receiverVars
<1>2. pos[t] # NBlocks /\ 0 \in 0 .. Aborted
  BY <1>1, PosType DEF Running
<1>3. \A u \in Tags : Unfinished(u)' => Unfinished(u)
  BY <1>1, PosType DEF Unfinished, Running
<1> QED BY <1>1, <1>2, <1>3, IdleKeeps

\* A request whose client has gone is in its prompt no more.
LEMMA AbortLands ==
  ASSUME KvInv, LandInv, NEW t \in Tags, Abort(t) PROVE LandInv'
<1>1. /\ fpc = "idle" /\ Running(t) /\ pos' = [pos EXCEPT ![t] = Aborted]
      /\ UNCHANGED <<link, cmd, reply, disk, done, failed, ring, head, count, job, wpc>>
      /\ UNCHANGED <<caps, cur, fpc, chunk, sendq, hand, spc, waiting, tx>>
  BY DEF Abort, receiverVars
<1>2. pos[t] # NBlocks /\ Aborted \in 0 .. Aborted
  BY <1>1, PosType DEF Running
<1>3. \A u \in Tags : Unfinished(u)' => Unfinished(u)
  BY <1>1, PosType DEF Unfinished, Running, Aborted
<1> QED BY <1>1, <1>2, <1>3, IdleKeeps

\* A new connection is for no capture yet.
LEMMA ConnectLands ==
  ASSUME KvInv, LandInv, Connect PROVE LandInv'
<1>1. /\ fpc = "open" /\ sendq = <<>> /\ hand = NoItem /\ tx = "none" /\ tx' = "up"
      /\ UNCHANGED <<cmd, disk, done, failed, ring, head, count, job, wpc>>
      /\ UNCHANGED <<pos, caps, cur, fpc, chunk, sendq, hand, spc, waiting>>
  BY DEF Connect, Joined, forwardVars
<1>2. ~waiting /\ ~Sending
  BY <1>1 DEF LandInv, CoverInv, KvInv, CommandInv
<1>3. SoloInv' /\ EndInv'
  BY <1>1 DEF LandInv, SoloInv, EndInv, Unfinished, Running
<1>4. CutInv'
  BY <1>1 DEF LandInv, CutInv, Newest
<1>5. ItemInv'
  BY <1>1 DEF ItemInv, Item, Newest
<1>6. LineInv'
  BY <1>1, <1>2 DEF LandInv, LineInv, BlockOut
<1>7. CoverInv'
  <2>1. ~Sending'
    BY <1>1, <1>2 DEF Sending, Newest
  <2> QED BY <1>1, <1>2, <2>1 DEF CoverInv
<1>8. StageInv'
  BY <1>1 DEF StageInv
<1>9. ClaimInv' /\ OrderInv' /\ DoneIsWhole'
  BY <1>1, FilesStay
<1> QED BY <1>3, <1>4, <1>5, <1>6, <1>7, <1>8, <1>9 DEF LandInv

\* A new capture is the newest, and nothing of an older one is left in the queue.
LEMMA CaptureLands ==
  ASSUME KvInv, LandInv, fpc = "open", Joined, NEW wire \in BOOLEAN, wire => tx = "up", OpenCapture(wire),
         UNCHANGED <<link, cmd, reply, disk, done, failed, ring, head, count, job, wpc>>
  PROVE  LandInv'
<1>. DEFINE c == NewCapture(chunk.tag, wire)
<1>1. /\ caps' = Append(caps, c) /\ cur' = [cur EXCEPT ![chunk.tag] = Len(caps) + 1]
      /\ fpc' = "ingest" /\ UNCHANGED <<pos, chunk, sendq, hand, spc, waiting, tx>>
      /\ sendq = <<>> /\ hand = NoItem
  BY DEF OpenCapture, Joined
<1>2. c.tag = chunk.tag /\ c.wire = wire /\ c.blocks = 0 /\ c.have = 0 /\ c.end = "open"
  BY DEF NewCapture
<1>. HIDE DEF c
<1>3. /\ Len(caps') = Len(caps) + 1 /\ DOMAIN caps' = 1 .. Len(caps) + 1 /\ Len(caps) \in Nat
      /\ \A i \in DOMAIN caps : i \in DOMAIN caps' /\ caps'[i] = caps[i]
      /\ caps'[Len(caps) + 1] = c /\ Newest' = c /\ caps' # <<>>
      /\ \A i \in DOMAIN caps' : i \in DOMAIN caps \/ i = Len(caps) + 1
  BY <1>1, CapType DEF Newest
<1>4. /\ chunk.tag \in Tags /\ cur'[chunk.tag] = Len(caps) + 1
      /\ \A u \in Tags : u # chunk.tag => cur'[u] = cur[u]
      /\ \A u \in Tags : cur[u] # 0 => cur[u] \in DOMAIN caps
  BY <1>1, PosType, CapType DEF Chunks
<1>5. SoloInv /\ EndInv /\ CutInv /\ ~waiting
  BY <1>1 DEF LandInv, KvInv, CommandInv
<1>6. SoloInv'
  <2>1. \A u \in Tags : u # chunk.tag => ~Unfinished(u)'
    BY <1>1, <1>4, <1>5 DEF SoloInv, Unfinished, Running
  <2>2. \A u \in Tags : cur'[u] # 0 => caps'[cur'[u]].tag = u
    BY <1>2, <1>3, <1>4, <1>5 DEF SoloInv
  <2>3. \A u \in Tags : Unfinished(u)' /\ cur'[u] # 0 => cur'[u] = Len(caps')
    BY <1>3, <1>4, <2>1
  <2>4. chunk.start + chunk.left = pos[chunk.tag] /\ (chunk.last => pos[chunk.tag] = NBlocks)
    BY <1>5 DEF SoloInv
  <2> QED BY <1>1, <1>3, <1>4, <2>1, <2>2, <2>3, <2>4 DEF SoloInv
<1>7. EndInv'
  <2>1. ASSUME NEW i \in DOMAIN caps', caps'[i].end # "open"
        PROVE  pos[caps'[i].tag] = NBlocks /\ cur'[caps'[i].tag] = 0 /\ chunk.tag # caps'[i].tag
    <3>1. i \in DOMAIN caps /\ caps'[i] = caps[i]
      BY <1>2, <1>3, <2>1
    <3>2. pos[caps[i].tag] = NBlocks /\ cur[caps[i].tag] = 0 /\ chunk.tag # caps[i].tag /\ caps[i].tag \in Tags
      BY <1>5, <2>1, <3>1, CapType DEF EndInv
    <3> QED BY <1>4, <3>1, <3>2
  <2> QED BY <1>1, <2>1 DEF EndInv
<1>8. CutInv'
  BY <1>1, <1>2, <1>3 DEF CutInv
<1>9. ItemInv' /\ StageInv'
  BY <1>1 DEF ItemInv, StageInv
<1>10. LineInv'
  BY <1>1, <1>5 DEF LandInv, LineInv, BlockOut
<1>11. CoverInv'
  <2>1. Sending' => tx' # "none"
    BY <1>1, <1>2, <1>3 DEF Sending
  <2>2. 0 .. Newest'.blocks - 1 = {}
    BY <1>2, <1>3
  <2> QED BY <1>1, <1>5, <2>1, <2>2 DEF CoverInv
<1>12. ClaimInv' /\ OrderInv' /\ DoneIsWhole'
  BY <1>3, FilesStay
<1> QED BY <1>6, <1>7, <1>8, <1>9, <1>10, <1>11, <1>12 DEF LandInv

\* A capture is opened on the handle, or with files.
LEMMA OpenLands ==
  ASSUME KvInv, LandInv, Open \/ OpenFile PROVE LandInv'
<1>1. CASE Open
  BY <1>1, CaptureLands DEF Open, receiverVars
<1>2. CASE OpenFile
  BY <1>2, CaptureLands DEF OpenFile
<1> QED BY <1>1, <1>2

\* The capture a chunk is for is the newest one, it is open, and its manifest is not there.
LEMMA ChunkIsNewest ==
  ASSUME KvInv, LandInv, fpc \in {"ingest", "put"}
  PROVE  /\ cur[chunk.tag] = Len(caps) /\ caps # <<>> /\ Newest \in Captures
         /\ Len(caps) \in DOMAIN caps /\ Len(caps) # 0
         /\ Newest.tag = chunk.tag /\ chunk.tag \in Tags /\ Newest.end = "open" /\ ~Closed(Newest.tag)
         /\ \A m \in DOMAIN sendq : sendq[m].kind # "finish"
         /\ hand # NoItem => hand.kind # "finish"
<1>1. cur[chunk.tag] = Len(caps) /\ cur[chunk.tag] # 0 /\ chunk.tag \in Tags /\ cur[chunk.tag] \in DOMAIN caps
  BY ChunkType DEF LandInv, SoloInv
<1>2. caps # <<>> /\ Newest \in Captures
  BY <1>1, CapType
<1>3. Newest.tag = chunk.tag
  BY <1>1 DEF LandInv, SoloInv, Newest
<1>4. \A i \in DOMAIN caps : caps[i].end # "open" => chunk.tag # caps[i].tag
  BY DEF LandInv, EndInv
<1>5. Newest.end = "open"
  BY <1>1, <1>3, <1>4 DEF Newest
<1>6. ~Closed(chunk.tag)
  BY <1>1, <1>4 DEF LandInv, OrderInv
<1>7. \A m \in DOMAIN sendq : sendq[m].kind # "finish"
  BY <1>5 DEF LandInv, ItemInv, Item
<1>8. hand # NoItem => hand.kind # "finish"
  BY <1>5 DEF LandInv, ItemInv, Item
<1> QED BY <1>1, <1>2, <1>3, <1>5, <1>6, <1>7, <1>8

\* Replacing the newest capture.
LEMMA NewestReplaced ==
  ASSUME KvInv, caps # <<>>, NEW c \in Captures, c.tag = Newest.tag, caps' = [caps EXCEPT ![Len(caps)] = c]
  PROVE  /\ Len(caps') = Len(caps) /\ DOMAIN caps' = DOMAIN caps /\ caps' # <<>>
         /\ Newest' = c /\ caps'[Len(caps)] = c
         /\ \A j \in DOMAIN caps : caps'[j].tag = caps[j].tag /\ (j # Len(caps) => caps'[j] = caps[j])
<1>1. Len(caps) \in DOMAIN caps
  BY CapType
<1>2. /\ Len(caps') = Len(caps) /\ DOMAIN caps' = DOMAIN caps /\ caps'[Len(caps)] = c
      /\ \A j \in DOMAIN caps : j # Len(caps) => caps'[j] = caps[j]
  BY <1>1, CaptureReplaced DEF KvInv, TypeOK
<1>3. \A j \in DOMAIN caps : caps'[j].tag = caps[j].tag
  BY <1>1, <1>2 DEF Newest
<1>4. caps' # <<>>
  BY <1>1, <1>2
<1> QED BY <1>2, <1>3, <1>4 DEF Newest

\* What the forward thread does to the capture it fills keeps what the sender and the receiver rely on.
LEMMA NewestKeeps ==
  ASSUME KvInv, LandInv, fpc \in {"ingest", "put"},
         NEW c \in Captures, c.tag = Newest.tag, c.wire = Newest.wire, c.error = Newest.error,
         caps' = [caps EXCEPT ![Len(caps)] = c],
         UNCHANGED <<link, cmd, reply, disk, done, failed, ring, head, count, job, wpc>>,
         UNCHANGED <<hand, spc, waiting, tx>>,
         \A m \in DOMAIN sendq : m \in DOMAIN sendq' /\ sendq'[m] = sendq[m],
         c.wire => \A k \in 0 .. c.blocks - 1 :
           k \in 0 .. Newest.blocks - 1 \/ \E m \in DOMAIN sendq' : sendq'[m] = BlockItem(Len(caps), k),
         SoloInv', EndInv', CutInv', ItemInv'
  PROVE  LandInv'
<1>0. Newest.end = "open" /\ ~Closed(Newest.tag) /\ caps # <<>>
  BY ChunkIsNewest
<1>1. /\ Len(caps') = Len(caps) /\ DOMAIN caps' = DOMAIN caps /\ caps' # <<>>
      /\ Newest' = c /\ caps'[Len(caps)] = c
      /\ \A j \in DOMAIN caps : caps'[j].tag = caps[j].tag /\ (j # Len(caps) => caps'[j] = caps[j])
  BY <1>0, NewestReplaced
<1>2. hand # NoItem => Held'.tag = Held.tag
  BY <1>1, HandType DEF Held
<1>3. /\ \A f : Safe(f)' <=> Safe(f)
      /\ BlockOut' <=> BlockOut
      /\ \A t : /\ TailOut(t)' <=> TailOut(t)
                /\ ManifestOut(t)' <=> ManifestOut(t)
                /\ DoneOut(t)' <=> DoneOut(t)
                /\ Closed(t)' <=> Closed(t)
                /\ Manifest(t)' = Manifest(t)
  BY LineStays
<1>4. ClaimInv' /\ OrderInv' /\ DoneIsWhole'
  <2>1. \A i \in DOMAIN caps : caps[i].end # "open" => caps'[i].end # "open"
    BY <1>0, <1>1 DEF Newest
  <2> QED BY <1>1, <2>1, FilesStay
<1>5. LineInv'
  <2>1. waiting => hand # NoItem
    BY DEF KvInv, CommandInv
  <2> QED BY <1>2, <2>1 DEF LandInv, LineInv, BlockOut, TailOut, ManifestOut, DoneOut, Manifest
<1>6. CoverInv'
  <2>1. Sending' => Sending
    BY <1>0, <1>1 DEF Sending
  <2>2. ASSUME Sending', tx = "up", link = "up", reply # "ERR", NEW k \in 0 .. c.blocks - 1
        PROVE  Safe(<<Newest.tag, k>>)' \/ hand = BlockItem(Len(caps), k) \/ \E m \in DOMAIN sendq' : sendq'[m] = BlockItem(Len(caps), k)
    <3>1. CASE k \in 0 .. Newest.blocks - 1
      <4>1. Safe(<<Newest.tag, k>>) \/ hand = BlockItem(Len(caps), k) \/ \E m \in DOMAIN sendq : sendq[m] = BlockItem(Len(caps), k)
        BY <2>1, <2>2, <3>1 DEF LandInv, CoverInv
      <4>2. \A f : f = <<Newest.tag, k>> => (Safe(f)' <=> Safe(f))
        BY <1>3
      <4>3. Newest'.tag = Newest.tag
        BY <1>1
      <4> QED BY <4>1, <4>2, <4>3
    <3>2. c.wire
      BY <1>1, <2>2 DEF Sending
    <3> QED BY <2>2, <3>1, <3>2
  <2>3. ASSUME waiting, reply = "OK", spc = "block", link = "up" PROVE Safe(<<Held.tag, hand.index>>)'
    <3>1. Safe(<<Held.tag, hand.index>>)
      BY <2>3 DEF LandInv, CoverInv
    <3>2. \A f : f = <<Held.tag, hand.index>> => (Safe(f)' <=> Safe(f))
      BY <1>3
    <3>3. Held'.tag = Held.tag
      BY <1>2, <2>3 DEF KvInv, CommandInv
    <3> QED BY <3>1, <3>2, <3>3
  <2>4. Sending' => tx # "none"
    BY <2>1 DEF LandInv, CoverInv
  <2> QED BY <1>1, <2>2, <2>3, <2>4 DEF CoverInv
<1>7. StageInv'
  <2>1. ~Closed(Newest.tag)'
    <3>1. \A t : t = Newest.tag => ~Closed(t)'
      BY <1>0, <1>3
    <3> QED BY <1>1, <3>1
  <2>2. ASSUME hand # NoItem
        PROVE  /\ Closed(Held.tag)' <=> Closed(Held.tag)
               /\ DoneOut(Held.tag)' <=> DoneOut(Held.tag)
               /\ Manifest(Held.tag)' = Manifest(Held.tag)
    <3>1. \A t : t = Held.tag =>
                 (Closed(t)' <=> Closed(t)) /\ (DoneOut(t)' <=> DoneOut(t)) /\ Manifest(t)' = Manifest(t)
      BY <1>3
    <3> QED BY <1>2, <2>2, <3>1
  <2> QED BY <1>2, <2>1, <2>2 DEF LandInv, StageInv
<1> QED BY <1>4, <1>5, <1>6, <1>7 DEF LandInv

\* The forward thread's bookkeeping while it fills the newest capture.
LEMMA FillKeeps ==
  ASSUME KvInv, LandInv, fpc \in {"ingest", "put"}, fpc' = "put",
         NEW c \in Captures, c.tag = Newest.tag, c.end = "open", caps' = [caps EXCEPT ![Len(caps)] = c],
         UNCHANGED <<pos, cur>>, chunk'.tag = chunk.tag, chunk'.last = chunk.last
  PROVE  SoloInv' /\ EndInv'
<1>1. /\ Len(caps') = Len(caps) /\ DOMAIN caps' = DOMAIN caps /\ caps' # <<>>
      /\ Newest' = c /\ caps'[Len(caps)] = c
      /\ \A j \in DOMAIN caps : caps'[j].tag = caps[j].tag /\ (j # Len(caps) => caps'[j] = caps[j])
  BY ChunkIsNewest, NewestReplaced
<1>2. SoloInv /\ EndInv /\ cur[chunk.tag] = Len(caps)
  BY ChunkIsNewest DEF LandInv
<1>3. SoloInv'
  <2>1. \A u \in Tags : cur[u] # 0 => cur[u] \in DOMAIN caps
    BY PosType, CapType
  <2>2. \A u \in Tags : cur[u] # 0 => caps'[cur[u]].tag = u
    BY <1>1, <1>2, <2>1 DEF SoloInv
  <2>3. \A u \in Tags : Unfinished(u)' <=> Unfinished(u)
    BY DEF Unfinished, Running
  <2> QED BY <1>1, <1>2, <2>2, <2>3 DEF SoloInv
<1>4. EndInv'
  <2>1. \A i \in DOMAIN caps' : caps'[i].end # "open" => i # Len(caps) /\ i \in DOMAIN caps /\ caps'[i] = caps[i]
    BY <1>1
  <2> QED BY <1>2, <2>1 DEF EndInv
<1> QED BY <1>3, <1>4

\* Rows come in where the capture ends, or it has a gap from now on.
LEMMA IngestLands ==
  ASSUME KvInv, LandInv, Ingest PROVE LandInv'
<1>. DEFINE x == Newest
            c == IF chunk.start # x.have THEN [x EXCEPT !.gap = TRUE] ELSE [x EXCEPT !.have = @ + chunk.left]
<1>1. /\ fpc = "ingest" /\ fpc' = "put" /\ UNCHANGED receiverVars
      /\ UNCHANGED <<pos, cur, sendq, hand, spc, waiting, tx, restarts>>
  BY DEF Ingest
<1>2. /\ cur[chunk.tag] = Len(caps) /\ caps # <<>> /\ x \in Captures /\ Len(caps) \in DOMAIN caps
      /\ x.tag = chunk.tag /\ x.end = "open"
      /\ \A m \in DOMAIN sendq : sendq[m].kind # "finish"
      /\ hand # NoItem => hand.kind # "finish"
  BY <1>1, ChunkIsNewest
<1>3. /\ chunk \in Chunks /\ chunk.start \in 0 .. NBlocks /\ chunk.left \in 0 .. NBlocks /\ NBlocks \in Nat
      /\ chunk.start + chunk.left <= NBlocks /\ chunk.start + chunk.left = pos[chunk.tag]
  BY <1>1, PosType DEF Chunks, KvInv, CaptureInv, LandInv, SoloInv
<1>4. /\ caps' = [caps EXCEPT ![Len(caps)] = c]
      /\ IF chunk.start # x.have THEN chunk' = [chunk EXCEPT !.left = 0]
         ELSE chunk' = IF x.gap THEN [chunk EXCEPT !.left = 0] ELSE chunk
  BY <1>1, <1>2 DEF Ingest, Newest
<1>5. x.have \in 0 .. NBlocks /\ x.blocks \in 0 .. NBlocks /\ (x.wire /\ ~x.gap /\ ~x.error => x.have = x.blocks)
  BY <1>1, <1>2, <1>3 DEF Captures, LandInv, CutInv
<1>. HIDE DEF x
<1>6. /\ c \in Captures /\ c.tag = x.tag /\ c.wire = x.wire /\ c.error = x.error /\ c.end = x.end /\ c.blocks = x.blocks
      /\ c.gap = (x.gap \/ chunk.start # x.have)
      /\ c.have = IF chunk.start # x.have THEN x.have ELSE x.have + chunk.left
  <2>1. CASE chunk.start # x.have
    BY <1>2, <2>1 DEF Captures
  <2>2. CASE chunk.start = x.have
    <3>1. x.have + chunk.left \in 0 .. NBlocks
      BY <1>3, <1>5, <2>2
    <3> QED BY <1>2, <2>2, <3>1 DEF Captures
  <2> QED BY <2>1, <2>2
<1>. HIDE DEF c
<1>7. chunk'.tag = chunk.tag /\ chunk'.last = chunk.last /\ (~c.gap => chunk' = chunk)
  BY <1>3, <1>4, <1>6 DEF Chunks
<1>8. SoloInv' /\ EndInv'
  BY <1>1, <1>2, <1>4, <1>6, <1>7, FillKeeps DEF x
<1>9. Len(caps') = Len(caps) /\ Newest' = c
  BY <1>2, <1>4, <1>6, NewestReplaced DEF x
<1>10. CutInv'
  <2>1. ~c.gap => c.have = pos[chunk.tag]
    BY <1>3, <1>6
  <2>2. c.wire /\ ~c.gap /\ ~c.error => c.have = c.blocks + chunk'.left
    BY <1>3, <1>5, <1>6, <1>7
  <2> QED BY <1>1, <1>7, <1>9, <2>1, <2>2 DEF CutInv
<1>11. ItemInv'
  BY <1>1, <1>2, <1>6, <1>9 DEF LandInv, ItemInv, Item, x
<1>12. \A k \in 0 .. c.blocks - 1 : k \in 0 .. Newest.blocks - 1
  BY <1>6 DEF x
<1> QED BY <1>1, <1>2, <1>4, <1>6, <1>8, <1>10, <1>11, <1>12, NewestKeeps DEF x, receiverVars

\* What a queue holds after an item was appended.
LEMMA Appended ==
  ASSUME NEW S, NEW q \in Seq(S), NEW e \in S, NEW r, r = Append(q, e)
  PROVE  /\ Len(r) = Len(q) + 1 /\ Len(q) \in Nat
         /\ \A m \in DOMAIN q : m \in DOMAIN r /\ r[m] = q[m] /\ m # Len(r)
         /\ Len(r) \in DOMAIN r /\ r[Len(r)] = e
         /\ \A m \in DOMAIN r : m \in DOMAIN q \/ m = Len(r)
<1>1. r \in Seq(S) /\ Len(r) = Len(q) + 1 /\ Len(q) \in Nat /\ DOMAIN r = 1 .. Len(q) + 1 /\ DOMAIN q = 1 .. Len(q)
  OBVIOUS
<1>2. \A m \in 1 .. Len(q) : r[m] = q[m]
  OBVIOUS
<1>3. r[Len(q) + 1] = e
  OBVIOUS
<1> QED BY <1>1, <1>2, <1>3

\* A block that is cut is queued behind those that were cut before.
LEMMA CutLands ==
  ASSUME KvInv, LandInv, CutBlock PROVE LandInv'
<1>. DEFINE x == Newest
            S == QueueItems
<1>1. /\ fpc = "put" /\ chunk.left > 0 /\ UNCHANGED receiverVars
      /\ UNCHANGED <<pos, cur, fpc, hand, spc, waiting, tx, restarts>>
  BY DEF CutBlock
<1>2. /\ cur[chunk.tag] = Len(caps) /\ caps # <<>> /\ x \in Captures /\ Len(caps) \in DOMAIN caps
      /\ x.tag = chunk.tag /\ x.end = "open"
      /\ \A m \in DOMAIN sendq : sendq[m].kind # "finish"
      /\ hand # NoItem => hand.kind # "finish"
  BY <1>1, ChunkIsNewest
<1>3. /\ chunk \in Chunks /\ chunk.left \in 1 .. NBlocks /\ x.blocks \in 0 .. NBlocks /\ x.have \in 0 .. NBlocks
      /\ x.sent \in Nat /\ x.blocks + chunk.left <= x.have /\ NBlocks \in Nat
      /\ x.wire \in BOOLEAN /\ x.error \in BOOLEAN
  BY <1>1, <1>2, PosType DEF Chunks, Captures, KvInv, CaptureInv, Newest
<1>4. /\ x.wire /\ ~x.gap /\ ~x.error => x.have = x.blocks + chunk.left
      /\ ~x.gap => x.have = pos[chunk.tag]
  BY <1>1, <1>2 DEF LandInv, CutInv
<1>5. \E c \in Captures :
        /\ c.tag = x.tag /\ c.wire = x.wire /\ c.error = x.error /\ c.end = x.end
        /\ c.have = x.have /\ c.gap = x.gap /\ caps' = [caps EXCEPT ![Len(caps)] = c]
        /\ \/ c.error /\ c.blocks = x.blocks /\ chunk' = [chunk EXCEPT !.left = 0] /\ sendq' = sendq
           \/ c.wire /\ c.blocks = x.blocks + 1 /\ chunk' = [chunk EXCEPT !.left = @ - 1] /\ sendq' = Append(sendq, BlockItem(Len(caps), x.blocks))
           \/ ~c.wire /\ c.blocks = x.blocks + 1 /\ chunk' = [chunk EXCEPT !.left = @ - 1] /\ sendq' = sendq
  <2>1. \/ x.error /\ chunk' = [chunk EXCEPT !.left = 0] /\ UNCHANGED <<caps, sendq>>
        \/ /\ x.wire /\ sendq' = Append(sendq, BlockItem(Len(caps), x.blocks))
           /\ caps' = [caps EXCEPT ![Len(caps)] = [x EXCEPT !.blocks = @ + 1]]
           /\ chunk' = [chunk EXCEPT !.left = @ - 1]
        \/ /\ ~x.wire /\ sendq' = sendq
           /\ caps' = [caps EXCEPT ![Len(caps)] = [[x EXCEPT !.blocks = @ + 1] EXCEPT !.sent = @ + 1]]
           /\ chunk' = [chunk EXCEPT !.left = @ - 1]
    BY <1>2 DEF CutBlock, Newest
  <2>2. caps = [caps EXCEPT ![Len(caps)] = x]
    BY <1>2, CapType DEF Newest
  <2>. HIDE DEF x
  <2>3. /\ [x EXCEPT !.blocks = @ + 1] \in Captures /\ [x EXCEPT !.blocks = @ + 1].blocks = x.blocks + 1
        /\ [x EXCEPT !.blocks = @ + 1].sent \in Nat
    <3>1. x.blocks + 1 \in 0 .. NBlocks
      BY <1>3
    <3> QED BY <1>2, <1>3, <3>1 DEF Captures
  <2>. DEFINE y == [x EXCEPT !.blocks = @ + 1]
              z == [y EXCEPT !.sent = @ + 1]
  <2>4. /\ y.tag = x.tag /\ y.wire = x.wire /\ y.error = x.error /\ y.end = x.end /\ y.have = x.have /\ y.gap = x.gap
    BY <1>2 DEF Captures
  <2>. HIDE DEF y
  <2>5. /\ z \in Captures /\ z.tag = y.tag /\ z.wire = y.wire /\ z.error = y.error /\ z.end = y.end
        /\ z.have = y.have /\ z.gap = y.gap /\ z.blocks = y.blocks
    <3>1. y \in Captures /\ y.sent \in Nat
      BY <2>3 DEF y
    <3> QED BY ONLY <3>1 DEF Captures, z
  <2>6. CASE x.error /\ chunk' = [chunk EXCEPT !.left = 0] /\ UNCHANGED <<caps, sendq>>
    BY <1>2, <2>2, <2>6
  <2>. HIDE DEF z
  <2>7. CASE x.wire /\ caps' = [caps EXCEPT ![Len(caps)] = y] /\ chunk' = [chunk EXCEPT !.left = @ - 1]
             /\ sendq' = Append(sendq, BlockItem(Len(caps), x.blocks))
    <3>1. y \in Captures /\ y.blocks = x.blocks + 1
      BY <2>3 DEF y
    <3> QED BY <2>4, <2>7, <3>1
  <2>8. CASE ~x.wire /\ caps' = [caps EXCEPT ![Len(caps)] = z] /\ chunk' = [chunk EXCEPT !.left = @ - 1] /\ sendq' = sendq
    <3>1. z.blocks = x.blocks + 1
      BY <2>3, <2>5 DEF y
    <3> QED BY <2>4, <2>5, <2>8, <3>1
  <2> QED BY <2>1, <2>6, <2>7, <2>8 DEF y, z
<1>6. PICK c \in Captures :
        /\ c.tag = x.tag /\ c.wire = x.wire /\ c.error = x.error /\ c.end = x.end
        /\ c.have = x.have /\ c.gap = x.gap /\ caps' = [caps EXCEPT ![Len(caps)] = c]
        /\ \/ c.error /\ c.blocks = x.blocks /\ chunk' = [chunk EXCEPT !.left = 0] /\ sendq' = sendq
           \/ c.wire /\ c.blocks = x.blocks + 1 /\ chunk' = [chunk EXCEPT !.left = @ - 1] /\ sendq' = Append(sendq, BlockItem(Len(caps), x.blocks))
           \/ ~c.wire /\ c.blocks = x.blocks + 1 /\ chunk' = [chunk EXCEPT !.left = @ - 1] /\ sendq' = sendq
  BY <1>5
<1>7. chunk'.tag = chunk.tag /\ chunk'.last = chunk.last /\ (c.blocks = x.blocks + 1 => chunk'.left = chunk.left - 1)
      /\ (c.wire /\ ~c.error => c.blocks = x.blocks + 1)
  BY <1>3, <1>6 DEF Chunks
<1>8. Len(caps') = Len(caps) /\ Newest' = c
  BY <1>2, <1>6, NewestReplaced
<1>9. sendq \in Seq(S) /\ Len(sendq) \in Nat /\ DOMAIN sendq = 1 .. Len(sendq)
  BY DEF KvInv, TypeOK, ConnectorType
<1>17. BlockItem(Len(caps), x.blocks) \in S
  <2>1. x.blocks \in 0 .. NBlocks - 1
    BY <1>3
  <2> QED BY <1>2, <2>1 DEF BlockItem, QueueItems
<1>. HIDE DEF x, S
<1>10. SoloInv' /\ EndInv'
  BY <1>1, <1>2, <1>6, <1>7, FillKeeps DEF x
<1>11. CutInv'
  <2>1. ASSUME c.wire, ~c.gap, ~c.error PROVE c.have = c.blocks + chunk'.left
    <3>1. x.have = x.blocks + chunk.left
      BY <1>4, <1>6, <2>1
    <3>2. c.have = x.have /\ c.blocks = x.blocks + 1 /\ chunk'.left = chunk.left - 1
      BY <1>6, <1>7, <2>1
    <3>3. x.blocks \in Nat /\ chunk.left \in Nat
      BY <1>3
    <3> QED BY ONLY <3>1, <3>2, <3>3
  <2>2. ~c.gap => c.have = pos[chunk.tag]
    BY <1>4, <1>6
  <2> QED BY <1>1, <1>7, <1>8, <2>1, <2>2 DEF CutInv
<1>12. /\ \A m \in DOMAIN sendq : m \in DOMAIN sendq' /\ sendq'[m] = sendq[m]
       /\ \A m \in DOMAIN sendq' : m \in DOMAIN sendq \/ (sendq'[m] = BlockItem(Len(caps), x.blocks) /\ c.wire)
       /\ c.wire /\ c.blocks = x.blocks + 1 => \E m \in DOMAIN sendq' : sendq'[m] = BlockItem(Len(caps), x.blocks)
  <2>1. CASE sendq' = sendq /\ ~(c.wire /\ c.blocks = x.blocks + 1)
    BY <2>1
  <2>2. CASE c.wire /\ sendq' = Append(sendq, BlockItem(Len(caps), x.blocks))
    BY <1>9, <1>17, <2>2, Appended
  <2>3. x.blocks # x.blocks + 1
    BY <1>3
  <2> QED BY <1>6, <2>1, <2>2, <2>3
<1>13. ItemInv'
  <2>1. \A m \in DOMAIN sendq' : sendq'[m].cap = Len(caps) /\ c.wire /\ sendq'[m].kind # "finish"
    <3>1. \A m \in DOMAIN sendq : sendq[m].cap = Len(caps) /\ x.wire
      BY DEF LandInv, ItemInv, Item, x
    <3> QED BY <1>2, <1>6, <1>12, <3>1 DEF BlockItem
  <2>2. hand # NoItem => hand.cap = Len(caps) /\ c.wire /\ hand.kind # "finish"
    BY <1>2, <1>6 DEF LandInv, ItemInv, Item, x
  <2> QED BY <1>1, <1>8, <2>1, <2>2 DEF ItemInv, Item
<1>14. CASE c.error /\ c.blocks = x.blocks
  BY <1>1, <1>2, <1>6, <1>10, <1>11, <1>12, <1>13, <1>14, NewestKeeps DEF x, receiverVars
<1>15. CASE c.wire /\ c.blocks = x.blocks + 1
  <2>1. \A k \in 0 .. c.blocks - 1 : k \in 0 .. x.blocks - 1 \/ k = x.blocks
    BY <1>3, <1>15
  <2>2. \A k \in 0 .. c.blocks - 1 : k \in 0 .. Newest.blocks - 1 \/ \E m \in DOMAIN sendq' : sendq'[m] = BlockItem(Len(caps), k)
    BY <1>12, <1>15, <2>1 DEF x
  <2> QED BY <1>1, <1>2, <1>6, <1>10, <1>11, <1>12, <1>13, <2>2, NewestKeeps DEF x, receiverVars
<1>16. CASE ~c.wire /\ sendq' = sendq
  BY <1>1, <1>2, <1>6, <1>10, <1>11, <1>12, <1>13, <1>16, NewestKeeps DEF x, receiverVars
<1> QED BY <1>6, <1>14, <1>15, <1>16

\* The end of a capture is queued behind its last block, or there is only a file.
LEMMA EndLands ==
  ASSUME KvInv, LandInv, EndChunk PROVE LandInv'
<1>. DEFINE x == Newest
            S == QueueItems
<1>1. /\ fpc = "put" /\ chunk.left = 0 /\ fpc' = "idle" /\ UNCHANGED receiverVars
      /\ UNCHANGED <<pos, chunk, hand, spc, waiting, tx, restarts>>
  BY DEF EndChunk
<1>2. /\ cur[chunk.tag] = Len(caps) /\ caps # <<>> /\ x \in Captures /\ Len(caps) \in DOMAIN caps
      /\ x.tag = chunk.tag /\ x.end = "open" /\ chunk.tag \in Tags
      /\ \A m \in DOMAIN sendq : sendq[m].kind # "finish"
      /\ hand # NoItem => hand.kind # "finish"
  BY <1>1, ChunkIsNewest
<1>3. /\ x.wire /\ ~x.gap /\ ~x.error => x.have = x.blocks
      /\ ~x.gap => x.have = pos[chunk.tag]
      /\ chunk.last => pos[chunk.tag] = NBlocks
  <2>1. x.blocks \in Nat
    BY <1>2, ReceiverAssumption DEF Captures
  <2> QED BY <1>1, <1>2, <2>1 DEF LandInv, CutInv, SoloInv
<1>4. SoloInv /\ EndInv
  BY DEF LandInv
<1>5. CASE UNCHANGED <<caps, cur, sendq>>
  <2>1. SoloInv'
    BY <1>1, <1>4, <1>5 DEF SoloInv, Unfinished, Running
  <2>2. EndInv'
    BY <1>1, <1>4, <1>5 DEF EndInv
  <2>3. CutInv'
    <3>1. x.blocks \in Nat /\ x.blocks + 0 = x.blocks
      BY <1>2, ReceiverAssumption DEF Captures
    <3> QED BY <1>1, <1>3, <1>5, <3>1 DEF CutInv, Newest
  <2> QED BY <1>1, <1>5, <2>1, <2>2, <2>3, ScheduleKeeps DEF receiverVars
<1>6. ASSUME chunk.last, NEW e \in {"finishing", "file"}, caps' = [caps EXCEPT ![Len(caps)].end = e],
             cur' = [cur EXCEPT ![chunk.tag] = 0],
             \/ x.wire /\ e = "finishing" /\ sendq' = Append(sendq, FinishItem(Len(caps)))
             \/ ~x.wire /\ sendq' = sendq
      PROVE  LandInv'
  <2>. DEFINE c == [x EXCEPT !.end = e]
  <2>1. caps' = [caps EXCEPT ![Len(caps)] = c]
    BY <1>6 DEF Newest
  <2>. HIDE DEF x
  <2>2. /\ c \in Captures /\ c.tag = x.tag /\ c.wire = x.wire /\ c.error = x.error /\ c.end = e
        /\ c.have = x.have /\ c.gap = x.gap /\ c.blocks = x.blocks
    BY <1>2 DEF Captures
  <2>. HIDE DEF c
  <2>3. /\ Len(caps') = Len(caps) /\ DOMAIN caps' = DOMAIN caps /\ Newest' = c /\ caps'[Len(caps)] = c
        /\ \A j \in DOMAIN caps : caps'[j].tag = caps[j].tag /\ (j # Len(caps) => caps'[j] = caps[j])
    BY <1>2, <2>1, <2>2, NewestReplaced DEF x
  <2>4. \A u \in Tags : cur'[u] = IF u = chunk.tag THEN 0 ELSE cur[u]
    BY <1>6, PosType
  <2>5. \A u \in Tags : Unfinished(u)' => Unfinished(u)
    BY <1>1, <2>4 DEF Unfinished, Running
  <2>6. SoloInv'
    <3>1. \A u \in Tags : cur'[u] # 0 => cur'[u] = cur[u] /\ cur[u] \in DOMAIN caps
      BY <2>4, PosType, CapType
    <3>2. \A u \in Tags : cur'[u] # 0 => caps'[cur'[u]].tag = u
      BY <1>4, <2>3, <3>1 DEF SoloInv
    <3> QED BY <1>1, <1>4, <2>3, <2>5, <3>1, <3>2 DEF SoloInv
  <2>7. EndInv'
    <3>1. ASSUME NEW i \in DOMAIN caps', caps'[i].end # "open" PROVE pos[caps'[i].tag] = NBlocks /\ cur'[caps'[i].tag] = 0
      <4>1. CASE i = Len(caps)
        BY <1>2, <1>3, <1>6, <2>2, <2>3, <2>4, <4>1
      <4>2. CASE i # Len(caps)
        <5>1. caps'[i] = caps[i] /\ caps[i].tag \in Tags /\ i \in DOMAIN caps
          BY <2>3, <4>2, CapType
        <5> QED BY <1>4, <2>4, <3>1, <5>1 DEF EndInv
      <4> QED BY <4>1, <4>2
    <3> QED BY <1>1, <3>1 DEF EndInv
  <2>8. CutInv'
    <3>1. x.blocks \in Nat /\ x.blocks + 0 = x.blocks
      BY <1>2, ReceiverAssumption DEF Captures
    <3> QED BY <1>1, <1>3, <2>2, <2>3, <3>1 DEF CutInv
  <2>9. FinishItem(Len(caps)) \in S
    BY <1>2 DEF FinishItem, QueueItems
  <2>10. sendq \in Seq(S)
    BY DEF KvInv, TypeOK, ConnectorType
  <2>. HIDE DEF S
  <2>11. /\ \A m \in DOMAIN sendq : m \in DOMAIN sendq' /\ sendq'[m] = sendq[m]
         /\ \A m \in DOMAIN sendq' : m \in DOMAIN sendq \/ (m = Len(sendq') /\ sendq'[m] = FinishItem(Len(caps)) /\ x.wire /\ e = "finishing")
    <3>1. CASE ~x.wire /\ sendq' = sendq
      BY <3>1
    <3>2. CASE x.wire /\ e = "finishing" /\ sendq' = Append(sendq, FinishItem(Len(caps)))
      BY <2>9, <2>10, <3>2, Appended
    <3> QED BY <1>6, <3>1, <3>2
  <2>12. ItemInv'
    <3>1. \A m \in DOMAIN sendq : sendq[m].cap = Len(caps) /\ x.wire
      BY DEF LandInv, ItemInv, Item, x
    <3>2. \A m \in DOMAIN sendq' : /\ sendq'[m].cap = Len(caps) /\ x.wire
                                   /\ sendq'[m].kind = "finish" => m = Len(sendq') /\ e = "finishing"
      BY <1>2, <2>11, <3>1 DEF FinishItem
    <3>3. ~x.gap => x.have = NBlocks
      BY <1>3, <1>6
    <3>4. hand # NoItem => hand.cap = Len(caps) /\ x.wire /\ hand.kind # "finish"
      BY <1>2 DEF LandInv, ItemInv, Item, x
    <3> QED BY <1>1, <2>2, <2>3, <3>2, <3>3, <3>4 DEF ItemInv, Item
  <2> QED BY <1>1, <1>2, <2>1, <2>2, <2>6, <2>7, <2>8, <2>11, <2>12, NewestKeeps DEF x, receiverVars
<1>7. CASE /\ chunk.last /\ caps' = [caps EXCEPT ![Len(caps)].end = "finishing"] /\ x.wire
           /\ sendq' = Append(sendq, FinishItem(Len(caps))) /\ cur' = [cur EXCEPT ![chunk.tag] = 0]
  BY <1>6, <1>7
<1>8. CASE /\ chunk.last /\ caps' = [caps EXCEPT ![Len(caps)].end = "file"] /\ ~x.wire
           /\ sendq' = sendq /\ cur' = [cur EXCEPT ![chunk.tag] = 0]
  BY <1>6, <1>8
<1> QED BY <1>2, <1>5, <1>7, <1>8 DEF EndChunk, Newest

\* Every step of the forward thread keeps the invariant.
LEMMA ForwardLands ==
  ASSUME ~Overlap, KvInv, LandInv, Forward PROVE LandInv'
BY StepLands, MissingLands, PreemptLands, AbortLands, ConnectLands, OpenLands, IngestLands, CutLands, EndLands DEF Forward

-----------------------------------------------------------------------------
(* Steps of the sender thread *)

\* The sender works for the newest capture; its end is its last item.
LEMMA HeldIsNewest ==
  ASSUME KvInv, LandInv, hand # NoItem
  PROVE  /\ hand.cap = Len(caps) /\ Held = Newest /\ caps # <<>> /\ Newest \in Captures /\ Newest.tag \in Tags
         /\ Len(caps) \in DOMAIN caps /\ Newest.wire
         /\ spc # "block" => /\ hand.kind = "finish" /\ sendq = <<>> /\ Newest.end = "finishing"
                             /\ ~Newest.gap => Newest.have = NBlocks
<1>1. hand \in QueueItems /\ hand.cap \in DOMAIN caps /\ (hand.kind = "block" <=> spc = "block")
  BY HandType
<1>2. hand.cap = Len(caps) /\ Newest.wire
  BY DEF LandInv, ItemInv, Item
<1>3. caps # <<>> /\ Held = Newest
  BY <1>1, <1>2 DEF Held, Newest
<1>4. hand.kind = "block" \/ hand.kind = "finish"
  BY <1>1 DEF QueueItems
<1> QED BY <1>1, <1>2, <1>3, <1>4, CapType DEF LandInv, ItemInv, Item, Captures

\* What the sender does to the capture it works for.
LEMMA SentKeeps ==
  ASSUME KvInv, LandInv, hand # NoItem, UNCHANGED <<pos, cur, fpc, chunk>>,
         NEW c \in Captures, c.tag = Newest.tag, c.wire = Newest.wire, c.blocks = Newest.blocks, c.have = Newest.have,
         ~c.gap => ~Newest.gap, ~c.error => ~Newest.error,
         c.end = Newest.end \/ (Newest.end = "finishing" /\ c.end # "open"),
         caps' = [caps EXCEPT ![Len(caps)] = c]
  PROVE  SoloInv' /\ EndInv' /\ CutInv'
<1>1. /\ Len(caps') = Len(caps) /\ DOMAIN caps' = DOMAIN caps /\ caps' # <<>>
      /\ Newest' = c /\ caps'[Len(caps)] = c
      /\ \A j \in DOMAIN caps : caps'[j].tag = caps[j].tag /\ (j # Len(caps) => caps'[j] = caps[j])
  BY HeldIsNewest, NewestReplaced
<1>2. SoloInv /\ EndInv /\ CutInv
  BY DEF LandInv
<1>3. SoloInv'
  <2>1. \A u \in Tags : cur[u] # 0 => cur[u] \in DOMAIN caps
    BY PosType, CapType
  <2>2. \A u \in Tags : cur[u] # 0 => caps'[cur[u]].tag = u
    BY <1>1, <1>2, <2>1 DEF SoloInv
  <2>3. \A u \in Tags : Unfinished(u)' <=> Unfinished(u)
    BY DEF Unfinished, Running
  <2> QED BY <1>1, <1>2, <2>2, <2>3 DEF SoloInv
<1>4. EndInv'
  <2>1. \A i \in DOMAIN caps' : caps'[i].end # "open" => caps[i].end # "open" /\ i \in DOMAIN caps /\ caps'[i].tag = caps[i].tag
    BY <1>1 DEF Newest
  <2> QED BY <1>2, <2>1 DEF EndInv
<1>5. CutInv'
  <2>1. caps # <<>>
    BY HeldIsNewest
  <2> QED BY <1>1, <1>2, <2>1 DEF CutInv
<1> QED BY <1>3, <1>4, <1>5

\* The parts that do not speak of the sender's items.
LEMMA SenderFrame ==
  ASSUME KvInv, LandInv, UNCHANGED <<pos, caps, cur, fpc, chunk>>
  PROVE  SoloInv' /\ EndInv' /\ CutInv' /\ Newest' = Newest
<1>1. SoloInv' /\ EndInv'
  BY DEF LandInv, SoloInv, EndInv, Unfinished, Running
<1>2. CutInv' /\ Newest' = Newest
  BY DEF LandInv, CutInv, Newest
<1> QED BY <1>1, <1>2

\* The item at the head of the queue goes to the sender's hand.
LEMMA GetLands ==
  ASSUME KvInv, LandInv, SenderGet PROVE LandInv'
<1>. DEFINE S == QueueItems
<1>1. /\ hand = NoItem /\ sendq # <<>> /\ hand' = Head(sendq) /\ sendq' = Tail(sendq)
      /\ spc' = IF Head(sendq).kind = "block" THEN "block" ELSE "tail"
      /\ UNCHANGED <<link, cmd, reply, disk, done, failed, ring, head, count, job, wpc>>
      /\ UNCHANGED <<pos, caps, cur, fpc, chunk, waiting, tx>>
  BY DEF SenderGet, receiverVars, forwardVars
<1>2. ~waiting
  BY <1>1 DEF KvInv, CommandInv
<1>3. SoloInv' /\ EndInv' /\ CutInv' /\ Newest' = Newest
  BY <1>1, SenderFrame
<1>4. sendq \in Seq(S)
  BY DEF KvInv, TypeOK, ConnectorType
<1>. HIDE DEF S
<1>5. /\ hand' = sendq[1] /\ 1 \in DOMAIN sendq
      /\ \A m \in DOMAIN sendq' : m + 1 \in DOMAIN sendq /\ sendq'[m] = sendq[m + 1] /\ m \in Nat
      /\ \A m \in DOMAIN sendq : m = 1 \/ (m - 1 \in DOMAIN sendq' /\ sendq'[m - 1] = sendq[m])
      /\ Len(sendq) = Len(sendq') + 1 /\ Len(sendq') \in Nat /\ (Len(sendq') = 0 => sendq' = <<>>)
  <2>1. /\ Len(sendq) \in Nat /\ Len(sendq) # 0 /\ DOMAIN sendq = 1 .. Len(sendq) /\ hand' = sendq[1]
    BY <1>1, <1>4
  <2>2. /\ sendq' \in Seq(S) /\ Len(sendq') = Len(sendq) - 1 /\ \A m \in 1 .. Len(sendq') : sendq'[m] = sendq[m + 1]
    BY <1>1, <1>4, HeadTailProperties
  <2>3. DOMAIN sendq' = 1 .. Len(sendq') /\ Len(sendq') \in Nat /\ (Len(sendq') = 0 => sendq' = <<>>)
    BY <2>2
  <2> QED BY <2>1, <2>2, <2>3
<1>6. ItemInv'
  <2>1. \A m \in DOMAIN sendq : Item(sendq[m]) /\ (sendq[m].kind = "finish" => m = Len(sendq))
    BY DEF LandInv, ItemInv
  <2>2. \A m \in DOMAIN sendq' : Item(sendq[m + 1]) /\ (sendq'[m].kind = "finish" => m = Len(sendq'))
    BY <1>5, <2>1
  <2>3. Item(sendq[1]) /\ (sendq[1].kind = "finish" => sendq' = <<>>)
    BY <1>5, <2>1
  <2> QED BY <1>1, <1>3, <1>5, <2>2, <2>3 DEF ItemInv, Item
<1>7. /\ \A f : Safe(f)' <=> Safe(f)
      /\ BlockOut' <=> BlockOut
      /\ \A t : (Closed(t)' <=> Closed(t)) /\ (DoneOut(t)' <=> DoneOut(t))
  BY <1>1, LineStays
<1>8. LineInv'
  BY <1>1, <1>2, <1>7 DEF LandInv, LineInv
<1>9. CoverInv'
  <2>1. Sending' => Sending /\ tx' # "none"
    BY <1>1, <1>3 DEF LandInv, CoverInv, Sending
  <2>2. ASSUME Sending', tx = "up", link = "up", reply # "ERR", NEW k \in 0 .. Newest.blocks - 1
        PROVE  Safe(<<Newest.tag, k>>)' \/ hand' = BlockItem(Len(caps), k) \/ \E m \in DOMAIN sendq' : sendq'[m] = BlockItem(Len(caps), k)
    <3>1. Safe(<<Newest.tag, k>>) \/ hand = BlockItem(Len(caps), k) \/ \E m \in DOMAIN sendq : sendq[m] = BlockItem(Len(caps), k)
      BY <2>1, <2>2 DEF LandInv, CoverInv
    <3>2. \A f : f = <<Newest.tag, k>> => (Safe(f)' <=> Safe(f))
      BY <1>7
    <3>3. hand # BlockItem(Len(caps), k)
      BY <1>1 DEF NoItem, BlockItem
    <3> QED BY <1>3, <1>5, <3>1, <3>2, <3>3
  <2> QED BY <1>1, <1>2, <1>3, <2>1, <2>2 DEF CoverInv
<1>10. StageInv'
  <2>1. ~Closed(Newest.tag)'
    <3>1. \A t : t = Newest.tag => ~Closed(t)'
      BY <1>1, <1>7 DEF LandInv, StageInv
    <3> QED BY <1>3, <3>1
  <2>2. Held' = Newest'
    BY <1>1, <1>3, <1>5 DEF LandInv, ItemInv, Item, Held, Newest
  <2>3. ~Closed(Held.tag)'
    BY <2>1, <2>2
  <2> QED BY <1>1, <2>1, <2>3 DEF StageInv
<1>11. ClaimInv' /\ OrderInv' /\ DoneIsWhole'
  BY <1>1, FilesStay
<1> QED BY <1>3, <1>6, <1>8, <1>9, <1>10, <1>11 DEF LandInv

\* A request with no manifest has no DONE.
LEMMA NoManifestNoDone ==
  ASSUME LandInv, NEW t \in Tags, ~Closed(t)
  PROVE  done[t] = "none" /\ ~DoneOut(t)
BY DEF LandInv, OrderInv, Closed

\* Past the tail, the manifest is next.
LEMMA TailPasses ==
  ASSUME KvInv, LandInv, hand # NoItem, spc = "tail", spc' = "manifest", waiting' = FALSE,
         UNCHANGED <<link, cmd, disk, done, failed, ring, head, count, job, wpc>>,
         UNCHANGED <<pos, caps, cur, fpc, chunk, sendq, hand>>,
         tx' = "dead" \/ (tx' = tx /\ reply # "ERR")
  PROVE  LandInv'
<1>1. SoloInv' /\ EndInv' /\ CutInv' /\ Newest' = Newest /\ Held' = Held
  BY SenderFrame DEF Held
<1>2. Newest.tag \in Tags /\ Held = Newest /\ ~Closed(Newest.tag) /\ sendq = <<>>
  BY HeldIsNewest DEF LandInv, StageInv
<1>3. done[Newest.tag] = "none" /\ ~DoneOut(Newest.tag)
  BY <1>2, NoManifestNoDone
<1>4. /\ \A f : Safe(f)' <=> Safe(f)
      /\ BlockOut' <=> BlockOut
      /\ \A t : DoneOut(t)' <=> DoneOut(t)
  BY LineStays
<1>5. ItemInv'
  BY <1>1 DEF LandInv, ItemInv, Item
<1>6. LineInv'
  BY <1>4 DEF LandInv, LineInv
<1>7. CoverInv'
  <2>1. Sending' => Sending /\ tx' # "none"
    BY <1>1 DEF LandInv, CoverInv, Sending
  <2>2. ASSUME Sending', tx' = "up", link = "up", NEW k \in 0 .. Newest.blocks - 1
        PROVE  Safe(<<Newest.tag, k>>)' \/ hand' = BlockItem(Len(caps), k) \/ \E m \in DOMAIN sendq' : sendq'[m] = BlockItem(Len(caps), k)
    <3>1. Safe(<<Newest.tag, k>>) \/ hand = BlockItem(Len(caps), k) \/ \E m \in DOMAIN sendq : sendq[m] = BlockItem(Len(caps), k)
      BY <2>1, <2>2 DEF LandInv, CoverInv
    <3>2. \A f : f = <<Newest.tag, k>> => (Safe(f)' <=> Safe(f))
      BY <1>4
    <3> QED BY <1>1, <3>1, <3>2
  <2> QED BY <1>1, <2>1, <2>2 DEF CoverInv
<1>8. StageInv'
  <2>1. ~DoneOut(Held.tag)'
    <3>1. \A t : t = Newest.tag => ~DoneOut(t)'
      BY <1>3, <1>4
    <3> QED BY <1>1, <1>2, <3>1
  <2> QED BY <1>1, <1>2, <1>3, <2>1 DEF StageInv
<1>9. ClaimInv' /\ OrderInv' /\ DoneIsWhole'
  BY FilesStay
<1> QED BY <1>1, <1>5, <1>6, <1>7, <1>8, <1>9 DEF LandInv

\* The sender has done with its item: the capture is sent no more, or the block is with the receiver.
LEMMA ItemPasses ==
  ASSUME KvInv, LandInv, hand # NoItem, hand' = NoItem, waiting' = FALSE,
         UNCHANGED <<cmd, disk, done, failed, ring, head, count, job, wpc>>,
         UNCHANGED <<pos, cur, fpc, chunk, sendq>>,
         NEW c \in Captures, c.tag = Newest.tag, c.wire = Newest.wire, c.blocks = Newest.blocks, c.have = Newest.have,
         ~c.gap => ~Newest.gap, ~c.error => ~Newest.error,
         c.end = Newest.end \/ (spc # "block" /\ c.end \in {"done", "lost"}),
         caps' = [caps EXCEPT ![Len(caps)] = c],
         \/ c.error \/ c.end \in {"done", "lost"}
         \/ UNCHANGED <<link, tx>> /\ reply # "ERR" /\ spc = "block" /\ (link = "up" => Safe(<<Held.tag, hand.index>>))
  PROVE  LandInv'
<1>1. /\ Held = Newest /\ caps # <<>> /\ Len(caps) \in DOMAIN caps
      /\ spc # "block" => sendq = <<>> /\ Newest.end = "finishing"
  BY HeldIsNewest
<1>2. SoloInv' /\ EndInv' /\ CutInv'
  BY <1>1, SentKeeps
<1>3. /\ Len(caps') = Len(caps) /\ DOMAIN caps' = DOMAIN caps /\ caps' # <<>>
      /\ Newest' = c /\ caps'[Len(caps)] = c
      /\ \A j \in DOMAIN caps : caps'[j].tag = caps[j].tag /\ (j # Len(caps) => caps'[j] = caps[j])
  BY <1>1, NewestReplaced
<1>4. /\ \A f : Safe(f)' <=> Safe(f)
      /\ BlockOut' <=> BlockOut
      /\ \A t : Closed(t)' <=> Closed(t)
  BY LineStays
<1>5. ItemInv'
  <2>1. \A m \in DOMAIN sendq : spc = "block"
    BY <1>1
  <2> QED BY <1>3, <2>1 DEF LandInv, ItemInv, Item
<1>6. LineInv'
  BY <1>4 DEF LandInv, LineInv
<1>7. CoverInv'
  <2>1. Sending' => /\ Sending /\ UNCHANGED <<link, tx>> /\ reply # "ERR" /\ spc = "block"
                    /\ link = "up" => Safe(<<Held.tag, hand.index>>)
    BY <1>1, <1>3 DEF Sending
  <2>2. ASSUME Sending', tx' = "up", link' = "up", NEW k \in 0 .. c.blocks - 1
        PROVE  Safe(<<Newest.tag, k>>)' \/ \E m \in DOMAIN sendq' : sendq'[m] = BlockItem(Len(caps), k)
    <3>1. Safe(<<Newest.tag, k>>) \/ hand = BlockItem(Len(caps), k) \/ \E m \in DOMAIN sendq : sendq[m] = BlockItem(Len(caps), k)
      BY <2>1, <2>2 DEF LandInv, CoverInv
    <3>2. hand = BlockItem(Len(caps), k) => Safe(<<Newest.tag, k>>)
      BY <1>1, <2>1, <2>2 DEF BlockItem
    <3>3. \A f : f = <<Newest.tag, k>> => (Safe(f)' <=> Safe(f))
      BY <1>4
    <3>4. Newest'.tag = Newest.tag
      BY <1>3
    <3> QED BY <3>1, <3>2, <3>3, <3>4
  <2>3. Sending' => tx' # "none"
    BY <2>1 DEF LandInv, CoverInv
  <2> QED BY <1>3, <2>2, <2>3 DEF CoverInv
<1>8. StageInv'
  <2>1. ASSUME sendq # <<>> PROVE ~Closed(Newest.tag)'
    <3>1. \A t : t = Newest.tag => ~Closed(t)'
      BY <1>4, <2>1 DEF LandInv, StageInv
    <3> QED BY <1>3, <3>1
  <2> QED BY <2>1 DEF StageInv
<1>9. ClaimInv' /\ OrderInv' /\ DoneIsWhole'
  <2>1. \A i \in DOMAIN caps : caps[i].end # "open" => caps'[i].end # "open"
    BY <1>3 DEF Newest
  <2> QED BY <1>3, <2>1, FilesStay
<1> QED BY <1>2, <1>5, <1>6, <1>7, <1>8, <1>9 DEF LandInv

\* Skipping keeps the invariant.
LEMMA SkipLands ==
  ASSUME KvInv, LandInv, SenderSkip PROVE LandInv'
<1>1. /\ hand # NoItem /\ ~waiting /\ Skips
      /\ IF spc = "block" THEN hand' = NoItem /\ UNCHANGED spc ELSE spc' = "manifest" /\ UNCHANGED hand
      /\ UNCHANGED <<link, cmd, reply, disk, done, failed, ring, head, count, job, wpc>>
      /\ UNCHANGED <<pos, caps, cur, fpc, chunk, sendq, waiting, tx>>
  BY DEF SenderSkip, receiverVars, forwardVars
<1>2. reply = "none" /\ waiting = FALSE
  BY <1>1 DEF KvInv, CommandInv, TypeOK, ConnectorType
<1>3. CASE spc = "block"
  <2>1. Newest \in Captures /\ Newest.error /\ caps' = [caps EXCEPT ![Len(caps)] = Newest]
    BY <1>1, <1>3, HeldIsNewest, CapType DEF Skips, Newest
  <2> QED BY <1>1, <1>2, <1>3, <2>1, ItemPasses
<1>4. CASE spc = "tail"
  BY <1>1, <1>2, <1>4, TailPasses
<1> QED BY <1>1, <1>3, <1>4 DEF Skips

\* What comes back as OK is with the receiver, or on the disk.
LEMMA OkLands ==
  ASSUME KvInv, LandInv, SenderOk PROVE LandInv'
<1>. DEFINE x == Newest
<1>1. /\ waiting /\ reply = "OK" /\ reply' = "none" /\ waiting' = FALSE
      /\ UNCHANGED <<link, cmd, disk, done, failed, ring, head, count, job, wpc>>
      /\ UNCHANGED <<pos, cur, fpc, chunk, sendq, tx>>
  BY DEF SenderOk
<1>2. hand # NoItem
  BY <1>1 DEF KvInv, CommandInv
<1>3. /\ hand.cap = Len(caps) /\ Held = x /\ caps # <<>> /\ x \in Captures /\ Len(caps) \in DOMAIN caps
      /\ x.tag \in Tags
      /\ spc # "block" => sendq = <<>> /\ x.end = "finishing"
  BY <1>2, HeldIsNewest
<1>4. CASE spc = "block" /\ caps' = [caps EXCEPT ![hand.cap].sent = @ + 1] /\ hand' = NoItem
  <2>. DEFINE c == [x EXCEPT !.sent = @ + 1]
  <2>1. caps' = [caps EXCEPT ![Len(caps)] = c]
    BY <1>3, <1>4 DEF Newest
  <2>. HIDE DEF x
  <2>2. x.sent + 1 \in Nat
    BY <1>3 DEF Captures
  <2>3. /\ c \in Captures /\ c.tag = x.tag /\ c.wire = x.wire /\ c.blocks = x.blocks /\ c.have = x.have
        /\ c.gap = x.gap /\ c.error = x.error /\ c.end = x.end
    BY <1>3, <2>2 DEF Captures
  <2>. HIDE DEF c
  <2>4. link = "up" => Safe(<<Held.tag, hand.index>>)
    BY <1>1, <1>4 DEF LandInv, CoverInv
  <2> QED BY <1>1, <1>2, <1>4, <2>1, <2>3, <2>4, ItemPasses DEF x
<1>5. CASE spc = "tail" /\ spc' = "manifest" /\ UNCHANGED <<caps, hand>>
  BY <1>1, <1>2, <1>5, TailPasses
<1>6. CASE spc = "manifest" /\ spc' = "done" /\ UNCHANGED <<caps, hand>>
  <2>1. SoloInv' /\ EndInv' /\ CutInv' /\ Newest' = Newest /\ Held' = Held
    BY <1>1, <1>6, SenderFrame DEF Held
  <2>2. /\ \A f : Safe(f)' <=> Safe(f)
        /\ BlockOut' <=> BlockOut
        /\ \A t : (DoneOut(t)' <=> DoneOut(t)) /\ Manifest(t)' = Manifest(t)
    BY <1>1, LineStays
  <2>3. ItemInv'
    BY <1>1, <1>6, <2>1 DEF LandInv, ItemInv, Item
  <2>4. LineInv'
    BY <1>1, <2>2 DEF LandInv, LineInv
  <2>5. CoverInv'
    <3>1. Sending' => Sending /\ tx' # "none"
      BY <1>1, <1>6, <2>1 DEF LandInv, CoverInv, Sending
    <3>2. ASSUME Sending', tx' = "up", link = "up", NEW k \in 0 .. Newest.blocks - 1
          PROVE  Safe(<<Newest.tag, k>>)' \/ hand' = BlockItem(Len(caps), k) \/ \E m \in DOMAIN sendq' : sendq'[m] = BlockItem(Len(caps), k)
      <4>1. Safe(<<Newest.tag, k>>) \/ hand = BlockItem(Len(caps), k) \/ \E m \in DOMAIN sendq : sendq[m] = BlockItem(Len(caps), k)
        BY <1>1, <3>1, <3>2 DEF LandInv, CoverInv
      <4>2. \A f : f = <<Newest.tag, k>> => (Safe(f)' <=> Safe(f))
        BY <2>2
      <4> QED BY <1>1, <1>6, <2>1, <4>1, <4>2
    <3> QED BY <1>1, <1>6, <2>1, <3>1, <3>2 DEF CoverInv
  <2>6. StageInv'
    <3>1. ~DoneOut(Held.tag) /\ done[Held.tag] = "none" /\ Manifest(Held.tag) \in DOMAIN disk
      BY <1>1, <1>2, <1>6 DEF LandInv, StageInv
    <3>2. \A t : t = Held.tag => ~DoneOut(t)' /\ Manifest(t)' \in DOMAIN disk'
      BY <1>1, <2>2, <3>1
    <3>3. ~DoneOut(Held.tag)' /\ Manifest(Held.tag)' \in DOMAIN disk'
      BY <2>1, <3>2
    <3> QED BY <1>1, <1>3, <1>6, <2>1, <3>1, <3>3 DEF StageInv
  <2>7. ClaimInv' /\ OrderInv' /\ DoneIsWhole'
    BY <1>1, <1>6, FilesStay
  <2> QED BY <2>1, <2>3, <2>4, <2>5, <2>6, <2>7 DEF LandInv
<1>7. CASE spc = "done" /\ caps' = [caps EXCEPT ![hand.cap].end = "done"] /\ hand' = NoItem
  <2>. DEFINE c == [x EXCEPT !.end = "done"]
  <2>1. caps' = [caps EXCEPT ![Len(caps)] = c]
    BY <1>3, <1>7 DEF Newest
  <2>. HIDE DEF x
  <2>3. /\ c \in Captures /\ c.tag = x.tag /\ c.wire = x.wire /\ c.blocks = x.blocks /\ c.have = x.have
        /\ c.gap = x.gap /\ c.error = x.error /\ c.end = "done"
    BY <1>3 DEF Captures
  <2>. HIDE DEF c
  <2> QED BY <1>1, <1>2, <1>7, <2>1, <2>3, ItemPasses DEF x
<1> QED BY <1>4, <1>5, <1>6, <1>7 DEF SenderOk

\* A send that fails ends the capture's block, or the capture; a tail's failure only its connection.
LEMMA ErrorLands ==
  ASSUME KvInv, LandInv, SenderError PROVE LandInv'
<1>. DEFINE x == Newest
<1>1. /\ hand # NoItem /\ waiting' = FALSE
      /\ UNCHANGED <<cmd, disk, done, failed, ring, head, count, job, wpc>>
      /\ UNCHANGED <<pos, cur, fpc, chunk, sendq>>
  BY DEF SenderError
<1>2. /\ hand.cap = Len(caps) /\ caps # <<>> /\ x \in Captures /\ Len(caps) \in DOMAIN caps
      /\ spc # "block" => x.end = "finishing"
  BY <1>1, HeldIsNewest
<1>3. CASE spc = "tail" /\ tx' = "dead" /\ spc' = "manifest" /\ UNCHANGED <<link, caps, hand>>
  BY <1>1, <1>3, TailPasses
<1>4. CASE spc = "block" /\ caps' = [caps EXCEPT ![hand.cap].error = TRUE, ![hand.cap].gap = TRUE] /\ hand' = NoItem
  <2>. DEFINE y == [x EXCEPT !.error = TRUE]
              c == [y EXCEPT !.gap = TRUE]
  <2>1. caps' = [caps EXCEPT ![Len(caps)] = c]
    BY <1>2, <1>4 DEF Newest
  <2>. HIDE DEF x
  <2>2. /\ y \in Captures /\ y.tag = x.tag /\ y.wire = x.wire /\ y.blocks = x.blocks /\ y.have = x.have
        /\ y.error /\ y.end = x.end
    BY <1>2 DEF Captures
  <2>. HIDE DEF y
  <2>3. /\ c \in Captures /\ c.tag = y.tag /\ c.wire = y.wire /\ c.blocks = y.blocks /\ c.have = y.have
        /\ c.gap /\ c.error = y.error /\ c.end = y.end
    BY <2>2 DEF Captures
  <2>. HIDE DEF c
  <2> QED BY <1>1, <1>4, <2>1, <2>2, <2>3, ItemPasses DEF x
<1>5. CASE spc \notin {"tail", "block"} /\ caps' = [caps EXCEPT ![hand.cap].end = "lost"] /\ hand' = NoItem
  <2>. DEFINE c == [x EXCEPT !.end = "lost"]
  <2>1. caps' = [caps EXCEPT ![Len(caps)] = c]
    BY <1>2, <1>5 DEF Newest
  <2>. HIDE DEF x
  <2>3. /\ c \in Captures /\ c.tag = x.tag /\ c.wire = x.wire /\ c.blocks = x.blocks /\ c.have = x.have
        /\ c.gap = x.gap /\ c.error = x.error /\ c.end = "lost"
    BY <1>2 DEF Captures
  <2>. HIDE DEF c
  <2> QED BY <1>1, <1>5, <2>1, <2>3, ItemPasses DEF x
<1> QED BY <1>3, <1>4, <1>5 DEF SenderError

\* A capture that says it is whole has been sent, block by block.
LEMMA SentWhole ==
  ASSUME KvInv, LandInv, hand # NoItem, spc # "block", tx = "up", link = "up", reply = "none",
         ~Held.gap, ~Held.error, NEW k \in 0 .. NBlocks - 1
  PROVE  Safe(<<Held.tag, k>>)
<1>1. /\ Held = Newest /\ caps # <<>> /\ Newest \in Captures /\ Newest.wire /\ hand.kind = "finish" /\ sendq = <<>>
      /\ Newest.end = "finishing" /\ Newest.have = NBlocks
  BY HeldIsNewest
<1>2. fpc # "put"
  BY <1>1, ChunkIsNewest
<1>3. Newest.blocks = NBlocks
  <2>1. Newest.blocks \in Nat /\ Newest.blocks + 0 = Newest.blocks
    BY <1>1, ReceiverAssumption DEF Captures
  <2> QED BY <1>1, <1>2, <2>1 DEF LandInv, CutInv
<1>4. hand # BlockItem(Len(caps), k) /\ ~\E m \in DOMAIN sendq : sendq[m] = BlockItem(Len(caps), k)
  BY <1>1 DEF BlockItem
<1>5. Sending
  BY <1>1 DEF Sending
<1> QED BY <1>1, <1>3, <1>4, <1>5 DEF LandInv, CoverInv

\* A command goes out: for a block, behind all blocks, behind the tail, or behind the manifest.
LEMMA SendLands ==
  ASSUME KvInv, LandInv, SenderSend PROVE LandInv'
<1>1. /\ hand # NoItem /\ ~waiting /\ ~Skips /\ tx = "up" /\ link = "up" /\ cmd' = Command /\ waiting' = TRUE
      /\ UNCHANGED <<link, reply, disk, done, failed, ring, head, count, job, wpc>>
      /\ UNCHANGED <<pos, caps, cur, fpc, chunk, sendq, hand, spc, tx>>
  BY DEF SenderSend, forwardVars
<1>2. cmd = NoCmd /\ reply = "none"
  BY <1>1 DEF KvInv, CommandInv
<1>3. SoloInv' /\ EndInv' /\ CutInv' /\ Newest' = Newest /\ Held' = Held
  BY <1>1, SenderFrame DEF Held
<1>4. /\ Held = Newest /\ Newest.tag \in Tags /\ Newest \in Captures /\ Len(caps) \in DOMAIN caps
      /\ spc # "block" => sendq = <<>> /\ Newest.end = "finishing"
  BY <1>1, HeldIsNewest
<1>5. spc \in {"block", "tail", "manifest", "done"} /\ (spc = "block" => hand.index \in 0 .. NBlocks - 1)
  BY <1>1, HandType DEF KvInv, TypeOK, ConnectorType
<1>6. /\ spc = "block" => cmd'.op \in {"OBLK", "BLK"} /\ cmd'.file = <<Held.tag, hand.index>>
      /\ spc = "tail" => cmd'.op = "FILE" /\ cmd'.file = <<Held.tag, TailFile>>
      /\ spc = "manifest" => cmd'.op = "FILE" /\ cmd'.file = <<Held.tag, ManifestFile>>
      /\ spc = "done" => cmd'.op = "DONE" /\ cmd'.tag = Held.tag /\ cmd'.status = Status(Held)
      /\ cmd' # NoCmd
  BY <1>1, <1>5 DEF Command, Payload, NoCmd
<1>7. TailFile = NBlocks /\ ManifestFile = NBlocks + 1 /\ NBlocks \in Nat /\ TailFile # ManifestFile
  BY ReceiverAssumption DEF TailFile, ManifestFile
<1>8. Pipe' = Pipe /\ (\A f : Safe(f)' <=> Safe(f)) /\ \A t : Manifest(t)' = Manifest(t)
  <2>1. Pipe' = Pipe
    BY <1>1, PipeSame
  <2> QED BY <1>1, <2>1 DEF Safe, Manifest
<1>9. /\ \A t : TailOut(t)' <=> (spc = "tail" /\ t = Held.tag)
      /\ \A t : ManifestOut(t)' <=> (spc = "manifest" /\ t = Held.tag)
      /\ \A t : DoneOut(t)' <=> (spc = "done" /\ t = Held.tag)
      /\ BlockOut' <=> spc = "block"
      /\ \A t : ~TailOut(t) /\ ~ManifestOut(t) /\ ~DoneOut(t)
  BY <1>2, <1>5, <1>6, <1>7 DEF TailOut, ManifestOut, DoneOut, BlockOut, Manifest
<1>10. \A t : Closed(t)' <=> (Closed(t) \/ (spc = "manifest" /\ t = Held.tag))
  BY <1>1, <1>8, <1>9 DEF Closed
<1>11. ItemInv'
  BY <1>1, <1>3 DEF LandInv, ItemInv, Item
<1>12. LineInv'
  <2>1. /\ spc = "tail" => TailOut(Held.tag)'
        /\ spc = "manifest" => ManifestOut(Held.tag)'
        /\ spc = "done" => DoneOut(Held.tag)'
    BY <1>3, <1>6 DEF TailOut, ManifestOut, DoneOut, Manifest
  <2> QED BY <1>1, <1>3, <1>5, <1>6, <1>7, <1>9, <2>1 DEF LineInv
<1>13. CoverInv'
  <2>1. Sending' => Sending /\ tx' # "none"
    BY <1>1, <1>3 DEF LandInv, CoverInv, Sending
  <2>2. ASSUME Sending', NEW k \in 0 .. Newest.blocks - 1
        PROVE  Safe(<<Newest.tag, k>>)' \/ hand' = BlockItem(Len(caps), k) \/ \E m \in DOMAIN sendq' : sendq'[m] = BlockItem(Len(caps), k)
    <3>1. Safe(<<Newest.tag, k>>) \/ hand = BlockItem(Len(caps), k) \/ \E m \in DOMAIN sendq : sendq[m] = BlockItem(Len(caps), k)
      BY <1>1, <1>2, <2>1, <2>2 DEF LandInv, CoverInv
    <3>2. \A f : f = <<Newest.tag, k>> => (Safe(f)' <=> Safe(f))
      BY <1>8
    <3> QED BY <1>1, <1>3, <3>1, <3>2
  <2> QED BY <1>1, <1>2, <1>3, <2>1, <2>2 DEF CoverInv
<1>14. ClaimInv'
  <2> SUFFICES ASSUME NEW t \in Tags, NEW k \in 0 .. NBlocks - 1,
                      TailOut(t)' \/ (DoneOut(t)' /\ cmd'.status = "complete")
               PROVE  Safe(<<t, k>>)'
    BY DEF ClaimInv
  <2>1. t = Held.tag /\ spc \in {"tail", "done"}
    BY <1>9
  <2>2. ~Held.gap /\ ~Held.error
    <3>1. CASE spc = "tail"
      BY <1>1, <3>1 DEF Skips, SendsTail
    <3>2. CASE spc = "done"
      BY <1>6, <1>9, <3>2 DEF Status
    <3> QED BY <2>1, <3>1, <3>2
  <2>3. Safe(<<Held.tag, k>>)
    BY <1>1, <1>2, <2>1, <2>2, SentWhole
  <2> QED BY <1>8, <2>1, <2>3
<1>15. OrderInv'
  <2>1. OrderInv /\ StageInv
    BY DEF LandInv
  <2>2. \A t \in Tags : Closed(t)' => \E i \in DOMAIN caps' : caps'[i].tag = t /\ caps'[i].end # "open"
    BY <1>1, <1>4, <1>10, <2>1 DEF OrderInv, Newest
  <2>3. \A t \in Tags : /\ done'[t] # "none" \/ DoneOut(t)' => Manifest(t)' \in DOMAIN disk'
                        /\ DoneOut(t)' => done'[t] = "none"
    BY <1>1, <1>8, <1>9, <2>1 DEF OrderInv, StageInv
  <2>4. \A t \in Tags : TailOut(t)' => Manifest(t)' \notin DOMAIN disk'
    BY <1>1, <1>8, <1>9, <2>1 DEF StageInv, Closed
  <2>5. BlockOut' => Manifest(cmd.file[1])' \notin DOMAIN disk'
    <3> SUFFICES ASSUME BlockOut' PROVE Manifest(cmd.file[1])' \notin DOMAIN disk'
      OBVIOUS
    <3>1. spc = "block" /\ cmd'.file[1] = Held.tag
      BY <1>6, <1>9
    <3>2. Manifest(Held.tag) \notin DOMAIN disk
      BY <1>1, <2>1, <3>1 DEF StageInv, Closed
    <3> QED BY <1>1, <3>1, <3>2 DEF Manifest
  <2>6. \A f \in Pipe' : Manifest(f[1])' \notin DOMAIN disk' /\ f[2] < NBlocks
    BY <1>1, <1>8, <2>1 DEF OrderInv
  <2> QED BY <2>2, <2>3, <2>4, <2>5, <2>6 DEF OrderInv
<1>16. StageInv'
  <2>1. StageInv
    BY DEF LandInv
  <2>2. sendq' # <<>> => ~Closed(Newest.tag)'
    <3>1. \A t : t = Newest.tag => (Closed(t)' <=> (Closed(t) \/ (spc = "manifest" /\ t = Held.tag)))
      BY <1>10
    <3>2. Closed(Newest.tag)' <=> (Closed(Newest.tag) \/ spc = "manifest")
      BY <1>3, <1>4, <3>1
    <3> QED BY <1>1, <1>4, <2>1, <3>2 DEF StageInv
  <2>3. /\ Closed(Held.tag)' <=> (Closed(Held.tag) \/ spc = "manifest")
        /\ DoneOut(Held.tag)' <=> spc = "done"
    <3>1. \A t : t = Held.tag => /\ Closed(t)' <=> (Closed(t) \/ (spc = "manifest" /\ t = Held.tag))
                                 /\ DoneOut(t)' <=> (spc = "done" /\ t = Held.tag)
      BY <1>9, <1>10
    <3> QED BY <1>3, <3>1
  <2> QED BY <1>1, <1>2, <1>3, <2>1, <2>2, <2>3 DEF StageInv
<1>17. DoneIsWhole'
  BY <1>1 DEF LandInv, DoneIsWhole, Landing!Whole, Landing!Block
<1> QED BY <1>3, <1>11, <1>12, <1>13, <1>14, <1>15, <1>16, <1>17 DEF LandInv

\* Every step of the sender keeps the invariant.
LEMMA SenderLands ==
  ASSUME KvInv, LandInv, Sender PROVE LandInv'
BY GetLands, SkipLands, SendLands, OkLands, ErrorLands DEF Sender

-----------------------------------------------------------------------------
(* The theorems *)

\* At the start there is no capture and no file.
LEMMA LandStarts ==
  ASSUME Init PROVE LandInv
<1>1. /\ pos = [t \in Tags |-> 0] /\ caps = <<>> /\ cur = [t \in Tags |-> 0] /\ fpc = "idle"
      /\ sendq = <<>> /\ hand = NoItem /\ ~waiting /\ cmd = NoCmd /\ count = 0 /\ wpc = "wait"
      /\ DOMAIN disk = {} /\ done = [t \in Tags |-> "none"]
  BY DEF Init, ReceiverInit
<1>2. \A t \in Tags : ~Unfinished(t)
  <2>1. NBlocks \in Nat /\ \A t \in Tags : pos[t] = 0 /\ cur[t] = 0
    BY <1>1, ReceiverAssumption
  <2>2. 0 \notin 1 .. NBlocks - 1
    BY <2>1
  <2> QED BY <2>1, <2>2 DEF Unfinished, Running
<1>3. SoloInv /\ EndInv /\ CutInv /\ ItemInv
  BY <1>1, <1>2 DEF SoloInv, EndInv, CutInv, ItemInv
<1>4. Pipe = {}
  <2>1. 0 .. count - 1 = {}
    BY <1>1
  <2> QED BY <1>1, <2>1 DEF Pipe
<1>5. LineInv /\ CoverInv
  BY <1>1 DEF LineInv, CoverInv, BlockOut, Sending
<1>6. ClaimInv /\ OrderInv
  BY <1>1, <1>4 DEF ClaimInv, OrderInv, TailOut, DoneOut, ManifestOut, BlockOut, Closed
<1>7. StageInv /\ DoneIsWhole
  BY <1>1 DEF StageInv, DoneIsWhole
<1> QED BY <1>3, <1>5, <1>6, <1>7 DEF LandInv

\* A step that changes nothing keeps the invariant.
LEMMA LandStutters ==
  ASSUME KvInv, LandInv, UNCHANGED vars PROVE LandInv'
<1>1. /\ UNCHANGED <<pos, caps, cur, fpc, chunk, sendq, hand, spc, waiting, tx>>
      /\ UNCHANGED <<link, cmd, reply, disk, done, failed, ring, head, count, job, wpc>>
  BY DEF vars, receiverVars, connectorVars
<1>2. SoloInv' /\ EndInv' /\ CutInv'
  BY <1>1, SenderFrame
<1> QED BY <1>1, <1>2, ScheduleKeeps

\* The invariant holds of every run in which requests do not overlap.
LEMMA LandInvariant ==
  ASSUME ~Overlap PROVE Spec => [](KvInv /\ LandInv)
<1>1. Init => LandInv
  BY LandStarts
<1>2. KvInv /\ LandInv /\ [Next]_vars => LandInv'
  BY ForwardLands, SenderLands, ReceiverLands, LandStutters DEF Next
<1> QED BY <1>1, <1>2, KvInvariant, PTL DEF Spec

\* A block that lands is one the front may still see land, and a file that was there stays.
LEMMA BlockIsLanded ==
  ASSUME KvInv, LandInv, NEW f \in Files, f[2] < NBlocks, Manifest(f[1]) \notin DOMAIN disk,
         NEW b, disk' = Landed(f, b), UNCHANGED done
  PROVE  [Landing!Next]_<<DOMAIN disk, done>>
<1>1. DOMAIN disk' = DOMAIN disk \cup {f}
  BY DEF Landed
<1>2. f[1] \in Tags /\ f[2] \in 0 .. NBlocks - 1 /\ f = <<f[1], f[2]>>
  BY PipeType, ReceiverAssumption DEF Files
<1>3. CASE f \in DOMAIN disk
  BY <1>1, <1>3
<1>4. CASE f \notin DOMAIN disk
  <2>1. Landing!LandBlock(f[1], f[2])
    BY <1>1, <1>2, <1>4 DEF Landing!LandBlock, Landing!Land, Landing!Block, Landing!ManifestOf, Manifest, ManifestFile
  <2> QED BY <1>2, <2>1 DEF Landing!Next
<1> QED BY <1>3, <1>4

\* What is written behind the drain.
LEMMA DrainIsLanded ==
  ASSUME KvInv, LandInv, RecvDrain
  PROVE  [Landing!Next]_<<DOMAIN disk, done>>
<1>1. cmd # NoCmd /\ cmd.op \in {"FILE", "DONE"}
  BY DEF RecvDrain, KvInv, CommandInv
<1>2. CASE UNCHANGED <<disk, done>>
  BY <1>2
<1>3. ASSUME ~failed PROVE \A f : Safe(f) => f \in DOMAIN disk
  BY <1>3, PipeDrained DEF RecvDrain, Safe
<1>4. CASE ~failed /\ cmd.op = "FILE" /\ disk' = Landed(cmd.file, arena) /\ UNCHANGED done
  <2>1. DOMAIN disk' = DOMAIN disk \cup {cmd.file}
    BY <1>4 DEF Landed
  <2>2. PICK t \in Tags : cmd.file = <<t, cmd.file[2]>>
    BY <1>1, <1>4, PipeType
  <2>3. cmd.file[2] \in {TailFile, ManifestFile}
    BY <1>1, <1>4 DEF LandInv, LineInv
  <2>4. CASE cmd.file \in DOMAIN disk
    BY <1>4, <2>1, <2>4
  <2>5. CASE cmd.file \notin DOMAIN disk /\ cmd.file[2] = TailFile
    <3>1. TailOut(t)
      BY <1>1, <1>4, <2>2, <2>5 DEF TailOut
    <3>2. Manifest(t) \notin DOMAIN disk
      BY <3>1 DEF LandInv, OrderInv
    <3>3. \A k \in 0 .. NBlocks - 1 : <<t, k>> \in DOMAIN disk
      BY <1>3, <1>4, <3>1 DEF LandInv, ClaimInv
    <3>4. Landing!LandTail(t)
      BY <1>4, <2>1, <2>2, <2>5, <3>2, <3>3
      DEF Landing!LandTail, Landing!Whole, Landing!Land, Landing!Block, Landing!TailOf, Landing!ManifestOf, Manifest, ManifestFile, TailFile
    <3> QED BY <3>4 DEF Landing!Next
  <2>6. CASE cmd.file \notin DOMAIN disk /\ cmd.file[2] = ManifestFile
    <3>1. done[t] = "none"
      BY <2>2, <2>6 DEF LandInv, OrderInv, Manifest
    <3>2. Landing!LandManifest(t)
      BY <1>4, <2>1, <2>2, <2>6, <3>1 DEF Landing!LandManifest, Landing!Land, Landing!ManifestOf, ManifestFile
    <3> QED BY <3>2 DEF Landing!Next
  <2> QED BY <2>3, <2>4, <2>5, <2>6
<1>5. CASE ~failed /\ cmd.op = "DONE" /\ done' = [done EXCEPT ![cmd.tag] = cmd.status] /\ UNCHANGED disk
  <2>1. cmd.tag \in Tags /\ DoneOut(cmd.tag) /\ cmd.status \in {"complete", "gaps"}
    <3>1. cmd \in Commands
      BY <1>1 DEF KvInv, TypeOK, ReceiverType
    <3> QED BY <1>1, <1>5, <3>1 DEF Commands, DoneOut
  <2>2. done[cmd.tag] = "none" /\ Manifest(cmd.tag) \in DOMAIN disk
    BY <2>1 DEF LandInv, OrderInv
  <2>3. cmd.status = "complete" => \A k \in 0 .. NBlocks - 1 : <<cmd.tag, k>> \in DOMAIN disk
    BY <1>3, <1>5, <2>1 DEF LandInv, ClaimInv
  <2>4. Landing!Commit(cmd.tag, cmd.status)
    BY <1>5, <2>2, <2>3 DEF Landing!Commit, Landing!Whole, Landing!Block, Landing!ManifestOf, Manifest, ManifestFile
  <2> QED BY <2>1, <2>4 DEF Landing!Next
<1> QED BY <1>1, <1>2, <1>4, <1>5 DEF RecvDrain

\* Every step of connector and receiver is a step of CaptureLanding, or one it does not see.
LEMMA StepIsLanded ==
  ASSUME KvInv, LandInv, [Next]_vars
  PROVE  [Landing!Next]_<<DOMAIN disk, done>>
<1>1. CASE RecvWrite
  <2>1. /\ cmd # NoCmd /\ cmd.op = "BLK" /\ UNCHANGED done
        /\ disk' = Landed(cmd.file, arena) \/ UNCHANGED disk
    BY <1>1 DEF RecvWrite, KvInv, CommandInv
  <2>2. cmd.file \in Files /\ cmd.file[2] < NBlocks /\ Manifest(cmd.file[1]) \notin DOMAIN disk
    BY <2>1, PipeType DEF LandInv, LineInv, OrderInv, BlockOut
  <2> QED BY <2>1, <2>2, BlockIsLanded
<1>2. CASE WriterWrite
  <2>1. UNCHANGED done /\ (disk' = Landed(job.file, buf[job.b]) \/ UNCHANGED disk)
    BY <1>2 DEF WriterWrite
  <2>2. job.file \in Files /\ job.file[2] < NBlocks /\ Manifest(job.file[1]) \notin DOMAIN disk
    BY <1>2, PipeWritten, PipeType DEF LandInv, OrderInv
  <2> QED BY <2>1, <2>2, BlockIsLanded
<1>3. CASE RecvDrain
  BY <1>3, DrainIsLanded
<1>4. CASE \/ RecvRead \/ RecvHangup \/ RecvTake \/ RecvCopy \/ RecvQueue \/ RecvClose
           \/ WriterTake \/ WriterReturn \/ LinkLost
  <2>1. UNCHANGED <<disk, done>>
    BY <1>4 DEF RecvRead, RecvHangup, RecvTake, RecvCopy, RecvQueue, RecvClose, WriterTake, TakeJob, WriterReturn, LinkLost
  <2> QED BY <2>1
<1>5. CASE Sender
  <2>1. UNCHANGED <<disk, done>>
    BY <1>5 DEF Sender, SenderGet, SenderSkip, SenderSend, SenderOk, SenderError, receiverVars
  <2> QED BY <2>1
<1>6. CASE Forward
  <2>1. UNCHANGED <<disk, done>>
    BY <1>6 DEF Forward, Step, Missing, Preempt, Abort, Connect, Open, OpenFile, Ingest, CutBlock, EndChunk, receiverVars
  <2> QED BY <2>1
<1>7. CASE UNCHANGED vars
  <2>1. UNCHANGED <<disk, done>>
    BY <1>7 DEF vars, receiverVars
  <2> QED BY <2>1
<1> QED BY <1>1, <1>2, <1>3, <1>4, <1>5, <1>6, <1>7 DEF Next, Receiver, Writer

\* Connector and receiver implement what the front door relies on: blocks and tail land before the
\* manifest, the manifest before DONE, nothing lands twice, and a DONE that says `complete` stands
\* behind every block, whatever fails and whenever (pd_front.py 608-613, pd_rdma.c 252-257), as
\* long as the engine has one tagged request in its prompt at a time.
THEOREM LandingCorrect ==
  ASSUME ~Overlap PROVE Spec => LandsInOrder
<1>1. Init => Landing!Init
  BY DEF Init, ReceiverInit, Landing!Init
<1>2. KvInv /\ LandInv /\ [Next]_vars => [Landing!Next]_<<DOMAIN disk, done>>
  BY StepIsLanded
<1> QED BY <1>1, <1>2, LandInvariant, PTL DEF Spec, LandsInOrder, Landing!Spec

\* Then DONE speaks the truth (docs/RDMA.md 67-69).
THEOREM DoneIsWholeCorrect ==
  ASSUME ~Overlap PROVE Spec => []DoneIsWhole
<1>1. LandInv => DoneIsWhole
  BY DEF LandInv
<1> QED BY <1>1, LandInvariant, PTL

=============================================================================
