------------------------------ MODULE RowBridge ------------------------------
(***************************************************************************)
(* A conversation over the pair, with its data: the engine with its prefix *)
(* cache, the hook (RowHook), and the decode box that pulls what the hook  *)
(* wrote (studio/pd_front.py with kv_return/pd_front.kvreturn.patch),      *)
(* joins it to the capture of the turn before (pd_kv_return.py) and stores *)
(* blocks.  Each turn comes through a one-shot front ("pooled") or through *)
(* a streaming one ("stream").  Other clients may use the engine between   *)
(* two turns; what happens when they use it during one is in PooledBridge. *)
(***************************************************************************)
EXTENDS RowHook

CONSTANTS
  Turns,        \* the prompts of the fronts, in order
  Others,       \* prompts that other clients post
  MaxOthers,    \* how many of them (bound)
  Steps,        \* sizes of a prefill chunk (--max-num-batched-tokens)
  EngineBlock,  \* block of the engine's prefix cache
  MaxFaults     \* bound on failures, of any kind

ASSUME RowBridgeAssumption ==
  /\ Turns \in Seq(Prompts)
  /\ Others \subseteq Prompts
  /\ MaxOthers \in Nat /\ MaxFaults \in Nat /\ EngineBlock \in Nat \ {0} /\ Steps \subseteq Nat \ {0}

VARIABLES
  run,     \* the prompt in the engine, the chunk it is at and the next layer of it, or None
  cached,  \* prompts the engine's prefix cache may hold
  front,   \* the bridging thread of the decode box
  stored,  \* the prompt bridged last and the blocks stored for it
  kept,    \* _kvr_last: the capture kept as the parent of the next turn, or None
  turn, others, faults

bridgeVars == <<run, cached, front, stored, kept, turn, others, faults>>
rowVars == <<hookVars, bridgeVars>>

Failing == faults < MaxFaults /\ faults' = faults + 1

-----------------------------------------------------------------------------
(* The engine: one prompt at a time, from a prefix hit S on, chunk by chunk *)

Shared(p, c) == Cardinality({i \in DOMAIN p \cap DOMAIN c : p[i] = c[i]})

\* an aligned prefix of something computed before and perhaps evicted in part, or all but the last token
Hits(p) ==
  {0} \cup UNION {{S \in 0 .. Len(p) - 1 : S <= Shared(p, c) /\ (S % EngineBlock = 0 \/ S = Len(p) - 1)} : c \in cached}

ChunkEnd(p, pos, step) == IF pos + step < Len(p) THEN pos + step ELSE Len(p)

Post(p) ==
  \E S \in Hits(p), step \in Steps :
    run' = [ids |-> p, pos |-> S, end |-> ChunkEnd(p, S, step), li |-> 0, step |-> step]

\* the engine answers when the last layer of the last chunk is through
Answered == run.li = NL - 1 /\ run.end = Len(run.ids)
Advanced ==
  CASE Answered -> None
    [] ~Answered /\ run.li = NL - 1 ->
         [run EXCEPT !.pos = run.end, !.end = ChunkEnd(run.ids, run.end, run.step), !.li = 0]
    [] OTHER -> [run EXCEPT !.li = @ + 1]

\* one layer of one chunk goes through the engine and the hook's worker; memory may be low, and a segment
\* may fail to be written
Work ==
  /\ run # None
  /\ \E low \in BOOLEAN, cannot \in Boundaries(0, run.end) \cup {run.end + 1} :
       /\ IF ~low /\ cannot > run.end THEN UNCHANGED faults ELSE Failing
       /\ low => req # None /\ (req.calls + 1) % GuardEvery = 0
       /\ cannot <= run.end => req # None /\ req.stream /\ ~low /\ cannot > req.emitted
       /\ Ingest(run.li, Slice(run.ids, run.pos, run.end), run.pos, run.ids, low, cannot - 1)
  /\ run' = Advanced
  /\ cached' = IF Answered THEN cached \cup {run.ids} ELSE cached
  /\ front' = IF Answered /\ front.eng = "running" THEN [front EXCEPT !.eng = "answered"] ELSE front
  /\ UNCHANGED <<stored, kept, turn, others>>

\* the engine fails the prompt: what it computed stays, the rest never comes
EngineFails ==
  /\ \/ front.eng = "queued" /\ UNCHANGED run
     \/ front.eng = "running" /\ run.li = 0 /\ run' = None
  /\ front' = [front EXCEPT !.eng = "failed"] /\ Failing
  /\ UNCHANGED <<hookVars, cached, stored, kept, turn, others>>

\* the prompt of the front has its turn
EngineTakes ==
  /\ run = None /\ front.eng = "queued"
  /\ Post(front.ids) /\ front' = [front EXCEPT !.eng = "running"]
  /\ UNCHANGED <<hookVars, cached, stored, kept, turn, others, faults>>

\* the watcher closes the request: FLUSH_NOW or the idle backstop, which may also fire between two chunks
Watch ==
  /\ Flush
  /\ IF run = None THEN UNCHANGED faults ELSE run.li = 0 /\ Failing
  /\ UNCHANGED <<run, cached, front, stored, kept, turn, others>>

OtherClient ==
  /\ front.phase = "idle" /\ run = None /\ others < MaxOthers
  /\ \E p \in Others : Post(p)
  /\ others' = others + 1
  /\ UNCHANGED <<hookVars, cached, front, stored, kept, turn, faults>>

MarkerAges ==
  /\ marker = "fresh" /\ Failing /\ marker' = "old"
  /\ UNCHANGED <<req, disk, copies, run, cached, front, stored, kept, turn, others>>

-----------------------------------------------------------------------------
(* The KV return on the decode box *)

NoBlocks == [ids |-> <<>>, blocks |-> Empty]
Idle == [phase |-> "idle", ids |-> <<>>, before |-> 0, eng |-> "none", stamp |-> 0, next |-> Block, man |-> None]

\* push_state: the pair gets the parent's state back if it has lost it
Present(stamp) == disk[stamp].state = "done" \/ \E s \in copies : s.stamp = stamp
PushState ==
  copies' = IF kept # None /\ ~Present(kept.stamp) THEN copies \cup {kept.kvstate} ELSE copies

\* _cap_usable_prefix, with usable_prefix for a resumed capture: only with the parent that was kept
Usable(man) ==
  IF man.partial # 0 /\ man.resume # 0
    THEN IF kept # None /\ man.parent = kept.stamp /\ kept.T >= man.resume /\ ~man.gaps THEN man.T ELSE 0
  ELSE IF man.partial # 0 \/ man.gaps THEN 0 ELSE man.T

\* merge_prefix: every layer file joined to the parent's
Merged(files, S) ==
  [li \in DOMAIN files |->
    [kv |-> MergeKv(kept.files[li].kv, files[li].kv, S),
     pools |-> [k \in DOMAIN files[li].pools |->
                 MergePool(Kind[li], kept.files[li].pools[k], files[li].pools[k], S)]]]

\* the layer files as they are pulled, and merged if the capture was resumed
FilesFor(dir) == IF dir.man.resume = 0 THEN dir.files ELSE Merged(dir.files, dir.man.resume)

\* remember: the pulled directory, merged, becomes the parent of the next turn (of is not in the code)
Remembered(stamp, ids, files, kvstate) ==
  [stamp |-> stamp, T |-> Len(ids), of |-> ids, files |-> files, kvstate |-> kvstate]

-----------------------------------------------------------------------------
(* Assembling blocks *)

\* _set_layer finds what it needs for boundary b
HasLayer(file, li, b) ==
  /\ b \in DOMAIN file.kv.win
  /\ \A k \in PoolsOf(li) : /\ k \in DOMAIN file.pools
                            /\ ~file.pools[k].tailKey /\ file.pools[k].pooled # <<>>
                            /\ Kind[li] = "c4" => b \in DOMAIN file.pools[k].prev

\* the decoder's state at b, as _set_layer makes it from a layer file
LayerAt(file, li, b) ==
  [win |-> file.kv.win[b],
   pools |-> [k \in PoolsOf(li) |->
     [rows |-> Slice(file.pools[k].pooled, 0, b \div Ratio(Kind[li])),
      prev |-> IF Kind[li] = "c4" THEN file.pools[k].prev[b] ELSE <<>>]]]

\* assemble_and_write: boundaries in order, up to the first that lacks a key
Assembled(files, T, ids) ==
  LET bounds == {b \in Boundaries(0, T) : b <= Len(ids)}
      good == {b \in bounds : \A c \in bounds : c <= b => \A li \in Layers : HasLayer(files[li], li, c)}
  IN  [b \in good |-> [li \in Layers |-> LayerAt(files[li], li, b)]]

LastBlock(blocks) == IF DOMAIN blocks = {} THEN 0 ELSE Max(DOMAIN blocks)
Whole(n) == (n \div Block) * Block

\* store_boundary: in order, up to one that cannot be stored
UpTo(blocks, last) == [b \in {b \in DOMAIN blocks : b <= last} |-> blocks[b]]

\* finalize waits for the block files, and raises if one does not come; it may come later
Stores(blocks) ==
  \E last \in {0} \cup DOMAIN blocks, committed \in BOOLEAN :
    /\ IF last = LastBlock(blocks) /\ committed THEN UNCHANGED faults ELSE Failing
    /\ stored' = [ids |-> front.ids, blocks |-> UpTo(blocks, last)]
    /\ LET dir == disk[front.stamp]
           complete == committed /\ Usable(dir.man) = Len(front.ids) /\ last = Whole(Len(front.ids))
           declines == 2 * last < Len(front.ids) \/ last = 0
       IN  kept' = IF complete /\ ~declines /\ ~dir.man.streamed
                     THEN Remembered(front.stamp, front.ids, FilesFor(dir), dir.kvstate) ELSE kept

\* _pull_and_assemble of a finished capture; the parent is replaced when the turn is complete
PullAndAssemble ==
  LET dir == disk[front.stamp]
      man == dir.man
      mergeable == man.resume # 0 => kept # None /\ man.parent = kept.stamp
  IN  /\ front.phase = "pull"
      /\ front' = Idle
      /\ IF dir.state # "done" \/ ~mergeable \/ DOMAIN dir.files # Layers
           THEN UNCHANGED <<stored, kept, faults>>   \* raises: the turn is declined
           ELSE Stores(Assembled(FilesFor(dir), man.T, front.ids))
      /\ UNCHANGED <<hookVars, run, cached, turn, others>>

-----------------------------------------------------------------------------
(* One turn through the one-shot front: spark_prefill_pooled *)

Began(phase) == [Idle EXCEPT !.phase = phase, !.ids = Turns[turn + 1], !.before = Len(disk), !.eng = "queued"]

\* a turn begins when no other client's prompt is in the engine; the turn before may still be
Alone == run # None => turn > 0 /\ run.ids = Turns[turn]

Asks(phase) ==
  /\ front.phase = "idle" /\ turn < Len(Turns) /\ Alone
  /\ turn' = turn + 1 /\ front' = Began(phase) /\ stored' = [NoBlocks EXCEPT !.ids = Turns[turn + 1]]
  /\ UNCHANGED <<req, disk, run, cached, kept, others, faults>>

AskPooled == Asks("scan") /\ PushState /\ UNCHANGED marker

New == {i \in DOMAIN disk : i > front.before}
DoneNow == {i \in New : disk[i].state = "done"}
CompleteNow == {i \in DoneNow : disk[i].man.T = Len(front.ids) /\ Usable(disk[i].man) = Len(front.ids)}

To(phase, stamp) == front' = [front EXCEPT !.phase = phase, !.stamp = stamp]
GivesUp == front' = Idle

\* a complete capture is taken at once; when the engine has returned and the grace is over, the longest one
\* that is usable and covers half of the prompt
Scan ==
  /\ front.phase = "scan"
  /\ \/ CompleteNow # {} /\ To("pull", Min(CompleteNow))
     \/ CompleteNow = {} /\ front.eng = "failed" /\ GivesUp
     \/ /\ CompleteNow = {} /\ front.eng = "answered"
        /\ LET up(i) == Usable(disk[i].man)
               best == {i \in DoneNow : up(i) > 0 /\ \A j \in DoneNow : up(j) <= up(i) /\ (up(j) = up(i) => j <= i)}
           IN  IF \E i \in best : 2 * up(i) >= Len(front.ids) THEN To("pull", Min(best)) ELSE GivesUp
  /\ UNCHANGED <<hookVars, run, cached, stored, kept, turn, others, faults>>

-----------------------------------------------------------------------------
(* One turn through the streaming front: spark_prefill_stream *)

\* /_stream_next goes before the prompt; if it fails the hook decides alone
AskStream ==
  /\ Asks("pick") /\ UNCHANGED copies
  /\ marker' = "fresh"

Names(i) == disk[i].state # "gone"

\* the newest directory that was not there before; its manifest says whether it streams, and one that is
\* finished always says so
Pick ==
  /\ front.phase = "pick"
  /\ LET there == {i \in New : Names(i)}
         i == Max(there)
     IN  \/ front.eng = "failed" /\ GivesUp
         \/ /\ front.eng # "failed" /\ there # {}
            /\ To(IF disk[i].asked \/ disk[i].state = "done" THEN "segments" ELSE "seal", i)
         \/ there = {} /\ front.eng = "answered" /\ GivesUp
  /\ UNCHANGED <<hookVars, run, cached, stored, kept, turn, others, faults>>

\* what the assembler makes of segment b and the block before it
Grown(b, seg) ==
  [li \in Layers |->
    [win |-> seg[li].win,
     pools |-> [k \in PoolsOf(li) |->
       [rows |-> (IF b = Block THEN <<>> ELSE stored.blocks[b - Block][li].pools[k].rows) \o seg[li].pools[k].rows,
        prev |-> seg[li].pools[k].prev]]]]

\* the next segment in order is pulled and its block stored
Segs == disk[front.stamp].segs
PullSegment ==
  /\ front.phase = "segments" /\ front.next <= Len(front.ids) /\ front.next \in DOMAIN Segs
  /\ stored' = [stored EXCEPT !.blocks = Updated(@, [b \in {front.next} |-> Grown(b, Segs[b])])]
  /\ front' = [front EXCEPT !.next = @ + Block]
  /\ UNCHANGED <<hookVars, run, cached, kept, turn, others, faults>>

SeeDone ==
  /\ front.phase = "segments" /\ front.man = None /\ disk[front.stamp].state = "done"
  /\ front' = [front EXCEPT !.man = disk[front.stamp].man]
  /\ UNCHANGED <<hookVars, run, cached, stored, kept, turn, others, faults>>

\* segments the manifest lists and the front has not had
Pending == {b \in Boundaries(0, front.man.emitted) : b >= front.next /\ b <= Len(front.ids)}

\* defect: waits for a listed segment although it has gone
StreamIsOverAll == front.man # None /\ Pending = {}

\* all the manifest lists is here, or the next of it has gone from the share
StreamIsOver == front.man # None /\ \A b \in Pending : b = Min(Pending) => b \notin DOMAIN Segs

StreamEnds ==
  /\ front.phase = "segments"
  /\ \/ StreamIsOver
     \/ front.eng = "failed"
     \/ front.man = None /\ front.eng = "answered"
  /\ GivesUp
  /\ UNCHANGED <<hookVars, run, cached, stored, kept, turn, others, faults>>

\* _wait_done_then_pull: not a streaming capture, so one shot at this stamp
WaitDone ==
  /\ front.phase = "seal"
  /\ LET dir == disk[front.stamp]
         done == dir.state = "done"
     IN  \/ done /\ IF 2 * Usable(dir.man) < Len(front.ids) THEN GivesUp ELSE To("pull", front.stamp)
         \/ ~done /\ front.eng \in {"failed", "answered"} /\ GivesUp
  /\ UNCHANGED <<hookVars, run, cached, stored, kept, turn, others, faults>>

-----------------------------------------------------------------------------
RowInit ==
  /\ HookInit /\ run = None /\ cached = {} /\ front = Idle /\ stored = NoBlocks /\ kept = None
  /\ turn = 0 /\ others = 0 /\ faults = 0

FrontDoor == AskPooled \/ AskStream \/ Scan \/ Pick \/ PullSegment \/ SeeDone \/ StreamEnds \/ WaitDone \/ PullAndAssemble
Pair == Work \/ EngineTakes \/ EngineFails \/ Watch \/ OtherClient \/ MarkerAges
RowNext == FrontDoor \/ Pair

\* the engine and the worker go on as long as there is a prompt (weak fairness of Work and EngineTakes, with
\* the state in which they are enabled written out), and so do the polls of the front; clients, failures and
\* the watcher are free
Answers == Scan \/ Pick \/ PullSegment \/ SeeDone \/ StreamEnds \/ WaitDone \/ PullAndAssemble
PairGoesOn == []<>(run = None /\ front.eng # "queued") \/ []<><<TRUE>>_run
RowFairness == PairGoesOn /\ WF_front(Answers)

RowSpec == RowInit /\ [][RowNext]_rowVars /\ RowFairness

-----------------------------------------------------------------------------
(* Properties *)

Captures == {i \in DOMAIN disk : disk[i].state = "done"}

RowTypeOK ==
  /\ marker \in {"none", "fresh", "old"}
  /\ \A i \in DOMAIN disk : disk[i].state \in {"open", "done", "gone"} /\ \A b \in DOMAIN disk[i].segs : b > 0 /\ b % Block = 0
  /\ req # None => disk[req.id].state = "open" /\ req.partial >= req.resume
  /\ run # None => run.pos < run.end /\ run.end <= Len(run.ids) /\ run.li \in Layers
  /\ \A s \in copies : s.stamp \in DOMAIN disk
  /\ kept # None => kept.stamp \in DOMAIN disk /\ kept.T = Len(kept.of)
  /\ faults \in 0 .. MaxFaults /\ others \in 0 .. MaxOthers /\ turn \in 0 .. Len(Turns)

\* the decoder's own state at block b of prompt p
TrueBlock(p, b) ==
  [li \in Layers |->
    [win |-> TrueWindow(p, b),
     pools |-> [k \in PoolsOf(li) |-> [rows |-> TruePooled(Kind[li], p, b \div Ratio(Kind[li])),
                                       prev |-> TruePrev(Kind[li], p, b)]]]]

\* a block stored under a prompt is what the decoder itself would hold there: no row of another
\* prompt, of another place, missing or twice, whichever way the capture came
BlocksAreTrue == \A b \in DOMAIN stored.blocks : stored.blocks[b] = TrueBlock(stored.ids, b)

\* the layer file of a capture of p[..T] made in one go
TrueFile(p, T, li) ==
  LET r == Ratio(Kind[li])
      rem == T % r
      bs == Boundaries(0, T)
  IN  [kv |-> [win |-> [b \in bs |-> TrueWindow(p, b)], end |-> TrueWindow(p, T)],
       pools |-> [k \in PoolsOf(li) |->
         [pooled |-> TruePooled(Kind[li], p, T \div r), tailKey |-> FALSE,
          prev |-> [b \in IF Kind[li] = "c4" THEN bs ELSE {} |-> TruePrev(Kind[li], p, b)],
          buf |-> Slice(p, T - rem, T),
          end |-> IF Kind[li] = "c4" /\ T >= R4 + rem THEN TruePrev(Kind[li], p, T - rem) ELSE <<>>]]]

\* the capture kept as a parent, merged over as many turns as it may be, is the one-shot capture of its
\* prompt, in every layer whose rows reach its end
KeptIsWhole ==
  kept # None => \A li \in Layers :
    LET T == kept.kvstate.T
    IN  DOMAIN kept.kvstate.rows[li] = {"kv"} \cup PoolsOf(li) => kept.files[li] = TrueFile(kept.of, T, li)

\* what a streamed request has shipped and what it still holds are together the rows it was fed: none is
\* dropped when a segment goes, none goes twice, and no segment misses a layer
SegmentsAreTrue(d) ==
  \A b \in DOMAIN d.segs : d.segs[b] = [li \in Layers |->
    [win |-> TrueWindow(d.of, b),
     pools |-> [k \in PoolsOf(li) |->
       [rows |-> Slice(TruePooled(Kind[li], d.of, b \div Ratio(Kind[li])), (b - Block) \div Ratio(Kind[li]), b \div Ratio(Kind[li])),
        prev |-> TruePrev(Kind[li], d.of, b)]]]]
NothingIsLost ==
  /\ \A i \in DOMAIN disk : SegmentsAreTrue(disk[i])
  /\ req # None /\ req.stream /\ req.partial = 0 => \A li \in DOMAIN req.layers : \A k \in PoolsOf(li) :
       LET st == req.layers[li].pools[k]
           all == TruePooled(Kind[li], req.of, st.next \div Ratio(Kind[li]))
       IN  st.shipped = req.emitted \div Ratio(Kind[li]) /\ st.pooled = Slice(all, st.shipped, Len(all))

\* every turn is answered: the polls of both fronts end, whatever became of the capture
TurnIsAnswered == (front.phase # "idle") ~> (front.phase = "idle")
=============================================================================
