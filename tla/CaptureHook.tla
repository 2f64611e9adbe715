----------------------------- MODULE CaptureHook -----------------------------
(***************************************************************************)
(* The capture hook that vLLM's rank-0 worker loads on the prefill box     *)
(* (spark/capture_sitecustomize_v3.py, which pd-launch-v3.sh installs, and *)
(* capture_sitecustomize_v3.kvreturn.py with PD_STREAM = 0 and             *)
(* PD_KV_RETURN = 0, its default).  Both have the same code for all of     *)
(* this, except that only the second prunes, guards the memory and aborts. *)
(* Rows, segments and resumed requests are in RowHook.                     *)
(*                                                                         *)
(* Three threads share one _Capture object:                                *)
(*   - the forward thread calls record() once per layer and chunk;         *)
(*   - the worker drains the queue, feeds the open request's accumulators  *)
(*     and publishes captures (layer files, manifest.json, DONE last);     *)
(*   - the watcher polls the FLUSH_NOW file and queues a flush sentinel.   *)
(* The lock makes one ingest, one flush and one flush decision atomic; the *)
(* queue.get(), the stat before the lock and the unlink and put after it   *)
(* are steps of their own, as in the code.                                 *)
(*                                                                         *)
(* Abstractions: prompts are whole chunks and positions count chunks.  A   *)
(* chunk is fed in one ingest per layer and ends on a block boundary, so   *)
(* the blocks in it (8192 tokens hold four PD_CAPTURE_BLOCKs) share their  *)
(* fate and are called one block here.  Tensors are named by the request   *)
(* and block they hold; time is a counter that advances when a file is     *)
(* touched or a request is opened.                                         *)
(***************************************************************************)
EXTENDS Naturals, Sequences, FiniteSets

CONSTANTS
  NL,          \* decoder layers the hook sees
  Kind,        \* Kind[li]: "swa" (ratio 0), "c128" (main pool), "c4" (main + indexer pool)
  Requests,    \* identities of the prompts the engine may run
  MinT,        \* PD_CAPTURE_MIN_T: shorter captures are discarded
  GuardEvery,  \* PD_CAPTURE_GUARD_EVERY: ingests between two free-memory checks
  MemPressure, \* whether such a check may find memory below the floor
  MinSeal,     \* PD_CAPTURE_MIN_ABORT_GB, in blocks: what a capture must hold to be sealed
  Keep,        \* PD_CAPTURE_KEEP: capture directories kept on disk
  IdleOn,      \* PD_CAPTURE_IDLE_S > 0: the idle backstop is armed
  MaxFaults    \* bound on the exceptions the worker swallows

Layers == 0 .. NL - 1
Kinds == {"swa", "c128", "c4"}

ASSUME HookAssumption ==
  /\ NL \in Nat \ {0}
  /\ Kind \in [Layers -> Kinds]
  /\ Requests \subseteq Nat \ {0}
  /\ MinT \in Nat /\ GuardEvery \in Nat /\ MinSeal \in Nat
  /\ Keep \in Nat \ {0} /\ MaxFaults \in Nat
  /\ MemPressure \in BOOLEAN /\ IdleOn \in BOOLEAN

VARIABLES
  rec,      \* compute-stream events recorded (last_ev is number rec)
  ran,      \* events the GPU has completed, in stream order
  q,        \* _Capture.q
  hand,     \* what the worker took from q and has not finished with
  caps,     \* capture directories in stamp order; caps[req] is the open _Req
  req,      \* _Capture.req: index of the open request, 0 for None
  clock,    \* time.time()
  signal,   \* mtime of FLUSH_NOW, 0 when the file does not exist
  quiet,    \* PD_CAPTURE_IDLE_S have passed since the last ingest
  faults,   \* exceptions injected so far
  wpc,      \* watcher: "stat", "decide", "unlink", "put"
  seen,     \* watcher: the mtime its stat returned
  fire      \* watcher: the reason of the flush it has decided on, "none" for no flush

hookVars == <<rec, ran, q, hand, caps, req, clock, signal, quiet, faults, wpc, seen, fire>>

-----------------------------------------------------------------------------
(* Data *)

Reasons == {"none", "new-request", "flush_now", "idle", "mem-floor-seal"}

Item == [kind : {"item"}, rq : Requests, at : Nat, li : Layers, ev : Nat]

Sentinel == [kind : {"flush"}, reason : {"flush_now", "idle"}]

Nothing == [kind |-> "nothing"]

Row == [rq : Requests, at : Nat]

(* One capture directory together with the _Req that fills it.             *)
(* fed[li]: the blocks _KVState.feed took, in order.  main, idx: the number *)
(* of blocks the two _PoolState carries have processed.                    *)
Capture ==
  [state : {"open", "done", "lost", "gone"}, part : Nat, fed : [Layers -> Seq(Row)],
   main : [Layers -> Nat], idx : [Layers -> Nat], calls : Nat, first_t : Nat,
   own : Requests, T : Nat, reason : Reasons]

\* _Req.__init__, partial_start included: the request as its first item opens it
NewCapture(item, now) ==
  [state |-> "open", part |-> item.at, fed |-> [li \in Layers |-> <<>>],
   main |-> [li \in Layers |-> 0], idx |-> [li \in Layers |-> 0], calls |-> 0,
   first_t |-> now, own |-> item.rq, T |-> 0, reason |-> "none"]

\* _KVState.next_pos
NextPos(c, li) == IF c.fed[li] = <<>> THEN 0 ELSE c.fed[li][Len(c.fed[li])].at + 1

\* layers with an entry in _Req.kv, which are the layers that get a file
LayersFed(c) == {li \in Layers : c.fed[li] # <<>>}

\* defect: a restart at an earlier position is not recorded as a gap
HasForwardGap(c) ==
  \E li \in Layers : \E i \in 1 .. Len(c.fed[li]) :
    c.fed[li][i].at > IF i = 1 THEN 0 ELSE c.fed[li][i - 1].at + 1

\* _KVState.gaps: some feed did not start where the one before it ended
HasGap(c) ==
  \E li \in Layers : \E i \in 1 .. Len(c.fed[li]) :
    c.fed[li][i].at # IF i = 1 THEN 0 ELSE c.fed[li][i - 1].at + 1

MaxPos(c) ==
  CHOOSE t \in {NextPos(c, li) : li \in Layers} : \A li \in Layers : NextPos(c, li) <= t

\* nl and aligned of _flush_decision
Aligned(c) ==
  \/ LayersFed(c) = {}
  \/ \E top \in LayersFed(c) : /\ \A li \in LayersFed(c) : li <= top
                               /\ c.calls % (top + 1) = 0

\* _finish up to DONE: short captures are discarded, T is the furthest layer's
Finished(c, why) ==
  IF MaxPos(c) < MinT
  THEN [c EXCEPT !.state = "gone"]
  ELSE [c EXCEPT !.state = "done", !.T = MaxPos(c), !.reason = why]

\* _finish raising on a write: req is already None and DONE is never written
Lost(c) == [c EXCEPT !.state = "lost"]

\* _prune_captures: only the newest Keep directories stay
Prune(cs) ==
  [i \in DOMAIN cs |->
     IF Cardinality({j \in DOMAIN cs : j >= i /\ cs[j].state # "gone"}) > Keep
     THEN [cs[i] EXCEPT !.state = "gone"]
     ELSE cs[i]]

-----------------------------------------------------------------------------
(* Forward thread and GPU *)

\* record(): one event on the compute stream and one queue entry per layer
Record(rq, at, li) ==
  /\ rec' = rec + 1
  /\ q' = Append(q, [kind |-> "item", rq |-> rq, at |-> at, li |-> li, ev |-> rec + 1])
  /\ UNCHANGED <<ran, hand, caps, req, clock, signal, quiet, faults, wpc, seen, fire>>

GpuStep ==
  /\ ran < rec
  /\ ran' = ran + 1
  /\ UNCHANGED <<rec, q, hand, caps, req, clock, signal, quiet, faults, wpc, seen, fire>>

-----------------------------------------------------------------------------
(* Worker *)

WorkerGet ==
  /\ hand = Nothing
  /\ q # <<>>
  /\ hand' = Head(q)
  /\ q' = Tail(q)
  /\ UNCHANGED <<rec, ran, caps, req, clock, signal, quiet, faults, wpc, seen, fire>>

\* An item is in hand and _resolve_chunk has let it through: the first item of
\* a chunk waits on the host for its event.
Resolved ==
  /\ hand.kind = "item"
  /\ hand.li = 0 => hand.ev <= ran

\* ingest(): this layer-0 item belongs to another request than the open one
IsNewRequest(c, item) ==
  /\ item.li = 0
  /\ c.calls > 0
  /\ \/ item.at = 0
     \/ c.fed[0] # <<>> /\ item.at # NextPos(c, 0)

\* _PoolState.feed: pool_layer asserts that the carry has processed exactly the
\* rows before the chunk, so a pool that once failed refuses every later chunk.
TakesMain(c, item, fault) ==
  Kind[item.li] # "swa" /\ c.main[item.li] = item.at /\ fault # "main"

TakesIdx(c, item, fault) ==
  Kind[item.li] = "c4" /\ TakesMain(c, item, fault) /\ c.idx[item.li] = item.at /\ fault # "idx"

\* every feed of the item returned; otherwise ingest raised before calls += 1
Ingested(c, item, fault) ==
  CASE Kind[item.li] = "swa" -> TRUE
    [] Kind[item.li] = "c128" -> TakesMain(c, item, fault)
    [] Kind[item.li] = "c4" -> TakesIdx(c, item, fault)

Feed(c, item, fault) ==
  [c EXCEPT
     !.fed[item.li] = Append(@, [rq |-> item.rq, at |-> item.at]),
     !.main[item.li] = IF TakesMain(c, item, fault) THEN @ + 1 ELSE @,
     !.idx[item.li] = IF TakesIdx(c, item, fault) THEN @ + 1 ELSE @,
     !.calls = IF Ingested(c, item, fault) THEN @ + 1 ELSE @]

\* the survival guard's turn to look at free memory, with enough held to seal
GuardDue(c) ==
  MemPressure /\ GuardEvery > 0 /\ c.calls % GuardEvery = 0 /\ MaxPos(c) >= MinSeal

Closes == req # 0 /\ IsNewRequest(caps[req], hand)
Opens == req = 0 \/ Closes

\* the captures once the item's request is open, the ones it closed or pruned included
Ready ==
  LET closed == IF Closes THEN [caps EXCEPT ![req] = Finished(@, "new-request")] ELSE caps
  IN  IF Opens THEN Prune(Append(closed, NewCapture(hand, clock + 1))) ELSE closed

\* ingest() of one item.  fault is the exception this item meets, if any; after
\* a successful ingest the memory guard may seal the capture, or fail to: then
\* _abort finds req already None, and the half-written directory stays.
WorkerIngest ==
  /\ Resolved
  /\ LET s == IF Opens THEN Len(Ready) ELSE req
     IN  \E fault \in {"none", "main", "idx"}, guard \in {"pass", "seal", "fail"} :
           LET c == Feed(Ready[s], hand, fault)
               ok == Ingested(Ready[s], hand, fault)
               raised == fault # "none" \/ guard = "fail"
           IN  /\ fault # "none" => ~ok /\ Ingested(Ready[s], hand, "none")
               /\ guard # "pass" => ok /\ GuardDue(c)
               /\ raised => faults < MaxFaults
               /\ caps' = [Ready EXCEPT ![s] = CASE guard = "pass" -> c
                                                 [] guard = "seal" -> Finished(c, "mem-floor-seal")
                                                 [] guard = "fail" -> Lost(c)]
               /\ req' = IF guard = "pass" THEN s ELSE 0
               /\ quiet' = IF ok \/ Opens THEN FALSE ELSE quiet
               /\ faults' = IF raised THEN faults + 1 ELSE faults
  /\ clock' = IF Opens THEN clock + 1 ELSE clock
  /\ hand' = Nothing
  /\ UNCHANGED <<rec, ran, q, signal, wpc, seen, fire>>

\* the projection raises: the item is gone and nothing else has changed
WorkerDrop ==
  /\ Resolved
  /\ faults < MaxFaults
  /\ faults' = faults + 1
  /\ hand' = Nothing
  /\ UNCHANGED <<rec, ran, q, caps, req, clock, signal, quiet, wpc, seen, fire>>

\* _finish("new-request") raises: the closing capture and the item are both gone
WorkerCloseFails ==
  /\ Resolved
  /\ Closes
  /\ faults < MaxFaults
  /\ faults' = faults + 1
  /\ caps' = [caps EXCEPT ![req] = Lost(@)]
  /\ req' = 0
  /\ hand' = Nothing
  /\ UNCHANGED <<rec, ran, q, clock, signal, quiet, wpc, seen, fire>>

\* the disk is below its floor: _abort drops the request the item has just opened
WorkerDiskFloor ==
  /\ Resolved
  /\ Opens
  /\ faults < MaxFaults
  /\ faults' = faults + 1
  /\ caps' = [Ready EXCEPT ![Len(Ready)].state = "gone"]
  /\ req' = 0
  /\ clock' = clock + 1
  /\ quiet' = FALSE
  /\ hand' = Nothing
  /\ UNCHANGED <<rec, ran, q, signal, wpc, seen, fire>>

\* a sentinel closes whatever request is open when the worker gets to it
WorkerFlush ==
  /\ hand.kind = "flush"
  /\ hand' = Nothing
  /\ req' = 0
  /\ \/ /\ caps' = IF req = 0 THEN caps ELSE [caps EXCEPT ![req] = Finished(@, hand.reason)]
        /\ UNCHANGED faults
     \/ /\ req # 0 /\ faults < MaxFaults
        /\ caps' = [caps EXCEPT ![req] = Lost(@)]
        /\ faults' = faults + 1
  /\ UNCHANGED <<rec, ran, q, clock, signal, quiet, wpc, seen, fire>>

Worker == WorkerGet \/ WorkerIngest \/ WorkerFlush
WorkerFault == WorkerDrop \/ WorkerCloseFails \/ WorkerDiskFloor

-----------------------------------------------------------------------------
(* Watcher *)

\* os.stat(FLUSH_NOW), before the lock
WatchStat ==
  /\ wpc = "stat"
  /\ seen' = signal
  /\ wpc' = "decide"
  /\ UNCHANGED <<rec, ran, q, hand, caps, req, clock, signal, quiet, faults, fire>>

\* _flush_decision's three conditions, read under the lock
Settled(c) == q = <<>> /\ ran = rec /\ Aligned(c)

\* defect: any FLUSH_NOW found on disk is a demand
DemandedByAny(c) == seen # 0

Demanded(c) == seen # 0 /\ seen >= c.first_t
Stale(c) == seen # 0 /\ ~Demanded(c)

\* defect: the idle backstop only looks at requests that were signalled
IdleFiresIfSignalled(c) == IdleOn /\ quiet /\ Settled(c) /\ seen # 0

IdleFires(c) == IdleOn /\ quiet /\ Settled(c)

Verdict(c) ==
  IF Demanded(c) /\ Settled(c) THEN "flush_now"
  ELSE IF IdleFires(c) THEN "idle" ELSE "none"

AfterDecision(c) ==
  IF Stale(c) \/ Verdict(c) = "flush_now" THEN "unlink"
  ELSE IF Verdict(c) = "idle" THEN "put" ELSE "stat"

WatchDecide ==
  /\ wpc = "decide"
  /\ IF req = 0
     THEN wpc' = "stat" /\ UNCHANGED fire
     ELSE wpc' = AfterDecision(caps[req]) /\ fire' = Verdict(caps[req])
  /\ UNCHANGED <<rec, ran, q, hand, caps, req, clock, signal, quiet, faults, seen>>

\* the unlink goes by path, after the lock: it removes whatever file is there now
WatchUnlink ==
  /\ wpc = "unlink"
  /\ signal' = 0
  /\ wpc' = IF fire = "none" THEN "stat" ELSE "put"
  /\ UNCHANGED <<rec, ran, q, hand, caps, req, clock, quiet, faults, seen, fire>>

WatchPut ==
  /\ wpc = "put"
  /\ q' = Append(q, [kind |-> "flush", reason |-> fire])
  /\ wpc' = "stat" /\ fire' = "none"
  /\ UNCHANGED <<rec, ran, hand, caps, req, clock, signal, quiet, faults, seen>>

Watcher == WatchStat \/ WatchDecide \/ WatchUnlink \/ WatchPut

-----------------------------------------------------------------------------
(* Time and the front's signal *)

\* PD_CAPTURE_IDLE_S pass without an ingest
IdleElapses ==
  /\ req # 0 /\ ~quiet
  /\ quiet' = TRUE
  /\ UNCHANGED <<rec, ran, q, hand, caps, req, clock, signal, faults, wpc, seen, fire>>

\* defect: the share stamps the file with a clock that runs ahead of the hook's
TouchSkewed ==
  /\ signal' = clock + 2
  /\ clock' = clock + 1

\* the share's /_flush route: FLUSH_NOW is (re)written with the current time
TouchFlushNow ==
  /\ signal' = clock + 1
  /\ clock' = clock + 1

HookInit ==
  /\ rec = 0 /\ ran = 0
  /\ q = <<>> /\ hand = Nothing
  /\ caps = <<>> /\ req = 0
  /\ clock = 0 /\ signal = 0
  /\ quiet = FALSE /\ faults = 0
  /\ wpc = "stat" /\ seen = 0 /\ fire = "none"

HookTypeOK ==
  /\ rec \in Nat /\ ran \in 0 .. rec
  /\ q \in Seq(Item \cup Sentinel)
  /\ hand \in Item \cup Sentinel \cup {Nothing}
  /\ caps \in Seq(Capture) /\ req \in 0 .. Len(caps)
  /\ clock \in Nat /\ signal \in 0 .. clock
  /\ quiet \in BOOLEAN /\ faults \in 0 .. MaxFaults
  /\ wpc \in {"stat", "decide", "unlink", "put"} /\ seen \in 0 .. clock
  /\ fire \in {"none", "flush_now", "idle"}

-----------------------------------------------------------------------------
(* What a published capture promises *)

\* manifest.json and DONE were written; the directory may have been pruned since
Published(c) == c.reason # "none"

\* defect: the front takes the manifest's T at its word
UsablePrefixIsT(c) == c.T

\* pd_front._cap_usable_prefix, applied to the manifest of c
UsablePrefix(c) == IF c.part # 0 \/ HasGap(c) THEN 0 ELSE c.T

\* defect: a missing kvwin_b goes unnoticed
HasPooledKeys(c, li, b) ==
  /\ Kind[li] # "swa" => c.main[li] > 0
  /\ Kind[li] = "c4" => c.idx[li] > 0

\* boundary b of layer li has every key _set_layer reads: kvwin_b, prev_*_b and
\* idx_prev_*_b, and the pooled tensors exist (their length is not looked at)
HasKeys(c, li, b) ==
  /\ \E i \in 1 .. Len(c.fed[li]) : c.fed[li][i].at = b - 1
  /\ Kind[li] # "swa" => c.main[li] > 0
  /\ Kind[li] = "c4" => c.idx[li] > 0 /\ b <= c.main[li]
=============================================================================
