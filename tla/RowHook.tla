------------------------------- MODULE RowHook -------------------------------
(***************************************************************************)
(* The capture hook (spark/capture_sitecustomize_v3.kvreturn.py) with its  *)
(* data: what _Capture.ingest, _finish, the streaming code and the KV      *)
(* return do to the rows of a request and to the capture directories.      *)
(* Threads, signals and lost items are the subject of CaptureHook; here    *)
(* the worker keeps up with the forward pass and every call is one step.   *)
(*                                                                         *)
(* Stamps are positions in disk: they are given in the order in which      *)
(* requests open, and only one request is open at a time.                  *)
(***************************************************************************)
EXTENDS CaptureRows, FiniteSets, FiniteSetsExt

CONSTANTS
  None,
  MinT,          \* _MIN_T: shorter captures are discarded
  KeepCaptures,  \* _KEEP_CAPTURES: finished directories left by _prune_captures
  GuardEvery,    \* _GUARD_EVERY: ingests between two looks at the free memory
  Streaming      \* PD_STREAM: "0", "1" or "auto"

ASSUME RowHookAssumption == MinT \in Nat /\ KeepCaptures \in Nat \ {0} /\ GuardEvery \in Nat \ {0} /\ Streaming \in {"0", "1", "auto"}

VARIABLES
  req,     \* self.req, with its device state
  disk,    \* the capture directories, by stamp
  copies,  \* <root>/_kvreturn: states pushed by the decode box
  marker   \* <root>/STREAM_NEXT: "none", "fresh" or "old" (past its time to live)

hookVars == <<req, disk, copies, marker>>

-----------------------------------------------------------------------------
(* Opening a request *)

\* _stream_for_new_request; the marker is gone afterwards whatever it says
StreamsNext == CASE Streaming = "auto" -> marker = "fresh" [] OTHER -> Streaming = "1"

\* _kvr_candidates: the saved states that can be seen
Saved(d, cp) == {d[i].kvstate : i \in {i \in DOMAIN d : d[i].state = "done"}} \cup cp

\* _kvr_resume: the newest one whose rows end at S once at most Keep of them are cut
Covering(d, cp, S) == {s \in Saved(d, cp) : S \in s.T - Keep .. s.T}
Newest(states) == CHOOSE s \in states : \A t \in states : s.stamp >= t.stamp

\* each saved tail without its last cut rows; a kind with no row left is not seeded
Cut(rows, cut) == [k \in {k \in DOMAIN rows : Len(rows[k]) > cut} |-> Slice(rows[k], 0, Len(rows[k]) - cut)]

\* r continued at S from the newest state that covers it, if there is one
Resumed(r, S, d, cp) ==
  LET s == Newest(Covering(d, cp, S))
  IN  IF Covering(d, cp, S) = {} THEN r
      ELSE [r EXCEPT !.resume = S, !.parent = s.stamp, !.seeds = [li \in DOMAIN s.rows |-> Cut(s.rows[li], s.T - S)]]

\* _Req, with partial_start; of names the prompt (not in the code)
NewReq(id, of, start, d, cp) ==
  LET r == [id |-> id, of |-> of, stream |-> StreamsNext, partial |-> start, layers |-> Empty, calls |-> 0,
            resume |-> 0, parent |-> None, seeds |-> Empty, emitted |-> 0, error |-> FALSE]
  IN  IF start = 0 THEN r ELSE Resumed(r, start, d, cp)

NewDir(r) == [state |-> "open", of |-> r.of, asked |-> r.stream, segs |-> Empty, files |-> Empty, man |-> None,
              kvstate |-> None]

\* the newest n directories survive
KeepNewest(d, n) ==
  LET there == {i \in DOMAIN d : d[i].state # "gone"}
      doomed == {i \in there : Cardinality({j \in there : j > i}) >= n}
      gone(i) == [d[i] EXCEPT !.state = "gone", !.segs = Empty, !.files = Empty, !.man = None, !.kvstate = None]
  IN  [i \in DOMAIN d |-> IF i \in doomed THEN gone(i) ELSE d[i]]

\* defect: the directory just made is not among those that are kept
PrunedTooMany(d) == KeepNewest(d, KeepCaptures - 1)

\* _prune_captures: the directory just made is among those that are kept
Pruned(d) == KeepNewest(d, KeepCaptures)

-----------------------------------------------------------------------------
(* Feeding one layer of one chunk *)

\* the accumulators of layer li as ingest finds or makes them
KvOf(r, li, seed) ==
  CASE li \in DOMAIN r.layers -> r.layers[li].kv
    [] li \notin DOMAIN r.layers /\ "kv" \in DOMAIN seed -> SeedKv(seed["kv"], r.resume)
    [] OTHER -> NewKv

PoolOf(r, li, k, seed, start) ==
  LET made == li \in DOMAIN r.layers /\ k \in DOMAIN r.layers[li].pools
  IN  CASE made -> r.layers[li].pools[k]
        [] ~made /\ k \in DOMAIN seed -> SeedPool(Kind[li], seed[k], r.resume)
        [] ~made /\ k \notin DOMAIN seed /\ start # 0 /\ r.resume = 0 -> SeedPoolBlank(start)
        [] OTHER -> NewPool

\* kv, main, idx in this order; pool_layer refuses a pool that does not end where the chunk starts
\* and ingest ends there, its call not counted
Fed(r, li, x, start) ==
  LET seed == IF li \in DOMAIN r.seeds THEN r.seeds[li] ELSE Empty
      old == [k \in PoolsOf(li) |-> PoolOf(r, li, k, seed, start)]
      takes == {k \in PoolsOf(li) : PoolAccepts(old[k], start)}
      had == IF li \in DOMAIN r.layers THEN DOMAIN r.layers[li].pools ELSE {}
      made == IF "main" \in PoolsOf(li) \ takes THEN had \cup {"main"} ELSE PoolsOf(li)
      pool(k) == CASE k \in takes -> PoolFeed(Kind[li], old[k], x, start)
                   [] k \notin takes /\ (k = "main" \/ "main" \in takes) -> PoolRefuses(Kind[li], old[k], x, start)
                   [] OTHER -> old[k]
      layer == [kv |-> KvFeed(KvOf(r, li, seed), x, start), pools |-> [k \in made |-> pool(k)]]
  IN  [r EXCEPT !.layers = Updated(@, [i \in {li} |-> layer]), !.seeds = Without(@, li),
                !.calls = IF takes = PoolsOf(li) THEN @ + 1 ELSE @]

\* ingest got as far as "calls += 1"
Counted(r, fed) == fed.calls = r.calls + 1

Reach(r) == {r.layers[li].kv.next : li \in DOMAIN r.layers}

-----------------------------------------------------------------------------
(* Streaming *)

\* _emit_segment, first pass: every layer has what the boundary needs
Emittable(r, b) ==
  \A li \in DOMAIN r.layers :
    /\ b \in DOMAIN r.layers[li].kv.snaps
    /\ \A k \in DOMAIN r.layers[li].pools :
         /\ PooledRows(r.layers[li].pools[k]) >= b \div Ratio(Kind[li])
         /\ Kind[li] = "c4" => b \in DOMAIN r.layers[li].pools[k].prev

\* the rows of one pool that segment b holds, those of earlier segments taken
SegmentPool(st, kind, b) ==
  [rows |-> Slice(st.pooled, (b - Block) \div Ratio(kind) - st.shipped, b \div Ratio(kind) - st.shipped),
   prev |-> IF kind = "c4" THEN st.prev[b] ELSE <<>>]

Segment(r, b) ==
  [li \in DOMAIN r.layers |->
    [win |-> r.layers[li].kv.snaps[b],
     pools |-> [k \in DOMAIN r.layers[li].pools |-> SegmentPool(r.layers[li].pools[k], Kind[li], b)]]]

\* what stays on the device: the pools are taken before the file is written, the snapshots dropped after
Below(f, b) == [x \in {x \in DOMAIN f : x > b} |-> f[x]]
ReleasedLayer(li, layer, written, taken) ==
  [kv |-> [layer.kv EXCEPT !.snaps = Below(@, written)],
   pools |-> [k \in DOMAIN layer.pools |->
     [TakePooled(layer.pools[k], taken \div Ratio(Kind[li])).rest EXCEPT !.prev = Below(@, taken)]]]
Released(r, written, taken) ==
  [r EXCEPT !.emitted = written, !.layers = [li \in DOMAIN @ |-> ReleasedLayer(li, @[li], written, taken)]]

\* defect: does not wait for the last layer of a chunk, nor for a layer it has not seen
StreamsEarly(r) == r.stream /\ ~r.error /\ r.partial = 0

\* _stream_emit while the prompt runs: only when a whole chunk has landed
StreamsNow(r) == r.stream /\ ~r.error /\ r.partial = 0 /\ DOMAIN r.layers = Layers /\ r.calls % NL = 0

\* out of the boundaries due, those in good can be made and those in out are written; the next of good has
\* lost its pooled rows
Shipped(r, due, good, out) ==
  LET written == IF out = {} THEN r.emitted ELSE Max(out)
      taken == IF out = good THEN written ELSE Min(good \ out)
  IN  [req |-> [Released(r, written, taken) EXCEPT !.error = @ \/ out # due],
       segs |-> [b \in out |-> Segment(r, b)]]

\* _stream_emit up to E: one segment per boundary, in order, until one is refused or cannot be written
\* (writable bounds how far the disk goes along)
EmittedOf(r, due, good, writable) == Shipped(r, due, good, {b \in good : b <= writable})
EmittedUpTo(r, due, writable) ==
  EmittedOf(r, due, {b \in due : \A c \in due : c <= b => Emittable(r, c)}, writable)
Emitted(r, E, writable) == EmittedUpTo(r, Boundaries(r.emitted, E), writable)

-----------------------------------------------------------------------------
(* Closing a request: _finish *)

LayerFile(layer, li, T, tailKey) ==
  [kv |-> KvExport(layer.kv),
   pools |-> [k \in DOMAIN layer.pools |-> PoolExport(Kind[li], layer.pools[k], T, tailKey)]]

\* the raw tails of the states that end at T
EndRows(layer, T) ==
  [k \in (IF layer.kv.next = T THEN {"kv"} ELSE {}) \cup {k \in DOMAIN layer.pools : layer.pools[k].next = T} |->
     IF k = "kv" THEN layer.kv.tail ELSE layer.pools[k].tail]

\* _kvr_save: the end state, from which a later request may go on
EndState(r, T) == [stamp |-> r.id, T |-> T, rows |-> [li \in DOMAIN r.layers |-> EndRows(r.layers[li], T)]]

Manifest(r, T, streamed) ==
  [T |-> T, partial |-> r.partial, resume |-> r.resume, parent |-> r.parent, streamed |-> streamed,
   emitted |-> r.emitted, gaps |-> \E li \in DOMAIN r.layers : r.layers[li].kv.gaps, error |-> r.error]

\* the directory of e once its layer files, manifest and DONE are written
Published(dir, e, segs, T, streamed) ==
  [dir EXCEPT !.state = "done", !.segs = Updated(@, segs),
              !.files = [li \in DOMAIN e.layers |-> LayerFile(e.layers[li], li, T, streamed)],
              !.man = Manifest(e, T, streamed), !.kvstate = EndState(e, T)]

\* d with the open request r closed: removed if it is too short, else written after its last segments
Finished(r, d) ==
  LET T == Max(Reach(r))
      streamed == r.stream /\ r.partial = 0
      Closed(last) == [d EXCEPT ![r.id] = Published(@, last.req, last.segs, T, streamed)]
  IN  CASE T < MinT -> [d EXCEPT ![r.id].state = "gone", ![r.id].segs = Empty]
        [] T >= MinT /\ streamed /\ ~r.error -> Closed(Emitted(r, Min(Reach(r)), T))
        [] OTHER -> Closed([req |-> r, segs |-> Empty])

-----------------------------------------------------------------------------
(* The worker *)

\* ingest closes the open request: position 0, or not where layer 0 stands
Closes(li, start) ==
  /\ req # None /\ li = 0 /\ req.calls > 0
  /\ \/ start = 0
     \/ 0 \in DOMAIN req.layers /\ start # req.layers[0].kv.next

Opens(li, start) == req = None \/ Closes(li, start)

\* the rows a request holds once it goes on at start with those of another prompt (not in the code)
Onto(rows, of, start) == Slice(rows, 0, start) \o Slice(of, start, Len(of))

\* the request that takes the item, and the directories, once the one before is closed
Enters(r, d) == [req |-> r, disk |-> Pruned(Append(d, NewDir(r)))]
EntersIn(d, of, start) == Enters(NewReq(Len(d) + 1, of, start, d, copies), d)
WithOpen(li, of, start) ==
  CASE req = None -> EntersIn(disk, of, start)
    [] Closes(li, start) -> EntersIn(Finished(req, disk), of, start)
    [] ~Opens(li, start) -> [req |-> [req EXCEPT !.of = Onto(@, of, start)],
                             disk |-> [disk EXCEPT ![req.id].of = Onto(@, of, start)]]

\* the segments of a request that has been fed, if it streams
Streamed(r, counted, writable) ==
  IF counted /\ StreamsNow(r) THEN Emitted(r, Min(Reach(r)), writable) ELSE [req |-> r, segs |-> Empty]

\* an error of the stream seals the request, and so does little memory, looked at every GuardEvery calls
Seals(r, low) == r.error \/ (low /\ r.calls % GuardEvery = 0)
Leaves(r, d, seals) ==
  /\ req' = IF seals THEN None ELSE r
  /\ disk' = IF seals THEN Finished(r, d) ELSE d
Ships(out, d, counted, low) ==
  Leaves(out.req, [d EXCEPT ![out.req.id].segs = Updated(@, out.segs)], counted /\ Seals(out.req, low))

\* ingest, to its end or to a seal: low says that there is little memory left; writable is how far segments
\* can be written
Ingest(li, x, start, of, low, writable) ==
  /\ \E at \in {WithOpen(li, of, start)} : \E fed \in {Fed(at.req, li, x, start)} :
       LET counted == Counted(at.req, fed) IN Ships(Streamed(fed, counted, writable), at.disk, counted, low)
  /\ marker' = IF Opens(li, start) THEN "none" ELSE marker
  /\ UNCHANGED copies

\* the watcher's flush, once the worker has drained whole chunks
Settled == req # None /\ req.layers # Empty /\ req.calls % (Max(DOMAIN req.layers) + 1) = 0
Flush ==
  /\ Settled
  /\ disk' = Finished(req, disk) /\ req' = None
  /\ UNCHANGED <<copies, marker>>

HookInit == req = None /\ disk = <<>> /\ copies = {} /\ marker = "none"

=============================================================================
