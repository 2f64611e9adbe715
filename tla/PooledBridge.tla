---------------------------- MODULE PooledBridge ----------------------------
(***************************************************************************)
(* One pooled bridge end to end: the front door on the decode box          *)
(* (studio/pd_front.py, spark_prefill_pooled and _pull_and_assemble, with  *)
(* pd_assemble_blocks.assemble_and_write), the prefill engine, and the     *)
(* capture hook of module CaptureHook.                                     *)
(*                                                                         *)
(* The engine runs one prompt at a time, in the order they were posted     *)
(* (--max-num-seqs 1, no prefix caching), and goes on with a prompt whose  *)
(* client has given up; the front bridges one request at a time (LOCK).    *)
(* The front never talks to the hook: it lists the capture directory,      *)
(* reads the manifests of published captures, and touches FLUSH_NOW when   *)
(* its engine call returns.                                                *)
(***************************************************************************)
EXTENDS CaptureHook, FiniteSetsExt

CONSTANTS
  MaxReq,         \* prompts the engine is given, one after another
  MaxChunks,      \* longest prompt, in blocks
  Direct,         \* other clients may send prompts to the engine directly
  Deadline,       \* the front's engine call may fail, or stamp_deadline expire before it ends
  MidRequestIdle, \* the idle window may elapse while a prefill is running
  PromptHook      \* the hook keeps up: no layer runs between a flush decision and
                  \* its sentinel, and 45 s of grace outlast the worker's backlog
                  \* and the watcher's ticks

ASSUME BridgeAssumption ==
  /\ MaxReq \in Nat /\ MaxChunks \in Nat \ {0}
  /\ Requests = 1 .. MaxReq
  /\ Direct \in BOOLEAN /\ Deadline \in BOOLEAN
  /\ MidRequestIdle \in BOOLEAN /\ PromptHook \in BOOLEAN

VARIABLES
  nreq,    \* prompts posted to the engine so far: 1 .. nreq, in order
  len,     \* len[r]: blocks of prompt r, 0 before it is posted
  served,  \* prompts whose engine call has returned: 1 .. served
  at, lay, \* forward thread: next block and next layer of prompt served + 1
  fr,      \* prompt the front is bridging, 0 for none
  ph,      \* front: "prefill", "grace" (after the engine call) or "pull"
  before,  \* directories the front saw before it posted fr
  chosen,  \* capture the front pulls
  stored   \* what assemble_and_write put into the decoder's prefix cache

engineVars == <<nreq, len, served, at, lay>>
frontVars == <<fr, ph, before, chosen, stored>>
vars == <<hookVars, engineVars, frontVars>>

-----------------------------------------------------------------------------
(* Engine (vLLM, external) *)

EngineFree == served = nreq

\* no decision has been taken that is not yet in the queue
WatcherDone == wpc \in {"stat", "decide"}

\* the worker has consumed every item, and no tick would act on the signal
CaughtUp ==
  /\ q = <<>> /\ hand = Nothing /\ WatcherDone
  /\ signal # 0 /\ req # 0 => signal >= caps[req].first_t /\ ~Settled(caps[req])

\* a prompt of n blocks is posted: it runs when those before it have been served
Submit(n) ==
  /\ nreq < MaxReq
  /\ nreq' = nreq + 1
  /\ len' = [len EXCEPT ![nreq + 1] = n]
  /\ UNCHANGED <<served, at, lay>>
  /\ UNCHANGED hookVars

DirectSubmit ==
  /\ Direct
  /\ \E n \in 1 .. MaxChunks : Submit(n)
  /\ UNCHANGED frontVars

\* attention of one layer of one chunk
EngineForward ==
  /\ ~EngineFree
  /\ at < len[served + 1]
  /\ PromptHook => WatcherDone
  /\ Record(served + 1, at, lay)
  /\ IF lay = NL - 1 THEN at' = at + 1 /\ lay' = 0
                     ELSE lay' = lay + 1 /\ UNCHANGED at
  /\ UNCHANGED <<nreq, len, served>>
  /\ UNCHANGED frontVars

\* the one token asked for is sampled: everything before it has run
EngineReturn ==
  /\ ~EngineFree
  /\ at = len[served + 1]
  /\ ran = rec
  /\ served' = served + 1
  /\ at' = 0
  /\ UNCHANGED <<nreq, len, lay>>
  /\ UNCHANGED hookVars
  /\ UNCHANGED frontVars

-----------------------------------------------------------------------------
(* Front door *)

\* list the capture directory, then post the prompt
FrontSubmit ==
  /\ fr = 0
  /\ \E n \in 1 .. MaxChunks : Submit(n)
  /\ fr' = nreq + 1
  /\ ph' = "prefill"
  /\ before' = Len(caps)
  /\ UNCHANGED <<chosen, stored>>

\* defect: the directories listed before the prompt was posted are scanned too
ScannedAll == {s \in DOMAIN caps : Published(caps[s])}

\* captures the scans found: new directories that held a DONE, remembered if
\* they are pruned later
Scanned == {s \in DOMAIN caps : s > before /\ Published(caps[s])}

\* manifest T and usable prefix both equal the request's T
Complete == {s \in Scanned : caps[s].T = len[fr] /\ UsablePrefix(caps[s]) = len[fr]}

\* defect: once the engine call has returned, no scan looks for a complete capture
FrontChooseEarly ==
  /\ fr # 0 /\ ph = "prefill"
  /\ Complete # {}
  /\ chosen' = Min(Complete)
  /\ ph' = "pull"
  /\ UNCHANGED hookVars
  /\ UNCHANGED engineVars
  /\ UNCHANGED <<fr, before, stored>>

FrontChoose ==
  /\ fr # 0 /\ ph \in {"prefill", "grace"}
  /\ Complete # {}
  /\ chosen' = Min(Complete)
  /\ ph' = "pull"
  /\ UNCHANGED hookVars
  /\ UNCHANGED engineVars
  /\ UNCHANGED <<fr, before, stored>>

\* defect: the front signals without waiting for its engine call
EngineOverAssumed == TRUE

\* the engine call has returned, as the front's thread sees it
EngineOver == fr <= served

\* no complete capture yet: signal the hook, or fail to reach the share
FrontSignal ==
  /\ fr # 0 /\ ph = "prefill"
  /\ EngineOver
  /\ Complete = {}
  /\ ph' = "grace"
  /\ \/ TouchFlushNow
     \/ UNCHANGED <<signal, clock>>
  /\ UNCHANGED <<rec, ran, q, hand, caps, req, quiet, faults, wpc, seen, fire>>
  /\ UNCHANGED engineVars
  /\ UNCHANGED <<fr, before, chosen, stored>>

\* the longest usable candidate, the newest of equals
Best == CHOOSE s \in Scanned : \A o \in Scanned :
          \/ UsablePrefix(caps[o]) < UsablePrefix(caps[s])
          \/ UsablePrefix(caps[o]) = UsablePrefix(caps[s]) /\ o <= s

\* PD_CAPTURE_GRACE is over: salvage at least half of the prompt, or decline
FrontGraceOut ==
  /\ fr # 0 /\ ph = "grace"
  /\ Complete = {}
  /\ PromptHook => CaughtUp
  /\ IF Scanned # {} /\ UsablePrefix(caps[Best]) > 0 /\ 2 * UsablePrefix(caps[Best]) >= len[fr]
     THEN chosen' = Best /\ ph' = "pull" /\ UNCHANGED fr
     ELSE fr' = 0 /\ UNCHANGED <<chosen, ph>>
  /\ UNCHANGED hookVars
  /\ UNCHANGED engineVars
  /\ UNCHANGED <<before, stored>>

\* no complete capture, and the engine call raises (a socket error or its timeout;
\* the engine itself goes on) or stamp_deadline(T) is over before it returns
FrontGivesUp ==
  /\ Deadline
  /\ fr # 0 /\ ph = "prefill"
  /\ ~EngineOver
  /\ Complete = {}
  /\ fr' = 0
  /\ UNCHANGED hookVars
  /\ UNCHANGED engineVars
  /\ UNCHANGED <<ph, before, chosen, stored>>

\* assemble_and_write: 0 when a layer file is missing, else the longest run of
\* boundaries whose keys are all there
Assembled(c, n) ==
  Max({b \in 0 .. n : \A li \in Layers :
         c.fed[li] # <<>> /\ \A k \in 1 .. b : HasKeys(c, li, k)} \cup {0})

\* _pull_and_assemble: the blocks found good are stored under the prompt's own
\* hashes, whatever the coverage verdict then says; a pruned directory is declined.
\* The engine thread is joined for 60 s only: the call may still be running.
FrontPull ==
  /\ fr # 0 /\ ph = "pull"
  /\ stored' = IF caps[chosen].state = "done"
               THEN stored \cup {[rq |-> fr, cap |-> chosen, B |-> Assembled(caps[chosen], Min({len[fr], caps[chosen].T}))]}
               ELSE stored
  /\ fr' = 0
  /\ UNCHANGED hookVars
  /\ UNCHANGED engineVars
  /\ UNCHANGED <<ph, before, chosen>>

-----------------------------------------------------------------------------

Hook(A) == A /\ UNCHANGED engineVars /\ UNCHANGED frontVars

IdleMayElapse == IdleElapses /\ (MidRequestIdle \/ EngineFree)

Init ==
  /\ HookInit
  /\ nreq = 0 /\ len = [r \in Requests |-> 0]
  /\ served = 0 /\ at = 0 /\ lay = 0
  /\ fr = 0 /\ ph = "prefill" /\ before = 0 /\ chosen = 0
  /\ stored = {}

Front == FrontSubmit \/ FrontChoose \/ FrontSignal \/ FrontGraceOut \/ FrontGivesUp \/ FrontPull
Engine == DirectSubmit \/ EngineForward \/ EngineReturn

Next ==
  \/ Hook(GpuStep) \/ Hook(Worker) \/ Hook(WorkerFault) \/ Hook(Watcher) \/ Hook(IdleMayElapse)
  \/ Engine
  \/ Front

Spec == Init /\ [][Next]_vars

\* Threads and timers make progress; prompts arrive or not as they please, and
\* no fault is ever due.
Fairness ==
  /\ WF_vars(Hook(GpuStep)) /\ WF_vars(Hook(Worker)) /\ WF_vars(Hook(Watcher))
  /\ WF_vars(Hook(IdleMayElapse))
  /\ WF_vars(EngineForward) /\ WF_vars(EngineReturn)
  /\ WF_vars(FrontChoose) /\ WF_vars(FrontSignal) /\ WF_vars(FrontGraceOut) /\ WF_vars(FrontPull)

FairSpec == Spec /\ Fairness

-----------------------------------------------------------------------------
(* Properties *)

\* Every variable of the hook, the engine and the front keeps its type.
TypeOK ==
  /\ HookTypeOK
  /\ nreq \in 0 .. MaxReq /\ len \in [Requests -> 0 .. MaxChunks]
  /\ served \in 0 .. nreq /\ at \in 0 .. MaxChunks /\ lay \in Layers
  /\ fr \in 0 .. nreq /\ ph \in {"prefill", "grace", "pull"}
  /\ before \in 0 .. Len(caps) /\ chosen \in 0 .. Len(caps)
  /\ stored \subseteq [rq : Requests, cap : 1 .. Len(caps), B : 0 .. MaxChunks]

\* A published capture whose manifest promises a usable prefix (no partial
\* start, no position gap) holds rows of one prompt only: captures that a lost
\* signal, a swallowed exception or an early flush left open never blend two.
UsableIsPure ==
  \A s \in DOMAIN caps : caps[s].state = "done" /\ UsablePrefix(caps[s]) > 0 =>
    \A li \in Layers : \A i \in DOMAIN caps[s].fed[li] : caps[s].fed[li][i].rq = caps[s].own

\* The blocks stored under a prompt's hashes were computed from that prompt:
\* block b of every layer is row b of the prompt itself.
StoredIsPure ==
  \A x \in stored : \A li \in Layers : \A b \in 1 .. x.B :
    caps[x.cap].fed[li][b] = [rq |-> x.rq, at |-> b - 1]

\* The stored blocks hold every pooled row below their boundary, of the
\* compressor and of the indexer.
StoredIsWhole ==
  \A x \in stored : \A li \in Layers :
    /\ Kind[li] # "swa" => caps[x.cap].main[li] >= x.B
    /\ Kind[li] = "c4" => caps[x.cap].idx[li] >= x.B

\* When the watcher flushes on demand, the engine call of the prompt being
\* captured has returned: a signal of an earlier prompt never cuts this one.
DemandMeansReturned ==
  [][fire' = "flush_now" /\ fire # "flush_now" => caps[req].own <= served]_vars

\* As long as nothing has failed, a usable capture closed on demand ends at the
\* end of its prompt in every layer: the items still queued, or in the worker's
\* hand, when the watcher decided were ingested before the sentinel.
FlushNowIsWhole ==
  \A s \in DOMAIN caps :
    caps[s].state = "done" /\ caps[s].reason = "flush_now" /\ UsablePrefix(caps[s]) > 0 /\ faults = 0
      => \A li \in Layers : NextPos(caps[s], li) = len[caps[s].own]

\* A capture the memory guard sealed holds what its manifest promises: every
\* layer up to T, and the pooled rows with it.
SealedPrefixIsWhole ==
  \A s \in DOMAIN caps :
    caps[s].state = "done" /\ caps[s].reason = "mem-floor-seal" /\ UsablePrefix(caps[s]) > 0
      => \A li \in Layers : NextPos(caps[s], li) = caps[s].T

\* The watcher never discards the signal of a front whose prompt is the one open.
SignalIsNotLost ==
  [][wpc = "unlink" /\ wpc' = "stat" /\ signal # 0
       => ~(req # 0 /\ ph = "grace" /\ fr = caps[req].own)]_vars

\* With the idle backstop armed, a request the hook has opened is closed, signal
\* or no signal.
OpenIsClosed == \A s \in 1 .. MaxReq : req = s ~> req # s

\* The front never waits for ever: every prompt it bridges is stored or declined.
FrontAnswers == \A r \in Requests : fr = r ~> fr # r
=============================================================================
