---------------------------- MODULE DeliveryProofs ----------------------------
(* What the front stores, and what a flush on demand publishes, while no     *)
(* exception is swallowed.                                                   *)
(*                                                                           *)
(* Three theorems:                                                           *)
(*   StoredWholeCorrect  what is stored has its pooled rows;                 *)
(*   FlushWholeCorrect   a capture closed on demand ends with its prompt;    *)
(*   StoredPureCorrect   what is stored is the prompt's own.                 *)
(* The second needs the order in which items reach the worker (Stream, of    *)
(* PooledBridgeProofs, and Coming, the next of them), what the open capture  *)
(* holds of the items before that (HeadlessInv, HeadedInv), and why a signal *)
(* that still counts is that of a front waiting for the open capture         *)
(* (AliveInv).                                                               *)
(* The third needs those, and which prompts may still begin (FirstInv).      *)
EXTENDS PooledBridgeProofs

-----------------------------------------------------------------------------
(* The items that are still to come *)

\* the first item of a prompt
Start(x) == x.at = 0 /\ x.li = 0

\* item y belongs to a later prompt than r, or to r behind its first item
Later(r, y) == r < y.rq \/ (r = y.rq /\ ~Start(y))

\* item y is the one the engine runs right after item x, prompt r being of l[r] blocks
Follows(l, x, y) ==
  \/ y.rq = x.rq /\ y.at = x.at /\ y.li = x.li + 1
  \/ y.rq = x.rq /\ y.at = x.at + 1 /\ y.li = 0 /\ x.li = NL - 1
  \/ y.rq = x.rq + 1 /\ Start(y) /\ x.li = NL - 1 /\ x.at + 1 = l[x.rq]

NoItem(S, lo, hi) == \A i \in lo .. hi : ~IsItem(S[i])

\* in S[0 .. n] items come in the order in which the engine runs them
InSequence(l, S, n) ==
  \A k \in 0 .. n : \A j \in 0 .. k - 1 : IsItem(S[j]) /\ IsItem(S[k]) =>
    Later(S[j].rq, S[k]) /\ (NoItem(S, j + 1, k - 1) => Follows(l, S[j], S[k]))

\* the items in S[0 .. n], and the first of them
ItemsOf(S, n) == {S[k] : k \in {i \in 0 .. n : IsItem(S[i])}}
FirstOf(S, n) == {S[k] : k \in {i \in 0 .. n : IsItem(S[i]) /\ NoItem(S, 0, i - 1)}}

Awaited == ItemsOf(Stream, Len(q) + 1)
Coming == FirstOf(Stream, Len(q) + 1)

OrderInv ==
  /\ InSequence(len, Stream, Len(q) + 1)
  /\ \A s \in DOMAIN caps : \A x \in Awaited : Later(caps[s].own, x)

-----------------------------------------------------------------------------
(* The open capture *)

\* a fragment of a first chunk that has missed the chunk's first layer
Headless(c) == c.part = 0 /\ c.fed[0] = <<>>

\* a capture that has its prompt from the first item on
Headed(c) == c.part = 0 /\ c.fed[0] # <<>> /\ c.fed[0][1].at = 0

\* so far it holds rows of the first chunk only
FirstRows(c) == \A li \in Layers : \A i \in 1 .. Len(c.fed[li]) : c.fed[li][i].at = 0

\* the next item is x: it has missed a layer more than ingests can make up for
HeadlessAt(c, x) ==
  /\ x.li > 0 => /\ x.at = 0 /\ c.calls < x.li /\ c.fed[x.li - 1] # <<>>
                 /\ \A li \in Layers : li >= x.li => c.fed[li] = <<>>
  /\ x.li = 0 => c.calls < NL /\ c.fed[NL - 1] # <<>>

HeadlessInv ==
  req # 0 /\ Headless(caps[req]) =>
    FirstRows(caps[req]) /\ \A x \in Coming : HeadlessAt(caps[req], x)

RowsInPlace(c) == \A li \in Layers : \A i \in 1 .. Len(c.fed[li]) : c.fed[li][i].at = i - 1

\* the layers hold what was run before item x
FedUpTo(c, x) == \A li \in Layers : Len(c.fed[li]) = IF li < x.li THEN x.at + 1 ELSE x.at

HeadedAt(l, c, x) ==
  /\ x.rq = c.own => FedUpTo(c, x)
  /\ x.rq # c.own => Start(x) /\ \A li \in Layers : Len(c.fed[li]) = l[c.own]

HeadedInv ==
  req # 0 /\ Headed(caps[req]) =>
    RowsInPlace(caps[req]) /\ \A x \in Coming : HeadedAt(len, caps[req], x)

OpenIsUnpublished == req # 0 => caps[req].reason = "none"

\* a flush is decided, queued, or in the worker's hand
Queued == q # <<>> /\ q[1].kind = "flush"
Pending == fire # "none" \/ Queued \/ hand.kind = "flush"

PendInv ==
  /\ fire # "none" => wpc \in {"unlink", "put"} /\ q = <<>>
  /\ \A i \in 2 .. Len(q) : q[i].kind = "item"
  /\ (fire # "none" \/ Queued) /\ hand.kind = "item" => req # 0
  /\ Pending /\ req # 0 => ~Headless(caps[req])

-----------------------------------------------------------------------------
(* What the front may take *)

Due(r) == fr = r /\ ph # "pull"

FirstInv ==
  /\ \A x \in Awaited : Start(x) /\ x.rq <= nreq => Due(x.rq)
  /\ \A r \in served + 2 .. nreq : Due(r)

TaintInv ==
  fr # 0 => \A s \in DOMAIN caps : s > before =>
    caps[s].own = fr \/ caps[s].part # 0 \/ caps[s].fed[0] = <<>> \/ caps[s].fed[0][1].at # 0

Begun(r) == \E s \in DOMAIN caps : caps[s].own = r

LeaveInv ==
  /\ fr # 0 /\ (\E s \in Scanned : UsablePrefix(caps[s]) > 0) => Begun(fr)
  /\ fr # 0 /\ ph = "grace" => fr <= served
  /\ fr # 0 /\ ph = "pull" => Begun(fr)

ChosenInv ==
  fr # 0 /\ ph = "pull" => caps[chosen].own = fr \/ caps[chosen].fed[0] = <<>>

\* the blocks stored are the prompt's own
RowsInv ==
  \A x \in stored : \A li \in Layers : \A b \in 1 .. x.B :
    /\ b <= Len(caps[x.cap].fed[li])
    /\ caps[x.cap].fed[li][b] = [rq |-> x.rq, at |-> b - 1]

-----------------------------------------------------------------------------
(* The demand *)

SeenInv == wpc = "decide" /\ seen # 0 => seen <= signal
RanInv == served = nreq => ran = rec

Alive == signal # 0 /\ req # 0 /\ signal >= caps[req].first_t
InGrace == fr # 0 /\ ph = "grace" /\ Complete = {} /\ fr <= served
Stuck == ~Aligned(caps[req]) /\ \A x \in Coming : Start(x)

AliveInv == Alive => InGrace \/ Stuck

EndInv ==
  /\ fire = "flush_now" => at = 0 /\ lay = 0
  /\ Queued /\ q[1].reason = "flush_now" => Start(Stream[2])
  /\ hand.kind = "flush" /\ hand.reason = "flush_now" => \A x \in Coming : Start(x)

-----------------------------------------------------------------------------
(* Captures *)

\* d is c, but for its directory's state, T and reason
Kept(d, c) ==
  /\ d.part = c.part /\ d.fed = c.fed /\ d.main = c.main /\ d.idx = c.idx
  /\ d.calls = c.calls /\ d.own = c.own /\ d.first_t = c.first_t

\* d is c, but for its directory's state
Frozen(d, c) == Kept(d, c) /\ d.T = c.T /\ d.reason = c.reason

\* Publishing leaves the rows alone; the manifest is written in one go or not at all.
LEMMA FinishedKept ==
  ASSUME NEW c \in BoundedCapture, NEW why \in Reasons
  PROVE  /\ Kept(Finished(c, why), c)
         /\ \/ Finished(c, why).reason = c.reason /\ Finished(c, why).T = c.T
            \/ Finished(c, why).reason = why /\ Finished(c, why).T = MaxPos(c)
<1>1. \/ Finished(c, why) = [c EXCEPT !.state = "gone"]
      \/ Finished(c, why) = [c EXCEPT !.state = "done", !.T = MaxPos(c), !.reason = why]
  BY DEF Finished
<1> DEFINE t == MaxPos(c)
<1>2. \/ Finished(c, why) = [c EXCEPT !.state = "gone"]
      \/ Finished(c, why) = [c EXCEPT !.state = "done", !.T = t, !.reason = why]
  BY <1>1
<1> HIDE DEF t
<1>3. \/ Finished(c, why).reason = c.reason /\ Finished(c, why).T = c.T
      \/ Finished(c, why).reason = why /\ Finished(c, why).T = t
  BY <1>2 DEF BoundedCapture
<1>4. Kept(Finished(c, why), c)
  BY <1>2 DEF BoundedCapture, Kept
<1> QED BY <1>3, <1>4 DEF t

\* Pruning removes a directory; its manifest stays known to those who read it.
LEMMA PruneFrozen ==
  ASSUME NEW cs \in Seq(BoundedCapture), NEW i \in 1 .. Len(cs)
  PROVE  Frozen(Prune(cs)[i], cs[i])
<1>1. Prune(cs)[i] = cs[i] \/ Prune(cs)[i] = [cs[i] EXCEPT !.state = "gone"]
  BY DEF Prune
<1>2. cs[i] \in BoundedCapture
  OBVIOUS
<1> QED BY <1>1, <1>2 DEF BoundedCapture, Frozen, Kept

\* What leaves rows alone, twice, leaves them alone.
LEMMA FrozenTrans ==
  ASSUME NEW a, NEW b, NEW c, Frozen(a, b)
  PROVE  /\ Frozen(b, c) => Frozen(a, c)
         /\ Kept(b, c) => Kept(a, c)
  BY DEF Frozen, Kept

\* What an item does to the capture that takes it.
LEMMA FeedFields ==
  ASSUME NEW c \in BoundedCapture, NEW item \in BoundedItem
  PROVE  LET d == Feed(c, item, "none")
             row == [rq |-> item.rq, at |-> item.at] IN
         /\ d.part = c.part /\ d.own = c.own /\ d.first_t = c.first_t /\ d.reason = c.reason /\ d.T = c.T
         /\ d.calls \in {c.calls, c.calls + 1}
         /\ \A li \in Layers : li # item.li =>
              d.fed[li] = c.fed[li] /\ d.main[li] = c.main[li] /\ d.idx[li] = c.idx[li]
         /\ d.fed[item.li] = Append(c.fed[item.li], row)
         /\ d.main[item.li] = IF TakesMain(c, item, "none") THEN c.main[item.li] + 1 ELSE c.main[item.li]
         /\ d.idx[item.li] = IF TakesIdx(c, item, "none") THEN c.idx[item.li] + 1 ELSE c.idx[item.li]
<1> DEFINE d == Feed(c, item, "none")
           row == [rq |-> item.rq, at |-> item.at]
           tm == TakesMain(c, item, "none")
           ti == TakesIdx(c, item, "none")
           ok == Ingested(c, item, "none")
<1>1. d = [c EXCEPT !.fed[item.li] = Append(@, row),
                    !.main[item.li] = IF tm THEN @ + 1 ELSE @,
                    !.idx[item.li] = IF ti THEN @ + 1 ELSE @,
                    !.calls = IF ok THEN @ + 1 ELSE @]
  BY DEF Feed
<1>2. /\ c.fed \in [Layers -> Seq(BoundedRow)] /\ c.main \in [Layers -> Nat]
      /\ c.idx \in [Layers -> Nat] /\ item.li \in Layers
  BY DEF BoundedCapture, BoundedItem
<1> HIDE DEF tm, ti, ok, row
<1>3. /\ d.part = c.part /\ d.own = c.own /\ d.first_t = c.first_t /\ d.reason = c.reason /\ d.T = c.T
      /\ d.calls = IF ok THEN c.calls + 1 ELSE c.calls
      /\ d.fed = [c.fed EXCEPT ![item.li] = Append(@, row)]
      /\ d.main = [c.main EXCEPT ![item.li] = IF tm THEN @ + 1 ELSE @]
      /\ d.idx = [c.idx EXCEPT ![item.li] = IF ti THEN @ + 1 ELSE @]
  BY <1>1 DEF BoundedCapture
<1> HIDE DEF d
<1>4. /\ d.part = c.part /\ d.own = c.own /\ d.first_t = c.first_t /\ d.reason = c.reason /\ d.T = c.T
      /\ d.calls \in {c.calls, c.calls + 1}
  BY <1>3
<1>5. \A li \in Layers : li # item.li =>
        d.fed[li] = c.fed[li] /\ d.main[li] = c.main[li] /\ d.idx[li] = c.idx[li]
  BY <1>2, <1>3
<1>6. /\ d.fed[item.li] = Append(c.fed[item.li], row)
      /\ d.main[item.li] = IF tm THEN c.main[item.li] + 1 ELSE c.main[item.li]
      /\ d.idx[item.li] = IF ti THEN c.idx[item.li] + 1 ELSE c.idx[item.li]
  BY <1>2, <1>3
<1> QED BY <1>4, <1>5, <1>6 DEF d, row, tm, ti

\* capture s of the next state is base with the item in hand, sealed or still open
Took(s, base) ==
  LET d == Feed(base, hand, "none")
  IN  \/ req' = s /\ caps'[s] = d
      \/ req' = 0 /\ GuardDue(d) /\ caps'[s] = Finished(d, "mem-floor-seal")

\* the open capture takes the item
TakesIn ==
  /\ ~Opens /\ req \in 1 .. Len(caps)
  /\ Len(caps') = Len(caps)
  /\ Took(req, caps[req])
  /\ \A i \in 1 .. Len(caps) : i # req => caps'[i] = caps[i]

\* the item opens a capture, and closes the one that was open
OpensFor(base) ==
  /\ Opens
  /\ Len(caps') = Len(caps) + 1
  /\ base \in BoundedCapture /\ Frozen(base, NewCapture(hand, clock + 1))
  /\ Took(Len(caps) + 1, base)
  /\ \A i \in 1 .. Len(caps) : i # req => Frozen(caps'[i], caps[i])
  /\ req # 0 => Closes /\ req \in 1 .. Len(caps) /\ Frozen(caps'[req], Finished(caps[req], "new-request"))

\* An ingest that no exception disturbs does one or the other.
LEMMA IngestShape ==
  ASSUME HookInv, WorkerIngest, faults' = 0
  PROVE  /\ TakesIn \/ \E base : OpensFor(base)
         /\ hand \in BoundedItem /\ hand.kind = "item" /\ hand' = Nothing
         /\ UNCHANGED <<rec, ran, q, signal, wpc, seen, fire>>
         /\ clock' = IF Opens THEN clock + 1 ELSE clock
<1> USE HookAssumption, BridgeAssumption
<1> DEFINE s == IF Opens THEN Len(Ready) ELSE req
<1>1. Resolved /\ faults \in Nat /\ caps \in Seq(BoundedCapture) /\ req \in 0 .. Len(caps) /\ clock \in Nat
  BY DEF HookInv, WorkerIngest, HookAssumption
<1>2. /\ hand \in BoundedItem /\ hand.kind = "item" /\ Ready \in Seq(BoundedCapture)
      /\ Opens => Len(Ready) = Len(caps) + 1
      /\ ~Opens => Ready = caps /\ req \in 1 .. Len(caps)
      /\ Len(caps) \in Nat
  BY <1>1, ReadyType DEF Extends, BoundedItem, HookInv
<1>3. PICK fault \in {"none", "main", "idx"}, guard \in {"pass", "seal", "fail"} :
        LET c == Feed(Ready[s], hand, fault)
            raised == fault # "none" \/ guard = "fail"
        IN  /\ faults' = IF raised THEN faults + 1 ELSE faults
            /\ guard # "pass" => GuardDue(c)
            /\ caps' = [Ready EXCEPT ![s] = CASE guard = "pass" -> c
                                              [] guard = "seal" -> Finished(c, "mem-floor-seal")
                                              [] guard = "fail" -> Lost(c)]
            /\ req' = IF guard = "pass" THEN s ELSE 0
  BY DEF WorkerIngest
<1>4. fault = "none" /\ guard \in {"pass", "seal"}
  BY <1>1, <1>3
<1> DEFINE d == Feed(Ready[s], hand, "none")
<1>5. /\ guard = "pass" => req' = s /\ caps' = [Ready EXCEPT ![s] = d]
      /\ guard = "seal" => /\ req' = 0 /\ GuardDue(d)
                           /\ caps' = [Ready EXCEPT ![s] = Finished(d, "mem-floor-seal")]
  BY <1>3, <1>4
<1>6. /\ hand' = Nothing /\ clock' = IF Opens THEN clock + 1 ELSE clock
      /\ UNCHANGED <<rec, ran, q, signal, wpc, seen, fire>>
  BY DEF WorkerIngest
<1>7. s \in 1 .. Len(Ready)
  <2> HIDE DEF Ready, Opens
  <2> QED BY <1>2
<1> DEFINE base == Ready[s]
<1>8. Took(s, base) /\ Len(caps') = Len(Ready) /\ \A i \in 1 .. Len(Ready) : i # s => caps'[i] = Ready[i]
  <2> HIDE DEF Ready, s
  <2> QED BY <1>2, <1>4, <1>5, <1>7 DEF Took
<1>9. CASE ~Opens
  <2>1. s = req /\ base = caps[req] /\ Ready = caps
    BY <1>2, <1>9
  <2> HIDE DEF Ready, s, base, d
  <2> QED BY <1>2, <1>6, <1>8, <1>9, <2>1 DEF TakesIn
<1>10. CASE Opens
  <2> DEFINE closed == IF Closes THEN [caps EXCEPT ![req] = Finished(@, "new-request")] ELSE caps
             new == NewCapture(hand, clock + 1)
             cs == Append(closed, new)
  <2>1. "new-request" \in Reasons
    BY DEF Reasons
  <2>2. /\ closed \in Seq(BoundedCapture) /\ Len(closed) = Len(caps)
        /\ \A i \in 1 .. Len(caps) : i # req => closed[i] = caps[i]
        /\ req # 0 => Closes /\ req \in 1 .. Len(caps) /\ closed[req] = Finished(caps[req], "new-request")
    <3>1. CASE Closes
      <4>1. req \in 1 .. Len(caps) /\ caps[req] \in BoundedCapture
        BY <1>1, <3>1 DEF Closes
      <4> DEFINE f == Finished(caps[req], "new-request")
      <4>2. f \in BoundedCapture
        BY <2>1, <4>1, FinishedType
      <4>3. closed = [caps EXCEPT ![req] = f]
        BY <3>1
      <4> HIDE DEF f, closed
      <4> QED BY <1>1, <3>1, <4>1, <4>2, <4>3 DEF f
    <3>2. CASE ~Closes
      <4>1. req = 0
        BY <1>10, <3>2 DEF Opens
      <4> QED BY <1>1, <3>2, <4>1
    <3> QED BY <3>1, <3>2
  <2>3. new \in BoundedCapture
    BY <1>1, <1>2, NewCaptureType
  <2>4. Ready = Prune(cs)
    BY <1>10 DEF Ready
  <2> HIDE DEF closed, new
  <2>5. /\ cs \in Seq(BoundedCapture) /\ Len(cs) = Len(caps) + 1 /\ cs[Len(caps) + 1] = new
        /\ \A i \in 1 .. Len(caps) : cs[i] = closed[i]
    BY <1>2, <2>2, <2>3
  <2> HIDE DEF cs
  <2>6. \A i \in 1 .. Len(caps) + 1 : Frozen(Ready[i], cs[i])
    BY <2>4, <2>5, PruneFrozen
  <2>7. s = Len(caps) + 1
    BY <1>2, <1>10
  <2>8. base \in BoundedCapture
    BY <1>2, <1>7
  <2> HIDE DEF Ready, s, d
  <2>9. Frozen(base, new)
    BY <1>2, <2>5, <2>6, <2>7
  <2> HIDE DEF base
  <2>10. \A i \in 1 .. Len(caps) : i # req => Frozen(caps'[i], caps[i])
    <3> SUFFICES ASSUME NEW i \in 1 .. Len(caps), i # req PROVE Frozen(caps'[i], caps[i])
      OBVIOUS
    <3>1. i \in 1 .. Len(caps) + 1 /\ i # s /\ i \in 1 .. Len(Ready)
      BY <1>2, <1>10, <2>7
    <3> QED BY <1>8, <2>2, <2>5, <2>6, <3>1
  <2>11. req # 0 => Closes /\ req \in 1 .. Len(caps) /\ Frozen(caps'[req], Finished(caps[req], "new-request"))
    <3> SUFFICES ASSUME req # 0
                 PROVE  Closes /\ req \in 1 .. Len(caps) /\ Frozen(caps'[req], Finished(caps[req], "new-request"))
      OBVIOUS
    <3>1. Closes /\ req \in 1 .. Len(caps) /\ closed[req] = Finished(caps[req], "new-request")
      BY <2>2
    <3>2. req \in 1 .. Len(caps) + 1 /\ req # s /\ req \in 1 .. Len(Ready)
      BY <1>2, <1>10, <2>7, <3>1
    <3>3. caps'[req] = Ready[req] /\ cs[req] = closed[req] /\ Frozen(Ready[req], cs[req])
      BY <1>8, <2>5, <2>6, <3>1, <3>2
    <3> QED BY <3>1, <3>3
  <2>12. OpensFor(base)
    BY <1>2, <1>8, <1>10, <2>7, <2>8, <2>9, <2>10, <2>11 DEF OpensFor, new
  <2> QED BY <1>2, <1>6, <2>12
<1> QED BY <1>9, <1>10

\* A flush that no exception disturbs publishes, or discards, the open capture.
LEMMA FlushShape ==
  ASSUME HookInv, WorkerFlush, faults' = 0
  PROVE  /\ hand \in Sentinel /\ hand.kind = "flush" /\ hand' = Nothing /\ req' = 0
         /\ UNCHANGED <<rec, ran, q, clock, signal, wpc, seen, fire>>
         /\ Len(caps') = Len(caps)
         /\ \A i \in 1 .. Len(caps) : i # req => caps'[i] = caps[i]
         /\ req # 0 => req \in 1 .. Len(caps) /\ caps'[req] = Finished(caps[req], hand.reason)
<1>1. /\ faults \in Nat /\ caps \in Seq(BoundedCapture) /\ req \in 0 .. Len(caps)
      /\ hand \in Sentinel
  BY HookAssumption DEF HookInv, HookAssumption, WorkerFlush, BoundedItem, Nothing
<1>2. caps' = IF req = 0 THEN caps ELSE [caps EXCEPT ![req] = Finished(@, hand.reason)]
  BY <1>1 DEF WorkerFlush
<1> DEFINE d == Finished(caps[req], hand.reason)
<1>3. caps' = IF req = 0 THEN caps ELSE [caps EXCEPT ![req] = d]
  BY <1>2
<1> HIDE DEF d
<1>4. /\ Len(caps') = Len(caps)
      /\ \A i \in 1 .. Len(caps) : i # req => caps'[i] = caps[i]
      /\ req # 0 => req \in 1 .. Len(caps) /\ caps'[req] = d
  BY <1>1, <1>3
<1> QED BY <1>1, <1>4 DEF WorkerFlush, d

\* Without an exception the worker takes, ingests or flushes.
LEMMA NoFault ==
  ASSUME HookInv, Worker \/ WorkerFault, faults' = 0
  PROVE  WorkerGet \/ WorkerIngest \/ WorkerFlush
<1>1. faults' # faults + 1
  BY HookAssumption DEF HookInv, HookAssumption
<1> QED BY <1>1 DEF Worker, WorkerFault, WorkerDrop, WorkerCloseFails, WorkerDiskFloor

\* Only an ingest or a flush touches captures.
LEMMA OthersKeepCaps ==
  ASSUME TypeInv, [Next]_vars, faults' = 0
  PROVE  \/ WorkerIngest /\ UNCHANGED engineVars /\ UNCHANGED frontVars
         \/ WorkerFlush /\ UNCHANGED engineVars /\ UNCHANGED frontVars
         \/ UNCHANGED <<caps, req>>
<1>1. CASE UNCHANGED vars
  BY <1>1 DEF vars, hookVars
<1>2. ASSUME Worker \/ WorkerFault, UNCHANGED engineVars, UNCHANGED frontVars
      PROVE  \/ WorkerIngest /\ UNCHANGED engineVars /\ UNCHANGED frontVars
             \/ WorkerFlush /\ UNCHANGED engineVars /\ UNCHANGED frontVars
             \/ UNCHANGED <<caps, req>>
  <2>1. WorkerGet \/ WorkerIngest \/ WorkerFlush
    BY <1>2, NoFault DEF TypeInv
  <2> QED BY <1>2, <2>1 DEF WorkerGet
<1>3. ASSUME GpuStep \/ Watcher \/ IdleElapses PROVE UNCHANGED <<caps, req>>
  BY <1>3, OtherHookStep DEF TypeInv
<1>4. CASE Engine
  BY <1>4 DEF Engine, DirectSubmit, Submit, EngineForward, Record, EngineReturn, hookVars
<1>5. CASE Front
  BY <1>5 DEF Front, FrontSubmit, Submit, FrontChoose, FrontSignal, FrontGraceOut, FrontGivesUp,
              FrontPull, hookVars
<1> QED BY <1>1, <1>2, <1>3, <1>4, <1>5 DEF Next, Hook, IdleMayElapse

\* Captures that are not open keep everything but their directory.
LEMMA ClosedIsFrozen ==
  ASSUME TypeInv, [Next]_vars, faults' = 0
  PROVE  /\ Len(caps) <= Len(caps') /\ Len(caps) \in Nat /\ Len(caps') \in Nat
         /\ \A s \in 1 .. Len(caps) : s # req => Frozen(caps'[s], caps[s])
<1>1. HookInv /\ caps \in Seq(BoundedCapture) /\ Len(caps) \in Nat
  BY DEF TypeInv, HookInv
<1>2. CASE WorkerIngest
  <2>1. TakesIn \/ \E base : OpensFor(base)
    BY <1>1, <1>2, IngestShape
  <2>2. CASE TakesIn
    BY <1>1, <2>2 DEF TakesIn, Frozen, Kept
  <2>3. CASE \E base : OpensFor(base)
    BY <1>1, <2>3 DEF OpensFor
  <2> QED BY <2>1, <2>2, <2>3
<1>3. CASE WorkerFlush
  BY <1>1, <1>3, FlushShape DEF Frozen, Kept
<1>4. CASE UNCHANGED <<caps, req>>
  BY <1>1, <1>4 DEF Frozen, Kept
<1> QED BY <1>2, <1>3, <1>4, OthersKeepCaps

\* The front reads the same prefix and the same gaps from both.
LEMMA FrozenUsable ==
  ASSUME NEW d, NEW c, Frozen(d, c)
  PROVE  UsablePrefix(d) = UsablePrefix(c) /\ (Published(c) <=> Published(d)) /\ (HasGap(c) <=> HasGap(d))
  BY DEF Frozen, Kept, UsablePrefix, HasGap, Published

\* Without a gap, row i of a layer is at position i - 1.
LEMMA NoGap ==
  ASSUME NEW c \in BoundedCapture, ~HasGap(c), NEW li \in Layers
  PROVE  \A i \in 1 .. Len(c.fed[li]) : c.fed[li][i].at = i - 1
<1> DEFINE f == c.fed[li]
           Bad == {i \in 1 .. Len(f) : f[i].at # i - 1}
<1>1. f \in Seq(BoundedRow)
  BY DEF BoundedCapture
<1>2. \A i \in 1 .. Len(f) : f[i].at = IF i = 1 THEN 0 ELSE f[i - 1].at + 1
  BY DEF HasGap
<1> HIDE DEF f
<1> SUFFICES ASSUME Bad # {} PROVE FALSE
  BY DEF f
<1>3. Bad \in SUBSET Nat
  BY <1>1
<1>4. PICK i \in Bad : \A x \in Bad : i <= x
  <2> HIDE DEF Bad
  <2> QED BY <1>3, NatSetHasMin
<1>5. i \in 1 .. Len(f) /\ f[i].at # i - 1 /\ Len(f) \in Nat
  BY <1>1, <1>4
<1>6. CASE i = 1
  BY <1>2, <1>5, <1>6
<1>7. CASE i # 1
  <2>1. i - 1 \in 1 .. Len(f) /\ i - 1 \notin Bad
    BY <1>4, <1>5, <1>7
  <2>2. f[i - 1].at = (i - 1) - 1
    BY <2>1
  <2> QED BY <1>2, <1>5, <1>7, <2>2
<1> QED BY <1>6, <1>7

\* The front assembles no more blocks than each layer holds.
LEMMA AssembledCover ==
  ASSUME NEW c \in BoundedCapture, ~HasGap(c), NEW n \in Nat, NEW li \in Layers
  PROVE  Assembled(c, n) <= Len(c.fed[li])
<1> DEFINE G == {b \in 0 .. n : \A l \in Layers :
                   c.fed[l] # <<>> /\ \A k \in 1 .. b : HasKeys(c, l, k)}
           H == G \cup {0}
<1>1. H \in SUBSET (0 .. n) /\ H # {}
  OBVIOUS
<1>2. Assembled(c, n) = Max(H)
  BY DEF Assembled
<1>3. Assembled(c, n) \in H
  <2> HIDE DEF H
  <2>1. PICK m \in H : \A x \in H : x <= m
    BY <1>1, BoundedSetHasMax
  <2>2. m \in H /\ \A x \in H : m >= x
    BY <1>1, <2>1
  <2> QED BY <1>2, <2>2 DEF Max
<1> DEFINE b == Assembled(c, n)
<1> HIDE DEF b
<1>4. c.fed[li] \in Seq(BoundedRow)
  BY DEF BoundedCapture
<1>5. b \in H /\ b \in 0 .. n
  BY <1>1, <1>3 DEF b
<1>6. CASE b = 0
  BY <1>4, <1>6 DEF b
<1>7. CASE b # 0
  <2>1. b \in G /\ b \in 1 .. b
    BY <1>5, <1>7
  <2>2. c.fed[li] # <<>> /\ HasKeys(c, li, b)
    BY <2>1
  <2>3. PICK i \in 1 .. Len(c.fed[li]) : c.fed[li][i].at = b - 1
    BY <2>2 DEF HasKeys
  <2>4. c.fed[li][i].at = i - 1
    BY NoGap
  <2>5. b = i
    BY <1>4, <1>5, <2>3, <2>4
  <2> QED BY <1>4, <2>2, <2>5 DEF b
<1> QED BY <1>6, <1>7

-----------------------------------------------------------------------------
(* What is stored is whole *)

\* A layer fed from position 0 on, without a gap, has pooled every row it was fed.
PooledLayer(c, li) ==
  (\A i \in 1 .. Len(c.fed[li]) : c.fed[li][i].at = i - 1)
    => /\ Kind[li] # "swa" => c.main[li] = Len(c.fed[li])
       /\ Kind[li] = "c4" => c.idx[li] = Len(c.fed[li])

Pooled(c) == \A li \in Layers : PooledLayer(c, li)

StoreInv ==
  /\ req # 0 => caps[req].reason = "none"
  /\ \A s \in 1 .. Len(caps) : Pooled(caps[s])
  /\ fr # 0 /\ ph = "pull" => Published(caps[chosen]) /\ UsablePrefix(caps[chosen]) > 0
  /\ \A x \in stored : /\ Published(caps[x.cap]) /\ UsablePrefix(caps[x.cap]) > 0
                       /\ \A li \in Layers : Len(caps[x.cap].fed[li]) >= x.B

\* Publishing pools nothing and loses nothing.
LEMMA KeptPooled ==
  ASSUME NEW d, NEW c, Kept(d, c), Pooled(c)
  PROVE  Pooled(d)
BY DEF Kept, Pooled, PooledLayer

\* One feed adds a row and pools it, or leaves a gap behind.
LEMMA FeedPooled ==
  ASSUME HookAssumption, BridgeAssumption, NEW c \in BoundedCapture, NEW item \in BoundedItem, Pooled(c)
  PROVE  Pooled(Feed(c, item, "none"))
<1> DEFINE d == Feed(c, item, "none")
           row == [rq |-> item.rq, at |-> item.at]
           tm == TakesMain(c, item, "none")
           ti == TakesIdx(c, item, "none")
<1>1. /\ \A li \in Layers : li # item.li =>
           d.fed[li] = c.fed[li] /\ d.main[li] = c.main[li] /\ d.idx[li] = c.idx[li]
      /\ d.fed[item.li] = Append(c.fed[item.li], row)
      /\ d.main[item.li] = IF tm THEN c.main[item.li] + 1 ELSE c.main[item.li]
      /\ d.idx[item.li] = IF ti THEN c.idx[item.li] + 1 ELSE c.idx[item.li]
  BY FeedFields
<1>2. item.li \in Layers /\ item.at \in Nat /\ Kind[item.li] \in Kinds
  BY DEF BoundedItem, HookAssumption, BridgeAssumption
<1>3. /\ tm <=> Kind[item.li] # "swa" /\ c.main[item.li] = item.at
      /\ ti <=> Kind[item.li] = "c4" /\ tm /\ c.idx[item.li] = item.at
  BY DEF TakesMain, TakesIdx
<1> HIDE DEF tm, ti, d
<1> SUFFICES ASSUME NEW li \in Layers PROVE PooledLayer(d, li)
  BY DEF Pooled, d
<1>4. CASE li # item.li
  <2>1. PooledLayer(c, li)
    BY DEF Pooled
  <2> QED BY <1>1, <1>4, <2>1 DEF PooledLayer
<1>5. CASE li = item.li
  <2> DEFINE f == c.fed[li]
             n == Len(f)
             g == d.fed[li]
  <2>1. f \in Seq(BoundedRow) /\ n \in Nat /\ row \in BoundedRow
    <3>1. f \in Seq(BoundedRow)
      BY DEF BoundedCapture
    <3>2. row \in BoundedRow
      BY DEF BoundedItem, BoundedRow
    <3> QED BY <3>1, <3>2
  <2>2. g = Append(f, row)
    BY <1>1, <1>5
  <2>3. /\ Len(g) = n + 1 /\ g[n + 1].at = item.at
        /\ \A i \in 1 .. n : i \in 1 .. n + 1 /\ g[i] = f[i]
    BY <2>1, <2>2
  <2>4. PooledLayer(c, li)
    BY DEF Pooled
  <2> HIDE DEF g, f, n, row
  <2> SUFFICES ASSUME \A i \in 1 .. Len(g) : g[i].at = i - 1
               PROVE  /\ Kind[li] # "swa" => d.main[li] = Len(g)
                      /\ Kind[li] = "c4" => d.idx[li] = Len(g)
    BY DEF PooledLayer, g
  <2>5. item.at = n
    BY <2>1, <2>3
  <2>6. \A i \in 1 .. n : f[i].at = i - 1
    BY <2>1, <2>3
  <2>7. /\ Kind[li] # "swa" => c.main[li] = n
        /\ Kind[li] = "c4" => c.idx[li] = n
    BY <2>4, <2>6 DEF PooledLayer, f, n
  <2>8. /\ Kind[li] # "swa" => tm
        /\ Kind[li] = "c4" => ti
    BY <1>3, <1>5, <2>5, <2>7
  <2> QED BY <1>1, <1>5, <2>1, <2>3, <2>7, <2>8
<1> QED BY <1>4, <1>5

\* Fresh captures have pooled nothing, and been fed nothing.
LEMMA NewPooled ==
  ASSUME NEW item, NEW now
  PROVE  Pooled(NewCapture(item, now)) /\ NewCapture(item, now).reason = "none"
<1> DEFINE c == NewCapture(item, now)
<1>1. c.reason = "none" /\ \A li \in Layers : c.fed[li] = <<>> /\ c.main[li] = 0 /\ c.idx[li] = 0
  BY DEF NewCapture
<1> HIDE DEF c
<1>2. Len(<<>>) = 0
  OBVIOUS
<1> QED BY <1>1, <1>2 DEF Pooled, PooledLayer, c

\* The capture that takes an item, open or sealed by the guard.
LEMMA TookShape ==
  ASSUME HookAssumption, BridgeAssumption, NEW base \in BoundedCapture, hand \in BoundedItem,
         NEW s, Took(s, base)
  PROVE  LET d == Feed(base, hand, "none") IN
         /\ d \in BoundedCapture
         /\ Kept(caps'[s], d)
         /\ req' \in {0, s}
         /\ req' = s /\ s # 0 => caps'[s] = d
         /\ Published(caps'[s]) /\ ~Published(d) => GuardDue(d) /\ caps'[s].T = MaxPos(d)
         /\ Published(caps'[s]) /\ ~Published(d) => caps'[s].reason = "mem-floor-seal"
<1> DEFINE d == Feed(base, hand, "none")
<1>1. d \in BoundedCapture
  BY FeedType
<1>2. "mem-floor-seal" \in Reasons
  BY DEF Reasons
<1>3. /\ Kept(Finished(d, "mem-floor-seal"), d)
      /\ \/ Finished(d, "mem-floor-seal").reason = d.reason
         \/ /\ Finished(d, "mem-floor-seal").T = MaxPos(d)
            /\ Finished(d, "mem-floor-seal").reason = "mem-floor-seal"
  <2> HIDE DEF d
  <2> QED BY <1>1, <1>2, FinishedKept
<1>4. Kept(d, d)
  BY DEF Kept
<1>5. \/ req' = s /\ caps'[s] = d
      \/ req' = 0 /\ GuardDue(d) /\ caps'[s] = Finished(d, "mem-floor-seal")
  BY DEF Took
<1> HIDE DEF d
<1> QED BY <1>1, <1>3, <1>4, <1>5 DEF Published, d

\* Every capture keeps its rows, is the open one and takes the item in hand, or
\* is new and takes it.
LEMMA RowsStep ==
  ASSUME TypeInv, [Next]_vars, faults' = 0, NEW s \in 1 .. Len(caps')
  PROVE  \/ s \in 1 .. Len(caps) /\ Kept(caps'[s], caps[s])
         \/ s = req /\ WorkerIngest /\ TakesIn
         \/ s = Len(caps) + 1 /\ WorkerIngest /\ \E base : OpensFor(base)
<1>1. HookInv /\ caps \in Seq(BoundedCapture) /\ Len(caps) \in Nat /\ req \in 0 .. Len(caps)
  BY DEF TypeInv, HookInv
<1>2. CASE WorkerIngest
  <2>1. TakesIn \/ \E base : OpensFor(base)
    BY <1>1, <1>2, IngestShape
  <2>2. CASE TakesIn
    BY <1>1, <1>2, <2>2 DEF TakesIn, Kept
  <2>3. ASSUME NEW base, OpensFor(base) PROVE (s \in 1 .. Len(caps) /\ Kept(caps'[s], caps[s])) \/ s = Len(caps) + 1
    <3>1. CASE s = Len(caps) + 1
      BY <3>1
    <3>2. CASE s \in 1 .. Len(caps) /\ s # req
      BY <2>3, <3>2 DEF OpensFor, Frozen
    <3>3. CASE s \in 1 .. Len(caps) /\ s = req
      <4>1. caps[req] \in BoundedCapture /\ "new-request" \in Reasons
        BY <1>1, <3>3 DEF Reasons
      <4>2. Kept(Finished(caps[req], "new-request"), caps[req])
        BY <4>1, FinishedKept
      <4>3. Frozen(caps'[req], Finished(caps[req], "new-request"))
        BY <2>3, <3>3 DEF OpensFor
      <4> QED BY <3>3, <4>2, <4>3, FrozenTrans
    <3>4. Len(caps') = Len(caps) + 1
      BY <2>3 DEF OpensFor
    <3> QED BY <1>1, <3>1, <3>2, <3>3, <3>4
  <2> QED BY <1>2, <2>1, <2>2, <2>3
<1>3. CASE WorkerFlush
  <2>1. /\ hand \in Sentinel /\ Len(caps') = Len(caps)
        /\ \A i \in 1 .. Len(caps) : i # req => caps'[i] = caps[i]
        /\ req # 0 => req \in 1 .. Len(caps) /\ caps'[req] = Finished(caps[req], hand.reason)
    BY <1>1, <1>3, FlushShape
  <2>2. CASE s # req
    BY <2>1, <2>2 DEF Kept
  <2>3. CASE s = req
    <3>1. caps[req] \in BoundedCapture /\ hand.reason \in Reasons
      BY <1>1, <2>1, <2>3 DEF Sentinel, Reasons
    <3> QED BY <2>1, <2>3, <3>1, FinishedKept
  <2> QED BY <2>2, <2>3
<1>4. CASE UNCHANGED <<caps, req>>
  BY <1>4 DEF Kept
<1> QED BY <1>2, <1>3, <1>4, OthersKeepCaps

\* While a capture is open it has not been published.
LEMMA OpenStep ==
  ASSUME TypeInv, [Next]_vars, faults' = 0, req # 0 => caps[req].reason = "none"
  PROVE  req' # 0 => caps'[req'].reason = "none"
<1> USE HookAssumption, BridgeAssumption
<1> SUFFICES ASSUME req' # 0 PROVE caps'[req'].reason = "none"
  OBVIOUS
<1>1. HookInv /\ caps \in Seq(BoundedCapture) /\ Len(caps) \in Nat /\ req \in 0 .. Len(caps)
  BY DEF TypeInv, HookInv
<1>2. CASE WorkerIngest
  <2>1. (TakesIn \/ \E base : OpensFor(base)) /\ hand \in BoundedItem
    BY <1>1, <1>2, IngestShape
  <2>2. ASSUME NEW base \in BoundedCapture, NEW s, s # 0, Took(s, base), base.reason = "none"
        PROVE  caps'[req'].reason = "none"
    <3>1. req' \in {0, s} /\ (req' = s => caps'[s] = Feed(base, hand, "none"))
      BY <2>1, <2>2, TookShape
    <3>2. Feed(base, hand, "none").reason = base.reason
      BY <2>1, FeedFields
    <3> QED BY <2>2, <3>1, <3>2
  <2>3. CASE TakesIn
    <3>1. req # 0 /\ caps[req] \in BoundedCapture /\ Took(req, caps[req])
      BY <1>1, <2>3 DEF TakesIn
    <3> QED BY <2>2, <3>1
  <2>4. ASSUME NEW base, OpensFor(base) PROVE caps'[req'].reason = "none"
    <3>1. base \in BoundedCapture /\ Took(Len(caps) + 1, base) /\ Len(caps) + 1 # 0
      BY <1>1, <2>4 DEF OpensFor
    <3>2. base.reason = "none"
      BY <2>4, NewPooled DEF OpensFor, Frozen
    <3> QED BY <2>2, <3>1, <3>2
  <2> QED BY <2>1, <2>3, <2>4
<1>3. CASE WorkerFlush
  BY <1>1, <1>3, FlushShape
<1>4. CASE UNCHANGED <<caps, req>>
  BY <1>4
<1> QED BY <1>2, <1>3, <1>4, OthersKeepCaps

\* In every step: a layer without a gap has pooled what it was fed.
LEMMA PooledStep ==
  ASSUME TypeInv, [Next]_vars, faults' = 0, \A s \in 1 .. Len(caps) : Pooled(caps[s])
  PROVE  \A s \in 1 .. Len(caps') : Pooled(caps'[s])
<1> USE HookAssumption, BridgeAssumption
<1> SUFFICES ASSUME NEW s \in 1 .. Len(caps') PROVE Pooled(caps'[s])
  OBVIOUS
<1>1. HookInv /\ caps \in Seq(BoundedCapture)
  BY DEF TypeInv, HookInv
<1>2. ASSUME WorkerIngest, NEW base \in BoundedCapture, Took(s, base), Pooled(base) PROVE Pooled(caps'[s])
  <2>1. hand \in BoundedItem
    BY <1>1, <1>2, IngestShape
  <2>2. Kept(caps'[s], Feed(base, hand, "none"))
    BY <1>2, <2>1, TookShape
  <2>3. Pooled(Feed(base, hand, "none"))
    BY <1>2, <2>1, FeedPooled
  <2> QED BY <2>2, <2>3, KeptPooled
<1>3. CASE s \in 1 .. Len(caps) /\ Kept(caps'[s], caps[s])
  BY <1>3, KeptPooled
<1>4. CASE s = req /\ WorkerIngest /\ TakesIn
  <2>1. caps[req] \in BoundedCapture /\ Took(req, caps[req]) /\ Pooled(caps[req])
    BY <1>1, <1>4 DEF TakesIn
  <2> QED BY <1>2, <1>4, <2>1
<1>5. ASSUME s = Len(caps) + 1, WorkerIngest, NEW base, OpensFor(base) PROVE Pooled(caps'[s])
  <2>1. base \in BoundedCapture /\ Took(s, base) /\ Kept(base, NewCapture(hand, clock + 1))
    BY <1>5 DEF OpensFor, Frozen
  <2>2. Pooled(base)
    BY <2>1, NewPooled, KeptPooled
  <2> QED BY <1>2, <1>5, <2>1, <2>2
<1> QED BY <1>3, <1>4, <1>5, RowsStep

\* What the front takes is a published capture with a usable prefix.
LEMMA ChosenStep ==
  ASSUME TypeInv, PurityInv, [Next]_vars, faults' = 0, req # 0 => caps[req].reason = "none",
         fr # 0 /\ ph = "pull" => Published(caps[chosen]) /\ UsablePrefix(caps[chosen]) > 0,
         fr' # 0, ph' = "pull"
  PROVE  Published(caps'[chosen']) /\ UsablePrefix(caps'[chosen']) > 0
<1> USE HookAssumption, BridgeAssumption
<1>1. HookInv /\ FrontInv /\ EngineInv /\ caps \in Seq(BoundedCapture) /\ Len(caps) \in Nat /\ nreq \in Nat
  BY DEF TypeInv, HookInv, EngineInv, BridgeAssumption
<1>2. CASE UNCHANGED <<fr, ph, chosen>>
  <2>1. Published(caps[chosen]) /\ UsablePrefix(caps[chosen]) > 0 /\ chosen \in 1 .. Len(caps)
    BY <1>1, <1>2 DEF FrontInv
  <2>2. chosen # req
    BY <1>1, <2>1 DEF Published, HookInv
  <2>3. Frozen(caps'[chosen], caps[chosen])
    BY <2>1, <2>2, ClosedIsFrozen
  <2> QED BY <1>2, <2>1, <2>3, FrozenUsable
<1>3. CASE FrontChoose
  <2>1. Complete # {} /\ chosen' = Min(Complete) /\ caps' = caps /\ fr # 0
    BY <1>3 DEF FrontChoose, hookVars
  <2>2. Min(Complete) \in Complete
    BY <1>1, <2>1, MinComplete
  <2>3. Published(caps[chosen']) /\ UsablePrefix(caps[chosen']) = len[fr]
    BY <2>1, <2>2 DEF Complete, Scanned
  <2>4. len[fr] >= 1 /\ len[fr] \in Nat
    <3>1. fr \in 1 .. nreq /\ fr \in Requests
      BY <1>1, <2>1 DEF FrontInv, EngineInv, BridgeAssumption
    <3> QED BY <1>1, <3>1 DEF PurityInv, EngineOrder, EngineInv, BridgeAssumption
  <2> QED BY <2>1, <2>3, <2>4
<1>4. CASE FrontGraceOut
  <2>1. caps' = caps /\ (Scanned # {} /\ UsablePrefix(caps[Best]) > 0 /\ chosen' = Best)
    BY <1>4 DEF FrontGraceOut, hookVars
  <2>2. Best \in Scanned
    BY <1>1, <2>1, BestScanned
  <2> QED BY <2>1, <2>2 DEF Scanned
<1>5. CASE FrontSubmit \/ FrontSignal \/ FrontGivesUp \/ FrontPull
  BY <1>5 DEF FrontSubmit, FrontSignal, FrontGivesUp, FrontPull
<1> QED BY <1>2, <1>3, <1>4, <1>5 DEF Next, Hook, Engine, DirectSubmit, EngineForward, EngineReturn,
           Front, vars, frontVars

\* The front asks for a natural number of blocks.
LEMMA PullCount ==
  ASSUME NEW a \in Nat, NEW b \in Nat
  PROVE  Min({a, b}) \in Nat
<1> DEFINE S == {a, b}
<1>1. S \in SUBSET Nat /\ S # {}
  OBVIOUS
<1> HIDE DEF S
<1>2. \E m \in S : \A x \in S : m <= x
  BY <1>1, NatSetHasMin
<1>3. Min(S) \in S
  BY <1>2 DEF Min
<1> QED BY <1>1, <1>3 DEF S

\* A pull adds at most one entry: what the front assembled of its choice.
LEMMA PullShape ==
  ASSUME TypeInv, [Next]_vars, NEW x \in stored', x \notin stored
  PROVE  /\ FrontPull /\ fr # 0 /\ ph = "pull" /\ x.rq = fr /\ x.cap = chosen /\ UNCHANGED <<caps, len>>
         /\ caps[chosen].state = "done" /\ chosen \in 1 .. Len(caps) /\ caps[chosen] \in BoundedCapture
         /\ \E n \in Nat : x.B = Assembled(caps[chosen], n)
<1> USE BridgeAssumption
<1>1. HookInv /\ FrontInv /\ EngineInv /\ caps \in Seq(BoundedCapture)
  BY DEF TypeInv, HookInv
<1>2. FrontPull
  <2>1. ~UNCHANGED stored
    OBVIOUS
  <2> QED BY <2>1 DEF Next, Hook, Engine, DirectSubmit, EngineForward, EngineReturn, Front, vars, frontVars,
                      FrontSubmit, FrontChoose, FrontSignal, FrontGraceOut, FrontGivesUp
<1> DEFINE n == Min({len[fr], caps[chosen].T})
<1>3. /\ fr # 0 /\ ph = "pull" /\ UNCHANGED <<caps, len>> /\ caps[chosen].state = "done"
      /\ x = [rq |-> fr, cap |-> chosen, B |-> Assembled(caps[chosen], n)]
  BY <1>2 DEF FrontPull, hookVars, engineVars
<1>4. chosen \in 1 .. Len(caps) /\ fr \in Requests
  BY <1>1, <1>3 DEF FrontInv, EngineInv, BridgeAssumption
<1>5. caps[chosen] \in BoundedCapture
  BY <1>1, <1>4
<1>6. len[fr] \in Nat /\ caps[chosen].T \in Nat
  <2>1. len[fr] \in 0 .. MaxChunks
    BY <1>1, <1>4 DEF EngineInv
  <2>2. caps[chosen].T \in 0 .. MaxChunks
    BY <1>5 DEF BoundedCapture
  <2> QED BY <2>1, <2>2 DEF BridgeAssumption
<1>7. n \in Nat
  BY <1>6, PullCount
<1> HIDE DEF n
<1> QED BY <1>2, <1>3, <1>4, <1>5, <1>7

\* What the front chose or stored is published, so no step changes its rows.
LEMMA StoreStep ==
  ASSUME TypeInv, PurityInv, StoreInv, [Next]_vars, faults' = 0
  PROVE  StoreInv'
<1>1. HookInv /\ FrontInv /\ caps \in Seq(BoundedCapture)
  BY DEF TypeInv, HookInv
<1>2. req' # 0 => caps'[req'].reason = "none"
  BY OpenStep DEF StoreInv
<1>3. \A s \in 1 .. Len(caps') : Pooled(caps'[s])
  BY PooledStep DEF StoreInv
<1>4. fr' # 0 /\ ph' = "pull" => Published(caps'[chosen']) /\ UsablePrefix(caps'[chosen']) > 0
  BY ChosenStep DEF StoreInv
<1>5. ASSUME NEW x \in stored'
      PROVE  /\ Published(caps'[x.cap]) /\ UsablePrefix(caps'[x.cap]) > 0
             /\ \A li \in Layers : Len(caps'[x.cap].fed[li]) >= x.B
  <2>1. CASE x \in stored
    <3>1. /\ x.cap \in 1 .. Len(caps) /\ Published(caps[x.cap]) /\ UsablePrefix(caps[x.cap]) > 0
          /\ \A li \in Layers : Len(caps[x.cap].fed[li]) >= x.B
      BY <1>1, <2>1 DEF FrontInv, StoreInv
    <3>2. x.cap # req
      BY <3>1 DEF StoreInv, Published
    <3>3. Frozen(caps'[x.cap], caps[x.cap])
      BY <3>1, <3>2, ClosedIsFrozen
    <3> QED BY <3>1, <3>3, FrozenUsable DEF Frozen, Kept
  <2>2. CASE x \notin stored
    <3>1. /\ fr # 0 /\ ph = "pull" /\ x.cap = chosen /\ caps' = caps
          /\ chosen \in 1 .. Len(caps) /\ caps[chosen] \in BoundedCapture
          /\ \E n \in Nat : x.B = Assembled(caps[chosen], n)
      BY <2>2, PullShape
    <3>2. Published(caps[chosen]) /\ UsablePrefix(caps[chosen]) > 0
      BY <3>1 DEF StoreInv
    <3>3. ~HasGap(caps[chosen])
      BY <3>2 DEF UsablePrefix
    <3>4. ASSUME NEW li \in Layers PROVE Len(caps[chosen].fed[li]) >= x.B
      <4>1. PICK n \in Nat : x.B = Assembled(caps[chosen], n)
        BY <3>1
      <4>2. x.B \in Nat /\ caps[chosen].fed[li] \in Seq(BoundedRow)
        BY <3>1, <4>1, AssembledType DEF BoundedCapture
      <4>3. x.B <= Len(caps[chosen].fed[li])
        BY <3>1, <3>3, <4>1, AssembledCover
      <4> QED BY <4>2, <4>3
    <3> QED BY <3>1, <3>2, <3>4
  <2> QED BY <2>1, <2>2
<1> QED BY <1>2, <1>3, <1>4, <1>5 DEF StoreInv

\* What is stored has every pooled row below its boundary.
LEMMA StoreIsWhole ==
  ASSUME TypeInv, StoreInv
  PROVE  StoredIsWhole
<1> SUFFICES ASSUME NEW x \in stored, NEW li \in Layers
             PROVE  /\ Kind[li] # "swa" => caps[x.cap].main[li] >= x.B
                    /\ Kind[li] = "c4" => caps[x.cap].idx[li] >= x.B
  BY DEF StoredIsWhole
<1>1. x.cap \in 1 .. Len(caps) /\ caps[x.cap] \in BoundedCapture
  BY DEF TypeInv, HookInv, FrontInv
<1>2. ~HasGap(caps[x.cap]) /\ Len(caps[x.cap].fed[li]) >= x.B /\ PooledLayer(caps[x.cap], li)
  BY <1>1 DEF StoreInv, UsablePrefix, Pooled
<1>3. \A i \in 1 .. Len(caps[x.cap].fed[li]) : caps[x.cap].fed[li][i].at = i - 1
  BY <1>1, <1>2, NoGap
<1> QED BY <1>2, <1>3 DEF PooledLayer

\* At the start nothing is captured, chosen or stored.
LEMMA StoreInit ==
  ASSUME Init
  PROVE  StoreInv
BY DEF Init, HookInit, StoreInv

\* As long as no exception is swallowed, the blocks the front stores have every
\* pooled row below their boundary, of the compressor and of the indexer, for any
\* layers, prompts and clients: the pooled tensors the front does not measure are
\* never shorter than the windows it does.
THEOREM StoredWholeCorrect == ASSUME MaxFaults = 0 PROVE Spec => []StoredIsWhole
<1>1. Init => TypeInv /\ PurityInv /\ StoreInv
  BY TypeInit, PurityInit, StoreInit
<1>2. TypeInv /\ PurityInv /\ StoreInv /\ [Next]_vars => TypeInv' /\ PurityInv' /\ StoreInv'
  <2> SUFFICES ASSUME TypeInv, PurityInv, StoreInv, [Next]_vars PROVE TypeInv' /\ PurityInv' /\ StoreInv'
    OBVIOUS
  <2>1. TypeInv'
    BY TypeStep
  <2>2. faults' = 0
    BY <2>1 DEF TypeInv, HookInv
  <2> QED BY <2>1, <2>2, PurityStep, StoreStep
<1>3. TypeInv /\ StoreInv => StoredIsWhole
  BY StoreIsWhole
<1> QED BY <1>1, <1>2, <1>3, PTL DEF Spec

-----------------------------------------------------------------------------
(* What the steps do to the stream *)

\* The engine's next item enters the queue, and the one after it is next.
LEMMA AppendInSequence ==
  ASSUME NEW l, NEW S, NEW T, NEW n \in Nat,
         \A k \in 0 .. n : T[k] = S[k], IsItem(S[n]), T[n + 1].rq = S[n].rq, ~Start(T[n + 1]),
         Follows(l, S[n], T[n + 1]), InSequence(l, S, n)
  PROVE  /\ InSequence(l, T, n + 1)
         /\ ItemsOf(T, n + 1) \subseteq ItemsOf(S, n) \cup {T[n + 1]}
         /\ S[n] \in ItemsOf(S, n)
         /\ FirstOf(T, n + 1) \subseteq FirstOf(S, n)
<1>1. S[n] \in ItemsOf(S, n) /\ T[n] = S[n] /\ n \in 0 .. n
  BY DEF ItemsOf
<1>2. ItemsOf(T, n + 1) \subseteq ItemsOf(S, n) \cup {T[n + 1]}
  <2> SUFFICES ASSUME NEW k \in 0 .. n + 1, IsItem(T[k]), k # n + 1 PROVE T[k] \in ItemsOf(S, n)
    BY DEF ItemsOf
  <2>1. k \in 0 .. n /\ T[k] = S[k]
    OBVIOUS
  <2> QED BY <2>1 DEF ItemsOf
<1>3. FirstOf(T, n + 1) \subseteq FirstOf(S, n)
  <2> SUFFICES ASSUME NEW k \in 0 .. n + 1, IsItem(T[k]), NoItem(T, 0, k - 1) PROVE T[k] \in FirstOf(S, n)
    BY DEF FirstOf
  <2>1. k # n + 1
    <3> SUFFICES ASSUME k = n + 1 PROVE FALSE
      OBVIOUS
    <3>1. n \in 0 .. k - 1
      OBVIOUS
    <3> QED BY <1>1, <3>1 DEF NoItem
  <2>2. k \in 0 .. n /\ T[k] = S[k]
    BY <2>1
  <2>3. NoItem(S, 0, k - 1)
    <3> SUFFICES ASSUME NEW i \in 0 .. k - 1 PROVE ~IsItem(S[i])
      BY DEF NoItem
    <3>1. T[i] = S[i]
      BY <2>2
    <3> QED BY <3>1 DEF NoItem
  <2> QED BY <2>2, <2>3 DEF FirstOf
<1>4. InSequence(l, T, n + 1)
  <2> SUFFICES ASSUME NEW k \in 0 .. n + 1, NEW j \in 0 .. k - 1, IsItem(T[j]), IsItem(T[k])
               PROVE  /\ Later(T[j].rq, T[k])
                      /\ NoItem(T, j + 1, k - 1) => Follows(l, T[j], T[k])
    BY DEF InSequence
  <2>1. j \in 0 .. n /\ T[j] = S[j]
    OBVIOUS
  <2>2. CASE k \in 0 .. n
    <3>1. T[k] = S[k]
      BY <2>2
    <3>2. NoItem(T, j + 1, k - 1) => NoItem(S, j + 1, k - 1)
      <4> SUFFICES ASSUME NoItem(T, j + 1, k - 1), NEW i \in j + 1 .. k - 1 PROVE ~IsItem(S[i])
        BY DEF NoItem
      <4>1. T[i] = S[i]
        BY <2>1, <2>2
      <4> QED BY <4>1 DEF NoItem
    <3> QED BY <2>1, <2>2, <3>1, <3>2 DEF InSequence
  <2>3. CASE k = n + 1 /\ j = n
    <3>1. Later(T[j].rq, T[k])
      BY <1>1, <2>3 DEF Later
    <3> QED BY <1>1, <2>3, <3>1
  <2>4. CASE k = n + 1 /\ j # n
    <3>1. j \in 0 .. n - 1 /\ n \in j + 1 .. k - 1
      BY <2>4
    <3>2. ~NoItem(T, j + 1, k - 1)
      BY <1>1, <3>1 DEF NoItem
    <3>3. Later(S[j].rq, S[n])
      BY <1>1, <2>1, <3>1 DEF InSequence
    <3>4. Later(T[j].rq, T[k])
      BY <2>1, <2>4, <3>3 DEF Later
    <3> QED BY <3>2, <3>4
  <2> QED BY <2>2, <2>3, <2>4
<1> QED BY <1>1, <1>2, <1>3, <1>4

\* The head of the queue moves into the worker's empty hand.
LEMMA ShiftInSequence ==
  ASSUME NEW l, NEW S, NEW T, NEW n \in Nat, \A k \in 0 .. n : T[k] = S[k + 1], ~IsItem(S[0]),
         InSequence(l, S, n + 1)
  PROVE  /\ InSequence(l, T, n)
         /\ ItemsOf(T, n) \subseteq ItemsOf(S, n + 1)
         /\ FirstOf(T, n) \subseteq FirstOf(S, n + 1)
<1>1. ASSUME NEW lo \in 0 .. n + 1, NEW hi \in Int, hi <= n, NoItem(T, lo, hi) PROVE NoItem(S, lo + 1, hi + 1)
  <2> SUFFICES ASSUME NEW i \in lo + 1 .. hi + 1 PROVE ~IsItem(S[i])
    BY DEF NoItem
  <2>1. i - 1 \in lo .. hi /\ i - 1 \in 0 .. n /\ (i - 1) + 1 = i
    BY <1>1
  <2>2. T[i - 1] = S[i]
    BY <2>1
  <2> QED BY <1>1, <2>1, <2>2 DEF NoItem
<1>2. ItemsOf(T, n) \subseteq ItemsOf(S, n + 1)
  <2> SUFFICES ASSUME NEW k \in 0 .. n, IsItem(T[k]) PROVE T[k] \in ItemsOf(S, n + 1)
    BY DEF ItemsOf
  <2>1. k + 1 \in 0 .. n + 1 /\ T[k] = S[k + 1]
    OBVIOUS
  <2> QED BY <2>1 DEF ItemsOf
<1>3. FirstOf(T, n) \subseteq FirstOf(S, n + 1)
  <2> SUFFICES ASSUME NEW k \in 0 .. n, IsItem(T[k]), NoItem(T, 0, k - 1) PROVE T[k] \in FirstOf(S, n + 1)
    BY DEF FirstOf
  <2>1. k + 1 \in 0 .. n + 1 /\ T[k] = S[k + 1] /\ k - 1 \in Int /\ k - 1 <= n /\ (k - 1) + 1 = (k + 1) - 1
    OBVIOUS
  <2>2. NoItem(S, 0 + 1, (k - 1) + 1)
    BY <1>1, <2>1
  <2>3. NoItem(S, 0, (k + 1) - 1)
    <3> SUFFICES ASSUME NEW i \in 0 .. (k + 1) - 1 PROVE ~IsItem(S[i])
      BY DEF NoItem
    <3>1. CASE i = 0
      BY <3>1
    <3>2. CASE i # 0
      <4>1. i \in 0 + 1 .. (k - 1) + 1
        BY <3>2
      <4> QED BY <2>2, <4>1 DEF NoItem
    <3> QED BY <3>1, <3>2
  <2> QED BY <2>1, <2>3 DEF FirstOf
<1>4. InSequence(l, T, n)
  <2> SUFFICES ASSUME NEW k \in 0 .. n, NEW j \in 0 .. k - 1, IsItem(T[j]), IsItem(T[k])
               PROVE  /\ Later(T[j].rq, T[k])
                      /\ NoItem(T, j + 1, k - 1) => Follows(l, T[j], T[k])
    BY DEF InSequence
  <2>1. /\ k + 1 \in 0 .. n + 1 /\ T[k] = S[k + 1] /\ j \in 0 .. n /\ T[j] = S[j + 1]
        /\ j + 1 \in 0 .. (k + 1) - 1 /\ j + 1 \in 0 .. n + 1 /\ k - 1 \in Int /\ k - 1 <= n
        /\ (k - 1) + 1 = (k + 1) - 1
    OBVIOUS
  <2>2. NoItem(T, j + 1, k - 1) => NoItem(S, (j + 1) + 1, (k + 1) - 1)
    BY <1>1, <2>1
  <2> QED BY <2>1, <2>2 DEF InSequence
<1> QED BY <1>2, <1>3, <1>4

\* A sentinel enters the queue before the engine's next item.
LEMMA InsertInSequence ==
  ASSUME NEW l, NEW S, NEW T, NEW n \in Nat, \A k \in 0 .. n - 1 : T[k] = S[k],
         ~IsItem(T[n]), T[n + 1] = S[n], InSequence(l, S, n)
  PROVE  /\ InSequence(l, T, n + 1)
         /\ ItemsOf(T, n + 1) \subseteq ItemsOf(S, n)
         /\ FirstOf(T, n + 1) \subseteq FirstOf(S, n)
<1> DEFINE p(k) == IF k = n + 1 THEN n ELSE k
<1>1. ASSUME NEW k \in 0 .. n + 1, IsItem(T[k]) PROVE p(k) \in 0 .. n /\ T[k] = S[p(k)] /\ (k = n + 1 \/ k \in 0 .. n - 1)
  <2>1. k # n
    BY <1>1
  <2> QED BY <2>1
<1>2. ASSUME NEW k \in 0 .. n + 1, IsItem(T[k]), NEW lo \in Nat, NoItem(T, lo, k - 1) PROVE NoItem(S, lo, p(k) - 1)
  <2> SUFFICES ASSUME NEW i \in lo .. p(k) - 1 PROVE ~IsItem(S[i])
    BY DEF NoItem
  <2>1. i \in 0 .. n - 1 /\ i \in lo .. k - 1
    BY <1>1, <1>2
  <2>2. T[i] = S[i]
    BY <2>1
  <2> QED BY <1>2, <2>1, <2>2 DEF NoItem
<1> HIDE DEF p
<1>3. ItemsOf(T, n + 1) \subseteq ItemsOf(S, n)
  BY <1>1 DEF ItemsOf
<1>4. FirstOf(T, n + 1) \subseteq FirstOf(S, n)
  <2> SUFFICES ASSUME NEW k \in 0 .. n + 1, IsItem(T[k]), NoItem(T, 0, k - 1) PROVE T[k] \in FirstOf(S, n)
    BY DEF FirstOf
  <2>1. NoItem(S, 0, p(k) - 1)
    BY <1>2
  <2> QED BY <1>1, <2>1 DEF FirstOf
<1>5. InSequence(l, T, n + 1)
  <2> SUFFICES ASSUME NEW k \in 0 .. n + 1, NEW j \in 0 .. k - 1, IsItem(T[j]), IsItem(T[k])
               PROVE  /\ Later(T[j].rq, T[k])
                      /\ NoItem(T, j + 1, k - 1) => Follows(l, T[j], T[k])
    BY DEF InSequence
  <2>1. j \in 0 .. n + 1 /\ j + 1 \in Nat
    OBVIOUS
  <2>2. j \in 0 .. n - 1 /\ p(j) = j
    BY <1>1, <2>1 DEF p
  <2>3. p(k) \in 0 .. n /\ T[k] = S[p(k)] /\ T[j] = S[j]
    BY <1>1, <2>2
  <2>4. j \in 0 .. p(k) - 1
    BY <1>1, <2>2 DEF p
  <2>5. NoItem(T, j + 1, k - 1) => NoItem(S, j + 1, p(k) - 1)
    BY <1>2, <2>1
  <2> QED BY <2>3, <2>4, <2>5 DEF InSequence
<1> QED BY <1>3, <1>4, <1>5

\* The worker has done with what was in its hand.
LEMMA EmptyInSequence ==
  ASSUME NEW l, NEW S, NEW T, NEW n \in Nat, \A k \in 1 .. n : T[k] = S[k], ~IsItem(T[0]),
         InSequence(l, S, n)
  PROVE  /\ InSequence(l, T, n)
         /\ ItemsOf(T, n) \subseteq ItemsOf(S, n)
         /\ ~IsItem(S[0]) => FirstOf(T, n) \subseteq FirstOf(S, n)
         /\ IsItem(S[0]) => /\ S[0] \in FirstOf(S, n) /\ S[0] \in ItemsOf(S, n)
                            /\ \A y \in FirstOf(T, n) : Follows(l, S[0], y)
                            /\ \A y \in ItemsOf(T, n) : Later(S[0].rq, y)
<1>1. ASSUME NEW k \in 0 .. n, IsItem(T[k]) PROVE k \in 1 .. n /\ T[k] = S[k]
  <2>1. k # 0
    BY <1>1
  <2> QED BY <2>1
<1>2. ASSUME NEW k \in 1 .. n, NEW lo \in 1 .. n + 1, NoItem(T, lo, k - 1) PROVE NoItem(S, lo, k - 1)
  <2> SUFFICES ASSUME NEW i \in lo .. k - 1 PROVE ~IsItem(S[i])
    BY DEF NoItem
  <2>1. i \in 1 .. n
    OBVIOUS
  <2>2. T[i] = S[i]
    BY <2>1
  <2> QED BY <1>2, <2>2 DEF NoItem
<1>3. ItemsOf(T, n) \subseteq ItemsOf(S, n)
  BY <1>1 DEF ItemsOf
<1>4. InSequence(l, T, n)
  <2> SUFFICES ASSUME NEW k \in 0 .. n, NEW j \in 0 .. k - 1, IsItem(T[j]), IsItem(T[k])
               PROVE  /\ Later(T[j].rq, T[k])
                      /\ NoItem(T, j + 1, k - 1) => Follows(l, T[j], T[k])
    BY DEF InSequence
  <2>1. j \in 0 .. n
    OBVIOUS
  <2>2. j \in 1 .. n /\ k \in 1 .. n /\ T[j] = S[j] /\ T[k] = S[k] /\ j + 1 \in 1 .. n + 1
    BY <1>1, <2>1
  <2>3. NoItem(T, j + 1, k - 1) => NoItem(S, j + 1, k - 1)
    BY <1>2, <2>2
  <2> QED BY <2>2, <2>3 DEF InSequence
<1>5. ASSUME NEW k \in 0 .. n, IsItem(T[k]), NoItem(T, 0, k - 1)
      PROVE  /\ k \in 1 .. n /\ T[k] = S[k] /\ NoItem(S, 1, k - 1)
  <2>1. k \in 1 .. n /\ T[k] = S[k]
    BY <1>1, <1>5
  <2>2. NoItem(T, 1, k - 1)
    BY <1>5 DEF NoItem
  <2>3. 1 \in 1 .. n + 1
    OBVIOUS
  <2> QED BY <1>2, <2>1, <2>2, <2>3
<1>6. ASSUME ~IsItem(S[0]) PROVE FirstOf(T, n) \subseteq FirstOf(S, n)
  <2> SUFFICES ASSUME NEW k \in 0 .. n, IsItem(T[k]), NoItem(T, 0, k - 1) PROVE T[k] \in FirstOf(S, n)
    BY DEF FirstOf
  <2>1. k \in 1 .. n /\ T[k] = S[k] /\ NoItem(S, 1, k - 1)
    BY <1>5
  <2>2. NoItem(S, 0, k - 1)
    <3> SUFFICES ASSUME NEW i \in 0 .. k - 1, i # 0 PROVE ~IsItem(S[i])
      BY <1>6 DEF NoItem
    <3>1. i \in 1 .. k - 1
      OBVIOUS
    <3> QED BY <2>1, <3>1 DEF NoItem
  <2> QED BY <2>1, <2>2 DEF FirstOf
<1>7. ASSUME IsItem(S[0])
      PROVE  /\ S[0] \in FirstOf(S, n) /\ S[0] \in ItemsOf(S, n)
             /\ \A y \in FirstOf(T, n) : Follows(l, S[0], y)
             /\ \A y \in ItemsOf(T, n) : Later(S[0].rq, y)
  <2>1. 0 \in 0 .. n /\ NoItem(S, 0, 0 - 1)
    BY DEF NoItem
  <2>2. S[0] \in FirstOf(S, n) /\ S[0] \in ItemsOf(S, n)
    BY <1>7, <2>1 DEF FirstOf, ItemsOf
  <2>3. ASSUME NEW k \in 0 .. n, IsItem(T[k]), NoItem(T, 0, k - 1) PROVE Follows(l, S[0], T[k])
    <3>1. k \in 1 .. n /\ T[k] = S[k] /\ NoItem(S, 0 + 1, k - 1)
      BY <1>5, <2>3
    <3>2. 0 \in 0 .. k - 1 /\ k \in 0 .. n
      BY <3>1
    <3> QED BY <1>7, <2>3, <3>1, <3>2 DEF InSequence
  <2>4. ASSUME NEW k \in 0 .. n, IsItem(T[k]) PROVE Later(S[0].rq, T[k])
    <3>1. k \in 1 .. n /\ T[k] = S[k]
      BY <1>1, <2>4
    <3>2. 0 \in 0 .. k - 1 /\ k \in 0 .. n
      BY <3>1
    <3> QED BY <1>7, <2>4, <3>1, <3>2 DEF InSequence
  <2> QED BY <2>2, <2>3, <2>4 DEF FirstOf, ItemsOf
<1> QED BY <1>3, <1>4, <1>6, <1>7

\* The engine has run a prompt to its end and turns to the next, at its first item.
LEMMA ReturnInSequence ==
  ASSUME NEW l, NEW S, NEW T, NEW n \in Nat, \A k \in 0 .. n - 1 : T[k] = S[k],
         IsItem(S[n]), IsItem(T[n]), NEW r \in Nat, S[n].rq = r, T[n].rq = r + 1, Start(T[n]),
         S[n].li = 0, S[n].at = l[r], l[r] \in Nat, l[r] # 0,
         \A k \in 0 .. n - 1 : IsItem(S[k]) => S[k].rq \in Nat /\ S[k].at \in Nat /\ S[k].li \in Nat,
         InSequence(l, S, n)
  PROVE  /\ InSequence(l, T, n)
         /\ ItemsOf(T, n) \subseteq ItemsOf(S, n) \cup {T[n]}
         /\ S[n] \in ItemsOf(S, n)
         /\ \A y \in FirstOf(T, n) : y \in FirstOf(S, n) \/ (y = T[n] /\ S[n] \in FirstOf(S, n))
<1>1. S[n] \in ItemsOf(S, n) /\ ItemsOf(T, n) \subseteq ItemsOf(S, n) \cup {T[n]}
  <2>1. S[n] \in ItemsOf(S, n)
    BY DEF ItemsOf
  <2> SUFFICES ASSUME NEW k \in 0 .. n, IsItem(T[k]), k # n PROVE T[k] \in ItemsOf(S, n)
    BY <2>1 DEF ItemsOf
  <2>2. T[k] = S[k]
    OBVIOUS
  <2> QED BY <2>2 DEF ItemsOf
<1>2. ASSUME NEW k \in 0 .. n, NEW lo \in Nat, NoItem(T, lo, k - 1) PROVE NoItem(S, lo, k - 1)
  <2> SUFFICES ASSUME NEW i \in lo .. k - 1 PROVE ~IsItem(S[i])
    BY DEF NoItem
  <2>1. T[i] = S[i]
    OBVIOUS
  <2> QED BY <1>2, <2>1 DEF NoItem
<1>3. ASSUME NEW y \in FirstOf(T, n) PROVE y \in FirstOf(S, n) \/ (y = T[n] /\ S[n] \in FirstOf(S, n))
  <2>1. PICK k \in 0 .. n : IsItem(T[k]) /\ NoItem(T, 0, k - 1) /\ y = T[k]
    BY <1>3 DEF FirstOf
  <2>2. NoItem(S, 0, k - 1)
    BY <1>2, <2>1
  <2>3. CASE k = n
    BY <2>1, <2>2, <2>3 DEF FirstOf
  <2>4. CASE k # n
    <3>1. T[k] = S[k]
      BY <2>4
    <3> QED BY <2>1, <2>2, <3>1 DEF FirstOf
  <2> QED BY <2>3, <2>4
<1>4. InSequence(l, T, n)
  <2> SUFFICES ASSUME NEW k \in 0 .. n, NEW j \in 0 .. k - 1, IsItem(T[j]), IsItem(T[k])
               PROVE  /\ Later(T[j].rq, T[k])
                      /\ NoItem(T, j + 1, k - 1) => Follows(l, T[j], T[k])
    BY DEF InSequence
  <2>1. j \in 0 .. n - 1 /\ T[j] = S[j] /\ j + 1 \in Nat
    OBVIOUS
  <2>2. NoItem(T, j + 1, k - 1) => NoItem(S, j + 1, k - 1)
    BY <1>2, <2>1
  <2>3. CASE k # n
    <3>1. T[k] = S[k]
      BY <2>3
    <3> QED BY <2>1, <2>2, <3>1 DEF InSequence
  <2>4. CASE k = n
    <3>1. /\ Later(S[j].rq, S[n]) /\ S[j].rq \in Nat /\ S[j].at \in Nat /\ S[j].li \in Nat
          /\ NoItem(S, j + 1, k - 1) => Follows(l, S[j], S[n])
      BY <2>1, <2>4 DEF InSequence
    <3>2. S[j].rq <= r
      BY <3>1 DEF Later
    <3>3. Later(T[j].rq, T[n])
      BY <2>1, <3>1, <3>2 DEF Later
    <3>4. Follows(l, S[j], S[n]) => Follows(l, S[j], T[n])
      <4> SUFFICES ASSUME Follows(l, S[j], S[n]) PROVE Follows(l, S[j], T[n])
        OBVIOUS
      <4>1. S[n].at # 0 /\ S[n].li = 0
        OBVIOUS
      <4>2. S[n].rq = S[j].rq /\ S[n].at = S[j].at + 1 /\ S[j].li = NL - 1
        BY <3>1, <4>1 DEF Follows, Start
      <4> QED BY <4>2 DEF Follows
    <3> QED BY <2>1, <2>2, <2>4, <3>1, <3>3, <3>4
  <2> QED BY <2>3, <2>4
<1> QED BY <1>1, <1>3, <1>4

\* Only the lengths of prompts that have begun matter.
LEMMA LengthsInSequence ==
  ASSUME NEW l, NEW m, NEW S, NEW n \in Nat, InSequence(l, S, n),
         \A j \in 0 .. n - 1 : IsItem(S[j]) => m[S[j].rq] = l[S[j].rq]
  PROVE  InSequence(m, S, n)
<1> SUFFICES ASSUME NEW k \in 0 .. n, NEW j \in 0 .. k - 1, IsItem(S[j]), IsItem(S[k])
             PROVE  /\ Later(S[j].rq, S[k])
                    /\ NoItem(S, j + 1, k - 1) => Follows(m, S[j], S[k])
  BY DEF InSequence
<1>1. Later(S[j].rq, S[k]) /\ (NoItem(S, j + 1, k - 1) => Follows(l, S[j], S[k]))
  BY DEF InSequence
<1>2. m[S[j].rq] = l[S[j].rq]
  <2>1. j \in 0 .. n - 1
    OBVIOUS
  <2> QED BY <2>1
<1> QED BY <1>1, <1>2 DEF Follows

\* What is in the worker's hand and in the queue has been posted, and the last
\* entry is the engine's.
LEMMA StreamItems ==
  ASSUME TypeInv, KnownPrompts, NEW k \in 0 .. Len(q) + 1, IsItem(Stream[k])
  PROVE  /\ Stream[k].rq \in Nat /\ Stream[k].at \in Nat /\ Stream[k].li \in Layers /\ Stream[k].li \in Nat
         /\ k # Len(q) + 1 => Stream[k] \in BoundedItem /\ Stream[k].rq \in 1 .. nreq
         /\ k = Len(q) + 1 => Stream[k].rq = served + 1 /\ Stream[k].at = at /\ Stream[k].li = lay
<1> USE HookAssumption, BridgeAssumption
<1>1. /\ q \in Seq(BoundedItem \cup Sentinel) /\ Len(q) \in Nat /\ nreq \in Nat /\ served \in Nat
      /\ hand \in BoundedItem \cup Sentinel \cup {Nothing} /\ at \in Nat /\ lay \in Layers
  BY DEF TypeInv, HookInv, EngineInv, BridgeAssumption
<1>2. \A li \in Layers : li \in Nat
  BY DEF Layers, HookAssumption
<1>3. CASE k = Len(q) + 1
  <2>1. Stream[k] = [kind |-> "item", rq |-> served + 1, at |-> at, li |-> lay, ev |-> rec + 1]
    BY <1>1, <1>3 DEF Stream
  <2>2. Stream[k].rq = served + 1 /\ Stream[k].at = at /\ Stream[k].li = lay
    BY <2>1
  <2> QED BY <1>1, <1>2, <1>3, <2>2
<1>4. CASE k # Len(q) + 1
  <2>1. Stream[k] \in BoundedItem /\ Stream[k].rq <= nreq
    <3>1. CASE k = 0
      <4>1. Stream[k] = hand
        BY <1>1, <3>1 DEF Stream
      <4> QED BY <1>1, <4>1 DEF IsItem, Nothing, Sentinel, KnownPrompts
    <3>2. CASE k # 0
      <4>1. k \in DOMAIN q /\ Stream[k] = q[k]
        BY <1>1, <1>4, <3>2 DEF Stream
      <4> QED BY <1>1, <4>1 DEF IsItem, Sentinel, KnownPrompts
    <3> QED BY <3>1, <3>2
  <2>2. Stream[k].rq \in Nat /\ Stream[k].rq >= 1 /\ Stream[k].at \in Nat /\ Stream[k].li \in Layers
    BY <2>1 DEF BoundedItem, BridgeAssumption
  <2> QED BY <1>1, <1>2, <1>4, <2>1, <2>2
<1> QED BY <1>3, <1>4

\* The worker takes the head of the queue in hand.
LEMMA GetOrder ==
  ASSUME TypeInv, OrderInv, WorkerGet, UNCHANGED engineVars
  PROVE  /\ InSequence(len', Stream', Len(q') + 1)
         /\ Awaited' \subseteq Awaited /\ Coming' \subseteq Coming
<1> DEFINE S == Stream
           T == Stream'
           n == Len(q)
<1>1. /\ q \in Seq(BoundedItem \cup Sentinel) /\ q # <<>> /\ hand = Nothing
      /\ hand' = Head(q) /\ q' = Tail(q) /\ UNCHANGED <<rec, caps, req>> /\ len' = len
  BY DEF TypeInv, HookInv, WorkerGet, engineVars
<1>2. n \in Nat /\ n >= 1 /\ Len(q') = n - 1 /\ \A k \in 1 .. n - 1 : q'[k] = q[k + 1]
  BY <1>1
<1>3. \A k \in 0 .. n : T[k] = S[k + 1]
  <2> SUFFICES ASSUME NEW k \in 0 .. n PROVE T[k] = S[k + 1]
    OBVIOUS
  <2>1. CASE k = 0
    BY <1>1, <1>2, <2>1 DEF Stream
  <2>2. CASE k \in 1 .. n - 1
    BY <1>1, <1>2, <2>2 DEF Stream
  <2>3. CASE k = n
    BY <1>1, <1>2, <2>3 DEF Stream, engineVars
  <2> QED BY <1>2, <2>1, <2>2, <2>3
<1>4. ~IsItem(S[0])
  BY <1>1, <1>2 DEF Stream, IsItem, Nothing
<1>5. Len(q) + 1 = n + 1 /\ Len(q') + 1 = n
  BY <1>2
<1> HIDE DEF S, T, n
<1>6. InSequence(len, S, n + 1)
  BY <1>5 DEF OrderInv, S
<1>7. InSequence(len, T, n) /\ ItemsOf(T, n) \subseteq ItemsOf(S, n + 1) /\ FirstOf(T, n) \subseteq FirstOf(S, n + 1)
  BY <1>2, <1>3, <1>4, <1>6, ShiftInSequence
<1>8. /\ Awaited' = ItemsOf(T, n) /\ Awaited = ItemsOf(S, n + 1)
      /\ Coming' = FirstOf(T, n) /\ Coming = FirstOf(S, n + 1)
  BY <1>5 DEF Awaited, Coming, S, T
<1> QED BY <1>1, <1>5, <1>7, <1>8 DEF T

\* The worker is done with what it had in hand.
LEMMA DoneOrder ==
  ASSUME TypeInv, OrderInv, hand' = Nothing, UNCHANGED <<rec, q>>, UNCHANGED engineVars
  PROVE  /\ InSequence(len', Stream', Len(q') + 1)
         /\ Awaited' \subseteq Awaited
         /\ ~IsItem(hand) => Coming' \subseteq Coming
         /\ IsItem(hand) => /\ hand \in Coming /\ hand \in Awaited
                            /\ \A y \in Coming' : Follows(len, hand, y)
                            /\ \A y \in Awaited' : Later(hand.rq, y)
<1> DEFINE S == Stream
           T == Stream'
           n == Len(q) + 1
<1>1. n \in Nat /\ Len(q') + 1 = n /\ len' = len
  BY DEF TypeInv, HookInv, engineVars
<1>2. \A k \in 1 .. n : T[k] = S[k]
  BY DEF Stream, engineVars, TypeInv, HookInv
<1>3. ~IsItem(T[0]) /\ S[0] = hand
  BY <1>1 DEF Stream, IsItem, Nothing
<1> HIDE DEF S, T, n
<1>4. InSequence(len, S, n)
  BY DEF OrderInv, S, n
<1>5. /\ Awaited' = ItemsOf(T, n) /\ Awaited = ItemsOf(S, n)
      /\ Coming' = FirstOf(T, n) /\ Coming = FirstOf(S, n)
      /\ InSequence(len', Stream', Len(q') + 1) = InSequence(len, T, n)
  BY <1>1 DEF Awaited, Coming, S, T, n
<1>6. /\ InSequence(len, T, n)
      /\ ItemsOf(T, n) \subseteq ItemsOf(S, n)
      /\ ~IsItem(S[0]) => FirstOf(T, n) \subseteq FirstOf(S, n)
      /\ IsItem(S[0]) => /\ S[0] \in FirstOf(S, n) /\ S[0] \in ItemsOf(S, n)
                         /\ \A y \in FirstOf(T, n) : Follows(len, S[0], y)
                         /\ \A y \in ItemsOf(T, n) : Later(S[0].rq, y)
  BY <1>1, <1>2, <1>3, <1>4, EmptyInSequence
<1> QED BY <1>3, <1>5, <1>6

\* The watcher queues a sentinel, behind every item queued so far.
LEMMA PutOrder ==
  ASSUME TypeInv, OrderInv, WatchPut, UNCHANGED engineVars
  PROVE  /\ InSequence(len', Stream', Len(q') + 1)
         /\ Awaited' \subseteq Awaited /\ Coming' \subseteq Coming
<1> DEFINE S == Stream
           T == Stream'
           n == Len(q) + 1
           mark == [kind |-> "flush", reason |-> fire]
<1>1. /\ q \in Seq(BoundedItem \cup Sentinel) /\ q' = Append(q, mark)
      /\ UNCHANGED <<rec, hand, caps, req>> /\ UNCHANGED <<len, served, at, lay>>
  BY DEF TypeInv, HookInv, WatchPut, engineVars
<1>2. /\ n \in Nat /\ n >= 1 /\ Len(q') = n /\ q'[n] = mark
      /\ \A k \in 1 .. n - 1 : q'[k] = q[k]
  BY <1>1
<1>3. \A k \in 0 .. n - 1 : T[k] = S[k]
  BY <1>1, <1>2 DEF Stream
<1>4. ~IsItem(T[n])
  <2>1. T[n] = q'[n]
    BY <1>2 DEF Stream
  <2> QED BY <1>2, <2>1 DEF IsItem
<1>5. T[n + 1] = S[n]
  BY <1>1, <1>2 DEF Stream
<1> HIDE DEF S, T, n, mark
<1>6. InSequence(len, S, n)
  BY DEF OrderInv, S, n
<1>7. /\ InSequence(len, T, n + 1) /\ ItemsOf(T, n + 1) \subseteq ItemsOf(S, n)
      /\ FirstOf(T, n + 1) \subseteq FirstOf(S, n)
  BY <1>2, <1>3, <1>4, <1>5, <1>6, InsertInSequence
<1>8. /\ Awaited' = ItemsOf(T, n + 1) /\ Awaited = ItemsOf(S, n)
      /\ Coming' = FirstOf(T, n + 1) /\ Coming = FirstOf(S, n)
      /\ InSequence(len', Stream', Len(q') + 1) = InSequence(len, T, n + 1)
  BY <1>1, <1>2 DEF Awaited, Coming, S, T, n
<1> QED BY <1>7, <1>8

\* A step that the hook has nothing to see of.
LEMMA SameOrder ==
  ASSUME TypeInv, KnownPrompts, OrderInv, UNCHANGED <<rec, q, hand, served, at, lay>>,
         \A r \in 1 .. nreq : len'[r] = len[r]
  PROVE  InSequence(len', Stream', Len(q') + 1) /\ Awaited' = Awaited /\ Coming' = Coming
<1> DEFINE S == Stream
           n == Len(q) + 1
           m == len'
<1>1. Stream' = S /\ Len(q') + 1 = n /\ n \in Nat
  BY DEF Stream, TypeInv, HookInv
<1>2. InSequence(len, S, n)
  BY DEF OrderInv
<1>3. \A j \in 0 .. n - 1 : IsItem(S[j]) => m[S[j].rq] = len[S[j].rq]
  <2> SUFFICES ASSUME NEW j \in 0 .. n - 1, IsItem(S[j]) PROVE m[S[j].rq] = len[S[j].rq]
    OBVIOUS
  <2>1. j \in 0 .. Len(q) + 1 /\ j # Len(q) + 1
    BY <1>1
  <2>2. S[j].rq \in 1 .. nreq
    BY <2>1, StreamItems
  <2> HIDE DEF S
  <2> QED BY <2>2
<1> HIDE DEF S, n, m
<1>4. InSequence(m, S, n)
  BY <1>1, <1>2, <1>3, LengthsInSequence
<1> QED BY <1>1, <1>4 DEF S, n, m, Awaited, Coming

\* The forward thread records the engine's next item.
LEMMA ForwardOrder ==
  ASSUME TypeInv, EngineOrder, OrderInv, EngineForward
  PROVE  /\ InSequence(len', Stream', Len(q') + 1)
         /\ Coming' \subseteq Coming
         /\ \A y \in Awaited' : y \in Awaited \/ (y.rq = served + 1 /\ ~Start(y))
         /\ \E x \in Awaited : x.rq = served + 1
<1> USE HookAssumption, BridgeAssumption
<1> DEFINE S == Stream
           T == Stream'
           n == Len(q) + 1
           item == [kind |-> "item", rq |-> served + 1, at |-> at, li |-> lay, ev |-> rec + 1]
<1>1. /\ q \in Seq(BoundedItem \cup Sentinel) /\ q' = Append(q, item)
      /\ UNCHANGED <<hand, caps, req, served, nreq, len>>
  BY DEF TypeInv, HookInv, EngineForward, Record
<1>2. n \in Nat /\ n >= 1 /\ Len(q') = n /\ q'[n] = item /\ \A k \in 1 .. n - 1 : q'[k] = q[k]
  BY <1>1
<1>3. S[n] = item
  BY <1>2 DEF Stream
<1>4. \A k \in 0 .. n : T[k] = S[k]
  <2> SUFFICES ASSUME NEW k \in 0 .. n PROVE T[k] = S[k]
    OBVIOUS
  <2>1. CASE k = n
    <3>1. T[n] = q'[n]
      BY <1>2 DEF Stream
    <3> QED BY <1>2, <1>3, <2>1, <3>1
  <2>2. CASE k # n
    BY <1>1, <1>2, <2>2 DEF Stream
  <2> QED BY <2>1, <2>2
<1>5. T[n + 1] = [kind |-> "item", rq |-> served + 1, at |-> at', li |-> lay', ev |-> rec' + 1]
  BY <1>1, <1>2 DEF Stream
<1>6. IsItem(S[n]) /\ S[n].rq = served + 1 /\ S[n].at = at /\ S[n].li = lay
  BY <1>3 DEF IsItem
<1>7. T[n + 1].rq = served + 1 /\ T[n + 1].at = at' /\ T[n + 1].li = lay'
  BY <1>5
<1>8. /\ at \in Nat /\ lay \in Nat /\ NL \in Nat
      /\ \/ lay = NL - 1 /\ at' = at + 1 /\ lay' = 0
         \/ lay # NL - 1 /\ at' = at /\ lay' = lay + 1
  BY DEF TypeInv, EngineInv, EngineForward, BridgeAssumption, HookAssumption, Layers
<1>9. ~Start(T[n + 1]) /\ Follows(len, S[n], T[n + 1])
  BY <1>6, <1>7, <1>8 DEF Start, Follows
<1> HIDE DEF S, T, n, item
<1>10. InSequence(len, S, n)
  BY DEF OrderInv, S, n
<1>11. /\ InSequence(len, T, n + 1)
       /\ ItemsOf(T, n + 1) \subseteq ItemsOf(S, n) \cup {T[n + 1]}
       /\ S[n] \in ItemsOf(S, n)
       /\ FirstOf(T, n + 1) \subseteq FirstOf(S, n)
  BY <1>2, <1>4, <1>6, <1>7, <1>9, <1>10, AppendInSequence
<1>12. /\ Awaited' = ItemsOf(T, n + 1) /\ Awaited = ItemsOf(S, n)
       /\ Coming' = FirstOf(T, n + 1) /\ Coming = FirstOf(S, n)
       /\ InSequence(len', Stream', Len(q') + 1) = InSequence(len, T, n + 1)
  BY <1>1, <1>2 DEF Awaited, Coming, S, T, n
<1> QED BY <1>6, <1>7, <1>9, <1>11, <1>12

\* The engine turns to the next prompt.
LEMMA ReturnOrder ==
  ASSUME TypeInv, KnownPrompts, EngineOrder, OrderInv, EngineReturn
  PROVE  /\ InSequence(len', Stream', Len(q') + 1)
         /\ \A y \in Coming' :
              \/ y \in Coming
              \/ /\ y.rq = served + 2 /\ Start(y)
                 /\ \E x \in Coming : x.rq = served + 1 /\ x.at = len[served + 1] /\ x.li = 0
         /\ \A y \in Awaited' : y \in Awaited \/ (y.rq = served + 2 /\ Start(y))
         /\ \E x \in Awaited : x.rq = served + 1
<1> USE HookAssumption, BridgeAssumption
<1> DEFINE S == Stream
           T == Stream'
           n == Len(q) + 1
           r == served + 1
<1>1. /\ q \in Seq(BoundedItem \cup Sentinel) /\ UNCHANGED <<q, hand, caps, req, len, nreq, lay, rec>>
      /\ served' = served + 1 /\ at' = 0 /\ at = len[served + 1] /\ served # nreq
      /\ served \in 0 .. nreq /\ nreq \in Nat /\ at \in Nat
  BY DEF TypeInv, HookInv, EngineInv, EngineReturn, EngineFree, hookVars, BridgeAssumption
<1>2. n \in Nat /\ n >= 1 /\ Len(q') + 1 = n /\ r \in 1 .. nreq /\ r \in Nat
  BY <1>1
<1>3. lay = 0 /\ len[r] \in Nat /\ len[r] # 0 /\ len[r] = at
  <2>1. len[r] >= 1 /\ r \in Requests
    BY <1>2 DEF EngineOrder, TypeInv, EngineInv, BridgeAssumption
  <2> QED BY <1>1, <1>2, <2>1 DEF EngineOrder
<1>4. S[n] = [kind |-> "item", rq |-> r, at |-> at, li |-> lay, ev |-> rec + 1]
  BY <1>2 DEF Stream
<1>5. T[n] = [kind |-> "item", rq |-> r + 1, at |-> 0, li |-> 0, ev |-> rec + 1]
  BY <1>1, <1>2, <1>3 DEF Stream
<1>6. /\ IsItem(S[n]) /\ S[n].rq = r /\ S[n].li = 0 /\ S[n].at = len[r]
      /\ IsItem(T[n]) /\ T[n].rq = r + 1 /\ Start(T[n])
  BY <1>3, <1>4, <1>5 DEF IsItem, Start
<1>7. \A k \in 0 .. n - 1 : T[k] = S[k]
  BY <1>1, <1>2 DEF Stream
<1>8. \A k \in 0 .. n - 1 : IsItem(S[k]) => S[k].rq \in Nat /\ S[k].at \in Nat /\ S[k].li \in Nat
  <2> SUFFICES ASSUME NEW k \in 0 .. n - 1, IsItem(S[k])
               PROVE  S[k].rq \in Nat /\ S[k].at \in Nat /\ S[k].li \in Nat
    OBVIOUS
  <2>1. k \in 0 .. Len(q) + 1
    BY <1>2
  <2> QED BY <2>1, StreamItems
<1> HIDE DEF S, T, n, r
<1>9. InSequence(len, S, n)
  BY DEF OrderInv, S, n
<1>10. /\ InSequence(len, T, n)
       /\ ItemsOf(T, n) \subseteq ItemsOf(S, n) \cup {T[n]}
       /\ S[n] \in ItemsOf(S, n)
       /\ \A y \in FirstOf(T, n) : y \in FirstOf(S, n) \/ (y = T[n] /\ S[n] \in FirstOf(S, n))
  <2>1. /\ n \in Nat /\ r \in Nat /\ IsItem(S[n]) /\ IsItem(T[n]) /\ S[n].rq = r /\ T[n].rq = r + 1
        /\ Start(T[n]) /\ S[n].li = 0 /\ S[n].at = len[r] /\ len[r] \in Nat /\ len[r] # 0
    BY <1>2, <1>3, <1>6
  <2> QED BY ONLY <2>1, <1>7, <1>8, <1>9, ReturnInSequence
<1>11. /\ Awaited' = ItemsOf(T, n) /\ Awaited = ItemsOf(S, n)
       /\ Coming' = FirstOf(T, n) /\ Coming = FirstOf(S, n)
       /\ InSequence(len', Stream', Len(q') + 1) = InSequence(len, T, n)
  BY <1>1, <1>2 DEF Awaited, Coming, S, T, n
<1>12. r = served + 1 /\ r + 1 = served + 2
  BY <1>1 DEF r
<1> QED BY <1>6, <1>10, <1>11, <1>12

\* The engine and the front do not move while the worker ingests or flushes.
LEMMA WorkerAlone ==
  ASSUME TypeInv, [Next]_vars, WorkerIngest \/ WorkerFlush
  PROVE  UNCHANGED engineVars /\ UNCHANGED frontVars
<1>1. hand' # hand
  <2>1. hand' = Nothing /\ hand.kind # "nothing"
    BY DEF WorkerIngest, WorkerFlush, Resolved
  <2>2. Nothing.kind = "nothing"
    BY DEF Nothing
  <2> QED BY <2>1, <2>2
<1>2. CASE UNCHANGED vars
  BY <1>2 DEF vars
<1>3. ASSUME Engine PROVE UNCHANGED hand
  BY <1>3 DEF Engine, DirectSubmit, Submit, EngineForward, Record, EngineReturn, hookVars
<1>4. ASSUME Front PROVE UNCHANGED hand
  BY <1>4 DEF Front, FrontSubmit, Submit, FrontChoose, FrontSignal, FrontGraceOut, FrontGivesUp,
              FrontPull, hookVars
<1> QED BY <1>1, <1>2, <1>3, <1>4 DEF Next, Hook

\* All other steps leave the worker's next item what it was.
LEMMA KeptOrder ==
  ASSUME TypeInv, KnownPrompts, EngineOrder, OrderInv, [Next]_vars, faults' = 0,
         ~WorkerIngest, ~WorkerFlush, ~EngineReturn
  PROVE  /\ InSequence(len', Stream', Len(q') + 1)
         /\ Coming' \subseteq Coming
         /\ UNCHANGED <<caps, req>>
         /\ \A y \in Awaited' : \/ y \in Awaited
                                \/ y.rq = served + 1 /\ ~Start(y) /\ \E x \in Awaited : x.rq = served + 1
<1> USE HookAssumption, BridgeAssumption
<1> DEFINE Goal == /\ InSequence(len', Stream', Len(q') + 1)
                   /\ Coming' \subseteq Coming
                   /\ \A y \in Awaited' :
                        \/ y \in Awaited
                        \/ y.rq = served + 1 /\ ~Start(y) /\ \E x \in Awaited : x.rq = served + 1
<1> SUFFICES Goal
  BY OthersKeepCaps
<1>2. ASSUME UNCHANGED <<rec, q, hand, served, at, lay>>, \A r \in 1 .. nreq : len'[r] = len[r] PROVE Goal
  BY <1>2, SameOrder
<1>3. ASSUME InSequence(len', Stream', Len(q') + 1), Awaited' \subseteq Awaited, Coming' \subseteq Coming PROVE Goal
  BY <1>3
<1>6. CASE EngineForward
  <2>1. /\ InSequence(len', Stream', Len(q') + 1)
        /\ Coming' \subseteq Coming
        /\ \A y \in Awaited' : y \in Awaited \/ (y.rq = served + 1 /\ ~Start(y))
        /\ \E x \in Awaited : x.rq = served + 1
    BY <1>6, ForwardOrder
  <2> QED BY <2>1
<1> HIDE DEF Goal
<1>4. ASSUME NEW n \in 1 .. MaxChunks, Submit(n) PROVE Goal
  <2>1. /\ UNCHANGED <<rec, q, hand, served, at, lay>> /\ nreq \in Nat
        /\ len \in [Requests -> 0 .. MaxChunks] /\ len' = [len EXCEPT ![nreq + 1] = n] /\ nreq <= MaxReq
    BY <1>4 DEF Submit, hookVars, TypeInv, EngineInv, BridgeAssumption
  <2>2. \A r \in 1 .. nreq : len'[r] = len[r]
    BY <2>1 DEF BridgeAssumption
  <2> QED BY <1>2, <2>1, <2>2
<1>5. CASE UNCHANGED vars
  BY <1>2, <1>5 DEF vars, hookVars, engineVars
<1>7. ASSUME Worker \/ WorkerFault, UNCHANGED engineVars PROVE Goal
  <2>1. WorkerGet
    BY <1>7, NoFault DEF TypeInv
  <2> QED BY <1>3, <1>7, <2>1, GetOrder
<1>8. ASSUME GpuStep \/ Watcher \/ IdleElapses, UNCHANGED engineVars PROVE Goal
  <2>1. CASE WatchPut
    BY <1>3, <1>8, <2>1, PutOrder
  <2>2. CASE ~WatchPut
    BY <1>2, <1>8, <2>2 DEF GpuStep, Watcher, WatchStat, WatchDecide, WatchUnlink, IdleElapses, engineVars
  <2> QED BY <2>1, <2>2
<1>9. CASE DirectSubmit
  <2>1. PICK n \in 1 .. MaxChunks : Submit(n)
    BY <1>9 DEF DirectSubmit
  <2> QED BY <1>4, <2>1
<1>10. CASE Front
  <2>1. CASE FrontSubmit
    <3>1. PICK n \in 1 .. MaxChunks : Submit(n)
      BY <2>1 DEF FrontSubmit
    <3> QED BY <1>4, <3>1
  <2>2. CASE ~FrontSubmit
    <3>1. UNCHANGED <<rec, q, hand, served, at, lay>> /\ len' = len
      BY <1>10, <2>2 DEF Front, FrontChoose, FrontSignal, FrontGraceOut, FrontGivesUp, FrontPull,
                         hookVars, engineVars
    <3> QED BY <1>2, <3>1
  <2> QED BY <2>1, <2>2
<1>11. CASE Engine
  BY <1>6, <1>9, <1>11 DEF Engine
<1> QED BY <1>5, <1>7, <1>8, <1>10, <1>11 DEF Next, Hook, IdleMayElapse

\* The order of the items, and that no capture's own prompt is still to start.
LEMMA OrderStep ==
  ASSUME TypeInv, KnownPrompts, EngineOrder, OrderInv, [Next]_vars, faults' = 0
  PROVE  OrderInv'
<1> USE HookAssumption, BridgeAssumption
<1>1. /\ caps \in Seq(BoundedCapture) /\ Len(caps) \in Nat /\ served \in Nat
      /\ \A s \in 1 .. Len(caps) : caps[s].own \in Nat
  <2>1. /\ caps \in Seq(BoundedCapture) /\ Len(caps) \in Nat /\ served \in Nat
    BY DEF TypeInv, HookInv, EngineInv, BridgeAssumption
  <2>2. \A s \in 1 .. Len(caps) : caps[s] \in BoundedCapture
    BY <2>1
  <2> QED BY <2>1, <2>2 DEF BoundedCapture, BridgeAssumption
<1>2. \A s \in 1 .. Len(caps) : \A x \in Awaited : Later(caps[s].own, x)
  BY <1>1 DEF OrderInv
<1>3. ASSUME InSequence(len', Stream', Len(q') + 1),
             \A s \in 1 .. Len(caps') : \A y \in Awaited' : Later(caps'[s].own, y),
             caps' \in Seq(BoundedCapture)
      PROVE  OrderInv'
  BY <1>3 DEF OrderInv
<1>4. CASE WorkerIngest \/ WorkerFlush
  <2>1. /\ HookInv' /\ WorkerEffect /\ UNCHANGED <<rec, q>> /\ hand' = Nothing
    <3>1. HookInv /\ (Worker \/ WorkerFault)
      BY <1>4 DEF Worker, TypeInv
    <3> QED BY <1>4, <3>1, WorkerStep DEF WorkerIngest, WorkerFlush
  <2>2. UNCHANGED engineVars
    BY <1>4, WorkerAlone
  <2>3. /\ InSequence(len', Stream', Len(q') + 1)
        /\ Awaited' \subseteq Awaited
        /\ IsItem(hand) => \A y \in Awaited' : Later(hand.rq, y)
    BY <2>1, <2>2, DoneOrder
  <2>4. caps' \in Seq(BoundedCapture)
    BY <2>1 DEF HookInv
  <2>5. ASSUME NEW s \in 1 .. Len(caps'), NEW y \in Awaited' PROVE Later(caps'[s].own, y)
    <3>1. CASE s <= Len(caps)
      <4>1. s \in 1 .. Len(caps) /\ caps'[s].own = caps[s].own
        BY <1>1, <2>1, <3>1 DEF WorkerEffect, Extends
      <4> QED BY <1>2, <2>3, <4>1
    <3>2. CASE ~(s <= Len(caps))
      <4>1. hand \in BoundedItem /\ caps'[s].own = hand.rq
        BY <1>1, <2>1, <3>2 DEF WorkerEffect
      <4> QED BY <2>3, <4>1 DEF BoundedItem, IsItem
    <3> QED BY <3>1, <3>2
  <2> QED BY <1>3, <2>3, <2>4, <2>5
<1>5. CASE EngineReturn
  <2>1. UNCHANGED caps
    BY <1>5 DEF EngineReturn, hookVars
  <2>2. /\ InSequence(len', Stream', Len(q') + 1)
        /\ \A y \in Awaited' : y \in Awaited \/ (y.rq = served + 2 /\ Start(y))
        /\ \E x \in Awaited : x.rq = served + 1
    BY <1>5, ReturnOrder
  <2>3. ASSUME NEW s \in 1 .. Len(caps'), NEW y \in Awaited' PROVE Later(caps'[s].own, y)
    <3>1. PICK x \in Awaited : x.rq = served + 1
      BY <2>2
    <3>2. Later(caps[s].own, x) /\ caps[s].own \in Nat
      BY <1>1, <1>2, <2>1
    <3>3. caps[s].own <= served + 1
      BY <1>1, <3>1, <3>2 DEF Later
    <3> QED BY <1>1, <1>2, <2>1, <2>2, <3>2, <3>3 DEF Later
  <2> QED BY <1>1, <1>3, <2>1, <2>2, <2>3
<1>6. CASE ~WorkerIngest /\ ~WorkerFlush /\ ~EngineReturn
  <2>1. /\ InSequence(len', Stream', Len(q') + 1) /\ UNCHANGED caps
        /\ \A y \in Awaited' : \/ y \in Awaited
                               \/ y.rq = served + 1 /\ ~Start(y) /\ \E x \in Awaited : x.rq = served + 1
    BY <1>6, KeptOrder
  <2>2. ASSUME NEW s \in 1 .. Len(caps'), NEW y \in Awaited' PROVE Later(caps'[s].own, y)
    <3>1. CASE y \in Awaited
      BY <1>2, <2>1, <3>1
    <3>2. CASE y \notin Awaited
      <4>1. PICK x \in Awaited : x.rq = served + 1
        BY <2>1, <3>2
      <4>2. Later(caps[s].own, x) /\ caps[s].own \in Nat
        BY <1>1, <1>2, <2>1, <4>1
      <4> QED BY <1>1, <2>1, <3>2, <4>1, <4>2 DEF Later
    <3> QED BY <3>1, <3>2
  <2> QED BY <1>1, <1>3, <2>1, <2>2
<1> QED BY <1>4, <1>5, <1>6

-----------------------------------------------------------------------------
(* The open capture *)

\* The types of what an item brings, and of the capture that takes it.
LEMMA ItemTypes ==
  ASSUME HookAssumption, BridgeAssumption, NEW c \in BoundedCapture, NEW item \in BoundedItem
  PROVE  /\ c.fed \in [Layers -> Seq(BoundedRow)] /\ c.calls \in Nat
         /\ item.li \in Layers /\ item.li \in Nat /\ item.at \in Nat /\ item.rq \in Nat
         /\ NL \in Nat /\ NL >= 1 /\ NL - 1 \in Layers /\ item.li <= NL - 1
         /\ \A li \in Layers : li \in Nat /\ li <= NL - 1
         /\ [rq |-> item.rq, at |-> item.at] \in BoundedRow
<1>1. c.fed \in [Layers -> Seq(BoundedRow)] /\ c.calls \in Nat
  BY DEF BoundedCapture
<1>2. NL \in Nat /\ NL >= 1 /\ NL - 1 \in Layers /\ \A li \in Layers : li \in Nat /\ li <= NL - 1
  BY DEF HookAssumption, Layers
<1>3. item.li \in Layers /\ item.rq \in Requests /\ item.at \in 0 .. MaxChunks - 1
  BY DEF BoundedItem
<1>4. item.rq \in Nat /\ item.at \in Nat
  BY <1>3 DEF BridgeAssumption
<1>5. [rq |-> item.rq, at |-> item.at] \in BoundedRow
  BY <1>3 DEF BoundedRow
<1> QED BY <1>1, <1>2, <1>3, <1>4, <1>5

\* A headless capture takes the next item of its chunk.
LEMMA HeadlessFed ==
  ASSUME HookAssumption, BridgeAssumption, NEW c \in BoundedCapture, NEW item \in BoundedItem, FirstRows(c),
         item.li > 0, item.at = 0, c.calls < item.li, \A li \in Layers : li >= item.li => c.fed[li] = <<>>,
         NEW l
  PROVE  LET d == Feed(c, item, "none")
         IN  FirstRows(d) /\ \A y : Follows(l, item, y) => HeadlessAt(d, y)
<1> DEFINE d == Feed(c, item, "none")
           row == [rq |-> item.rq, at |-> item.at]
<1>1. /\ c.fed \in [Layers -> Seq(BoundedRow)] /\ c.calls \in Nat /\ item.li \in Layers /\ item.li \in Nat
      /\ item.rq \in Nat /\ NL \in Nat /\ NL >= 1 /\ item.li <= NL - 1 /\ \A li \in Layers : li \in Nat
      /\ row \in BoundedRow /\ NL - 1 \in Layers
  BY ItemTypes
<1>2. /\ d.calls \in {c.calls, c.calls + 1}
      /\ \A li \in Layers : li # item.li => d.fed[li] = c.fed[li]
      /\ d.fed[item.li] = Append(c.fed[item.li], row)
  BY FeedFields
<1> HIDE DEF d
<1>3. d.fed[item.li] # <<>>
  <2>1. c.fed[item.li] \in Seq(BoundedRow)
    BY <1>1
  <2>2. row \in BoundedRow
    BY <1>1
  <2> HIDE DEF row
  <2> QED BY <1>2, <2>1, <2>2
<1>4. FirstRows(d)
  <2> SUFFICES ASSUME NEW li \in Layers, NEW i \in 1 .. Len(d.fed[li]) PROVE d.fed[li][i].at = 0
    BY DEF FirstRows
  <2>1. CASE li # item.li
    BY <1>2, <2>1 DEF FirstRows
  <2>2. CASE li = item.li
    <3>1. c.fed[li] = <<>>
      BY <1>1, <2>2
    <3>2. d.fed[li] = <<row>>
      BY <1>2, <2>2, <3>1
    <3> QED BY <3>2
  <2> QED BY <2>1, <2>2
<1>5. ASSUME NEW y, Follows(l, item, y) PROVE HeadlessAt(d, y)
  <2>1. CASE y.at = item.at /\ y.li = item.li + 1
    <3>1. d.calls < y.li /\ d.fed[y.li - 1] # <<>> /\ y.li > 0
      BY <1>1, <1>2, <1>3, <2>1
    <3>2. ASSUME NEW li \in Layers, li >= y.li PROVE d.fed[li] = <<>>
      <4>1. li # item.li /\ li >= item.li
        BY <1>1, <2>1, <3>2
      <4> QED BY <1>2, <4>1
    <3> QED BY <2>1, <3>1, <3>2 DEF HeadlessAt
  <2>2. CASE y.li = 0 /\ item.li = NL - 1
    <3>1. d.calls < NL /\ d.fed[NL - 1] # <<>>
      BY <1>1, <1>2, <1>3, <2>2
    <3> QED BY <2>2, <3>1 DEF HeadlessAt
  <2> QED BY <1>5, <2>1, <2>2 DEF Follows, Start
<1> QED BY <1>4, <1>5 DEF d

\* A capture that has everything up to an item of its prompt takes that item.
LEMMA HeadedFed ==
  ASSUME HookAssumption, BridgeAssumption, NEW c \in BoundedCapture, NEW item \in BoundedItem, RowsInPlace(c),
         FedUpTo(c, item), c.own = item.rq, NEW l
  PROVE  LET d == Feed(c, item, "none")
         IN  RowsInPlace(d) /\ \A y : Follows(l, item, y) => HeadedAt(l, d, y)
<1> DEFINE d == Feed(c, item, "none")
           row == [rq |-> item.rq, at |-> item.at]
<1>1. /\ c.fed \in [Layers -> Seq(BoundedRow)] /\ item.li \in Layers /\ item.li \in Nat /\ item.at \in Nat
      /\ item.rq \in Nat /\ NL \in Nat /\ NL >= 1 /\ item.li <= NL - 1
      /\ \A li \in Layers : li \in Nat /\ li <= NL - 1
      /\ row \in BoundedRow
  BY ItemTypes
<1>2. /\ d.own = c.own
      /\ \A li \in Layers : li # item.li => d.fed[li] = c.fed[li]
      /\ d.fed[item.li] = Append(c.fed[item.li], row)
  BY FeedFields
<1>3. row.at = item.at
  OBVIOUS
<1> HIDE DEF d, row
<1>4. c.fed[item.li] \in Seq(BoundedRow) /\ Len(c.fed[item.li]) = item.at
  BY <1>1 DEF FedUpTo
<1>5. /\ Len(d.fed[item.li]) = item.at + 1
      /\ d.fed[item.li][item.at + 1] = row
      /\ \A i \in 1 .. item.at : d.fed[item.li][i] = c.fed[item.li][i]
  <2> DEFINE f == c.fed[item.li]
  <2>1. d.fed[item.li] = Append(f, row) /\ f \in Seq(BoundedRow) /\ row \in BoundedRow /\ Len(f) = item.at
    BY <1>1, <1>2, <1>4
  <2> HIDE DEF f
  <2>2. /\ Len(Append(f, row)) = Len(f) + 1 /\ Append(f, row)[Len(f) + 1] = row
        /\ \A i \in 1 .. Len(f) : Append(f, row)[i] = f[i]
    BY <2>1
  <2> QED BY <2>1, <2>2 DEF f
<1>6. RowsInPlace(d)
  <2> SUFFICES ASSUME NEW li \in Layers, NEW i \in 1 .. Len(d.fed[li]) PROVE d.fed[li][i].at = i - 1
    BY DEF RowsInPlace
  <2>1. CASE li # item.li
    BY <1>2, <2>1 DEF RowsInPlace
  <2>2. CASE li = item.li /\ i = item.at + 1
    BY <1>1, <1>3, <1>5, <2>2
  <2>3. CASE li = item.li /\ i # item.at + 1
    <3>1. i \in 1 .. item.at
      BY <1>1, <1>5, <2>3
    <3> QED BY <1>4, <1>5, <2>3, <3>1 DEF RowsInPlace
  <2> QED BY <2>1, <2>2, <2>3
<1>7. \A li \in Layers : Len(d.fed[li]) = IF li <= item.li THEN item.at + 1 ELSE item.at
  <2> SUFFICES ASSUME NEW li \in Layers PROVE Len(d.fed[li]) = IF li <= item.li THEN item.at + 1 ELSE item.at
    OBVIOUS
  <2>1. CASE li = item.li
    BY <1>1, <1>5, <2>1
  <2>2. CASE li # item.li
    <3>1. d.fed[li] = c.fed[li] /\ Len(c.fed[li]) = IF li < item.li THEN item.at + 1 ELSE item.at
      BY <1>2, <2>2 DEF FedUpTo
    <3> QED BY <1>1, <2>2, <3>1
  <2> QED BY <2>1, <2>2
<1>8. ASSUME NEW y, Follows(l, item, y) PROVE HeadedAt(l, d, y)
  <2>1. CASE y.rq = item.rq /\ y.at = item.at /\ y.li = item.li + 1
    <3>1. FedUpTo(d, y)
      BY <1>1, <1>7, <2>1 DEF FedUpTo
    <3> QED BY <1>2, <2>1, <3>1 DEF HeadedAt
  <2>2. CASE y.rq = item.rq /\ y.at = item.at + 1 /\ y.li = 0 /\ item.li = NL - 1
    <3>1. FedUpTo(d, y)
      BY <1>1, <1>7, <2>2 DEF FedUpTo
    <3> QED BY <1>2, <2>2, <3>1 DEF HeadedAt
  <2>3. CASE y.rq = item.rq + 1 /\ Start(y) /\ item.li = NL - 1 /\ item.at + 1 = l[item.rq]
    <3>1. y.rq # d.own /\ d.own = item.rq
      BY <1>1, <1>2, <2>3
    <3>2. \A li \in Layers : Len(d.fed[li]) = l[item.rq]
      BY <1>1, <1>7, <2>3
    <3> QED BY <2>3, <3>1, <3>2 DEF HeadedAt
  <2> QED BY <1>8, <2>1, <2>2, <2>3 DEF Follows
<1> QED BY <1>6, <1>8 DEF d

\* The length of a prompt does not change once it is posted.
LEMMA LengthKept ==
  ASSUME TypeInv, [Next]_vars, NEW r \in Requests, r <= nreq
  PROVE  len'[r] = len[r] /\ nreq <= nreq'
<1> USE HookAssumption, BridgeAssumption
<1>1. nreq \in Nat /\ len \in [Requests -> 0 .. MaxChunks] /\ r \in Nat
  BY DEF TypeInv, EngineInv, BridgeAssumption
<1>2. ASSUME NEW n \in 1 .. MaxChunks, Submit(n) PROVE len'[r] = len[r] /\ nreq <= nreq'
  BY <1>1, <1>2 DEF Submit
<1>3. ASSUME UNCHANGED <<len, nreq>> PROVE len'[r] = len[r] /\ nreq <= nreq'
  BY <1>1, <1>3
<1>4. CASE Engine
  <2>1. CASE DirectSubmit
    <3>1. PICK n \in 1 .. MaxChunks : Submit(n)
      BY <2>1 DEF DirectSubmit
    <3> QED BY <1>2, <3>1
  <2>2. CASE ~DirectSubmit
    BY <1>3, <1>4, <2>2 DEF Engine, EngineForward, EngineReturn
  <2> QED BY <2>1, <2>2
<1>5. CASE Front
  <2>1. CASE FrontSubmit
    <3>1. PICK n \in 1 .. MaxChunks : Submit(n)
      BY <2>1 DEF FrontSubmit
    <3> QED BY <1>2, <3>1
  <2>2. CASE ~FrontSubmit
    BY <1>3, <1>5, <2>2 DEF Front, FrontChoose, FrontSignal, FrontGraceOut, FrontGivesUp, FrontPull, engineVars
  <2> QED BY <2>1, <2>2
<1> QED BY <1>3, <1>4, <1>5 DEF Next, Hook, vars, engineVars

\* The capture that is open after an ingest has just taken the item.
LEMMA IngestOpen ==
  ASSUME HookInv, WorkerIngest, faults' = 0, req' # 0
  PROVE  \E base \in BoundedCapture :
           /\ caps'[req'] = Feed(base, hand, "none")
           /\ \/ ~Opens /\ req # 0 /\ req' = req /\ base = caps[req]
              \/ Opens /\ req' = Len(caps) + 1 /\ Frozen(base, NewCapture(hand, clock + 1))
<1>1. caps \in Seq(BoundedCapture) /\ Len(caps) \in Nat
  BY DEF HookInv
<1>2. (TakesIn \/ \E base : OpensFor(base)) /\ hand \in BoundedItem
  BY IngestShape
<1>3. CASE TakesIn
  <2>1. req \in 1 .. Len(caps) /\ caps[req] \in BoundedCapture /\ Took(req, caps[req]) /\ ~Opens
    BY <1>1, <1>3 DEF TakesIn
  <2> QED BY <2>1 DEF Took
<1>4. ASSUME NEW base, OpensFor(base)
      PROVE  base \in BoundedCapture /\ caps'[req'] = Feed(base, hand, "none") /\ Opens
             /\ req' = Len(caps) + 1 /\ Frozen(base, NewCapture(hand, clock + 1))
  BY <1>1, <1>4 DEF OpensFor, Took
<1> QED BY <1>2, <1>3, <1>4

\* A capture that has just been opened holds nothing.
LEMMA FreshFields ==
  ASSUME NEW item, NEW now, NEW base, Frozen(base, NewCapture(item, now))
  PROVE  /\ base.part = item.at /\ base.own = item.rq /\ base.calls = 0 /\ base.first_t = now
         /\ base.reason = "none"
         /\ \A li \in Layers : base.fed[li] = <<>> /\ base.main[li] = 0 /\ base.idx[li] = 0
BY DEF Frozen, Kept, NewCapture

\* A capture that stays without the first layer once the item in hand is fed to
\* it holds rows of the first chunk only, and is behind by a layer.
LEMMA HeadlessTakes ==
  ASSUME TypeInv, KnownPrompts, OrderInv, HeadlessInv, WorkerIngest, faults' = 0, UNCHANGED engineVars,
         NEW base \in BoundedCapture,
         (req # 0 /\ base = caps[req]) \/ Frozen(base, NewCapture(hand, clock + 1)),
         Headless(Feed(base, hand, "none"))
  PROVE  LET d == Feed(base, hand, "none")
         IN  FirstRows(d) /\ \A y \in Coming' : HeadlessAt(d, y)
<1> USE HookAssumption, BridgeAssumption
<1> DEFINE d == Feed(base, hand, "none")
           c == caps[req]
<1>1. hand \in BoundedItem /\ IsItem(hand) /\ hand' = Nothing /\ UNCHANGED <<rec, q>>
  BY IngestShape DEF IsItem, TypeInv
<1>2. hand \in Coming /\ \A y \in Coming' : Follows(len, hand, y)
  BY <1>1, DoneOrder
<1>3. (req # 0 /\ base = c) \/ Frozen(base, NewCapture(hand, clock + 1))
  OBVIOUS
<1> HIDE DEF c
<1>4. /\ d.part = base.part
      /\ \A li \in Layers : li # hand.li => d.fed[li] = base.fed[li]
      /\ d.fed[hand.li] = Append(base.fed[hand.li], [rq |-> hand.rq, at |-> hand.at])
  BY <1>1, FeedFields
<1>5. Headless(d)
  OBVIOUS
<1> HIDE DEF d
<1>6. /\ base.fed \in [Layers -> Seq(BoundedRow)] /\ hand.li \in Layers /\ hand.li \in Nat /\ 0 \in Layers
      /\ [rq |-> hand.rq, at |-> hand.at] \in BoundedRow /\ base.calls \in Nat
  BY <1>1, ItemTypes DEF Layers
<1>7. hand.li # 0
  <2> SUFFICES ASSUME hand.li = 0 PROVE FALSE
    OBVIOUS
  <2> DEFINE row == [rq |-> hand.rq, at |-> hand.at]
  <2>1. base.fed[0] \in Seq(BoundedRow) /\ row \in BoundedRow /\ d.fed[0] = Append(base.fed[0], row)
    BY <1>4, <1>6
  <2> HIDE DEF row
  <2>2. d.fed[0] # <<>>
    BY <2>1
  <2> QED BY <1>5, <2>2 DEF Headless
<1>8. Headless(base)
  BY <1>5, <1>4, <1>6, <1>7 DEF Headless
<1>9. /\ FirstRows(base) /\ hand.li > 0 /\ hand.at = 0 /\ base.calls < hand.li
      /\ \A li \in Layers : li >= hand.li => base.fed[li] = <<>>
  <2>1. CASE req # 0 /\ base = c
    <3>1. FirstRows(c) /\ HeadlessAt(c, hand)
      BY <1>2, <1>8, <2>1 DEF HeadlessInv, c
    <3> QED BY <1>6, <1>7, <2>1, <3>1 DEF HeadlessAt
  <2>2. CASE Frozen(base, NewCapture(hand, clock + 1))
    <3>1. base.part = hand.at /\ base.calls = 0 /\ \A li \in Layers : base.fed[li] = <<>>
      BY <2>2, FreshFields
    <3> QED BY <1>6, <1>7, <1>8, <3>1 DEF Headless, FirstRows
  <2> QED BY <1>3, <2>1, <2>2
<1>10. FirstRows(d) /\ \A y : Follows(len, hand, y) => HeadlessAt(d, y)
  BY <1>1, <1>9, HeadlessFed DEF d
<1> QED BY <1>2, <1>10 DEF d

\* A fragment that has missed the first layer of its first chunk.
LEMMA HeadlessStep ==
  ASSUME TypeInv, KnownPrompts, EngineOrder, OrderInv, HeadlessInv, [Next]_vars, faults' = 0
  PROVE  HeadlessInv'
<1> USE HookAssumption, BridgeAssumption
<1> DEFINE c == caps[req]
           d == caps'[req']
<1> SUFFICES ASSUME req' # 0, Headless(d) PROVE FirstRows(d) /\ \A y \in Coming' : HeadlessAt(d, y)
  BY DEF HeadlessInv
<1>1. HookInv /\ caps \in Seq(BoundedCapture) /\ Len(caps) \in Nat /\ req \in 0 .. Len(caps)
  BY DEF TypeInv, HookInv
<1>2. CASE WorkerFlush
  BY <1>1, <1>2, FlushShape
<1>3. CASE WorkerIngest
  <2>1. UNCHANGED engineVars
    BY <1>3, WorkerAlone
  <2>2. PICK base \in BoundedCapture :
          /\ d = Feed(base, hand, "none")
          /\ (req # 0 /\ base = c) \/ Frozen(base, NewCapture(hand, clock + 1))
    BY <1>1, <1>3, IngestOpen
  <2> QED BY <1>3, <2>1, <2>2, HeadlessTakes
<1>4. CASE EngineReturn
  <2>1. d = c /\ req # 0
    BY <1>4 DEF EngineReturn, hookVars
  <2>2. FirstRows(c) /\ \A x \in Coming : HeadlessAt(c, x)
    BY <2>1 DEF HeadlessInv
  <2>3. \A y \in Coming' : y \in Coming \/ (Start(y) /\ \E x \in Coming : x.li = 0)
    BY <1>4, ReturnOrder
  <2> HIDE DEF c, d
  <2> QED BY <2>1, <2>2, <2>3 DEF HeadlessAt, Start
<1>5. CASE ~WorkerIngest /\ ~WorkerFlush /\ ~EngineReturn
  <2>1. Coming' \subseteq Coming /\ d = c /\ req # 0
    BY <1>5, KeptOrder
  <2>2. FirstRows(c) /\ \A x \in Coming : HeadlessAt(c, x)
    BY <2>1 DEF HeadlessInv
  <2> HIDE DEF c, d
  <2> QED BY <2>1, <2>2
<1> QED BY <1>2, <1>3, <1>4, <1>5

\* A capture that has its prompt from its first item on.
LEMMA HeadedStep ==
  ASSUME TypeInv, KnownPrompts, PurityInv, OrderInv, HeadedInv, [Next]_vars, faults' = 0
  PROVE  HeadedInv'
<1> USE HookAssumption, BridgeAssumption
<1> DEFINE c == caps[req]
           d == caps'[req']
<1> SUFFICES ASSUME req' # 0, Headed(d) PROVE RowsInPlace(d) /\ \A y \in Coming' : HeadedAt(len', d, y)
  BY DEF HeadedInv
<1>1. HookInv /\ caps \in Seq(BoundedCapture) /\ Len(caps) \in Nat /\ req \in 0 .. Len(caps) /\ EngineOrder
  BY DEF TypeInv, HookInv, PurityInv
<1>2. CASE WorkerFlush
  BY <1>1, <1>2, FlushShape
<1>3. CASE WorkerIngest
  <2>1. hand \in BoundedItem /\ IsItem(hand) /\ hand' = Nothing /\ UNCHANGED <<rec, q>> /\ Resolved
    BY <1>1, <1>3, IngestShape DEF IsItem, WorkerIngest
  <2>2. hand \in Coming /\ (\A y \in Coming' : Follows(len, hand, y)) /\ len' = len
    BY <1>3, <2>1, WorkerAlone, DoneOrder DEF engineVars
  <2>3. PICK base \in BoundedCapture :
          /\ d = Feed(base, hand, "none")
          /\ \/ ~Opens /\ req # 0 /\ base = c
             \/ Opens /\ Frozen(base, NewCapture(hand, clock + 1))
    BY <1>1, <1>3, IngestOpen
  <2>4. ~Opens /\ c.part = 0 => hand.rq = c.own
    BY <1>1, <2>1, ReadyPure
  <2>5. ~Opens /\ c.part = 0 => c.calls > 0
    BY DEF Opens, PurityInv, OpenOrder
  <2> HIDE DEF c, d
  <2>6. /\ d.part = base.part
        /\ \A li \in Layers : li # hand.li => d.fed[li] = base.fed[li]
        /\ d.fed[hand.li] = Append(base.fed[hand.li], [rq |-> hand.rq, at |-> hand.at])
    BY <2>1, <2>3, FeedFields
  <2>7. /\ base.fed \in [Layers -> Seq(BoundedRow)] /\ hand.li \in Layers /\ hand.li \in Nat /\ 0 \in Layers
        /\ [rq |-> hand.rq, at |-> hand.at] \in BoundedRow
    BY <2>1, ItemTypes DEF Layers
  <2>8. /\ base.fed[0] # <<>> => d.fed[0] # <<>> /\ d.fed[0][1] = base.fed[0][1]
        /\ base.fed[0] = <<>> => hand.li = 0 /\ d.fed[0][1].at = hand.at
    <3> DEFINE row == [rq |-> hand.rq, at |-> hand.at]
    <3>1. base.fed[0] \in Seq(BoundedRow) /\ row \in BoundedRow /\ row.at = hand.at
          /\ d.fed[0] = IF hand.li = 0 THEN Append(base.fed[0], row) ELSE base.fed[0]
      BY <2>6, <2>7
    <3> HIDE DEF row
    <3>2. CASE hand.li = 0 /\ base.fed[0] = <<>>
      <4>1. d.fed[0] = <<row>>
        BY <3>1, <3>2
      <4> QED BY <3>1, <3>2, <4>1
    <3>3. CASE hand.li = 0 /\ base.fed[0] # <<>>
      BY <3>1, <3>3
    <3>4. CASE hand.li # 0
      BY <3>1, <3>4 DEF Headed
    <3> QED BY <3>2, <3>3, <3>4
  <2>9. RowsInPlace(base) /\ FedUpTo(base, hand) /\ base.own = hand.rq
    <3>1. CASE ~Opens /\ req # 0 /\ base = c
      <4>1. c.part = 0 /\ hand.rq = c.own /\ c.calls > 0
        BY <2>4, <2>5, <2>6, <3>1 DEF Headed
      <4>2. c.fed[0] # <<>>
        <5> SUFFICES ASSUME c.fed[0] = <<>> PROVE FALSE
          OBVIOUS
        <5>1. hand.li = 0 /\ hand.at = 0
          BY <2>8, <3>1 DEF Headed
        <5>2. IsNewRequest(c, hand)
          BY <4>1, <5>1 DEF IsNewRequest
        <5> QED BY <3>1, <5>2 DEF Opens, Closes, c
      <4>3. Headed(c)
        BY <2>8, <3>1, <4>1, <4>2 DEF Headed
      <4>4. RowsInPlace(c) /\ HeadedAt(len, c, hand)
        BY <2>2, <3>1, <4>3 DEF HeadedInv, c
      <4> QED BY <3>1, <4>1, <4>4 DEF HeadedAt
    <3>2. CASE Frozen(base, NewCapture(hand, clock + 1))
      <4>1. base.part = hand.at /\ base.own = hand.rq /\ \A li \in Layers : base.fed[li] = <<>>
        BY <3>2, FreshFields
      <4>2. hand.li = 0 /\ hand.at = 0
        BY <2>6, <2>7, <2>8, <4>1 DEF Headed
      <4>3. \A li \in Layers : li \in Nat
        BY DEF Layers
      <4> QED BY <4>1, <4>2, <4>3 DEF RowsInPlace, FedUpTo
    <3> QED BY <2>3, <3>1, <3>2
  <2>10. RowsInPlace(d) /\ \A y : Follows(len, hand, y) => HeadedAt(len, d, y)
    BY <2>1, <2>3, <2>9, HeadedFed
  <2> QED BY <2>2, <2>10
<1>4. CASE EngineReturn
  <2>1. d = c /\ req # 0 /\ len' = len
    BY <1>4 DEF EngineReturn, hookVars
  <2>2. RowsInPlace(c) /\ \A x \in Coming : HeadedAt(len, c, x)
    BY <2>1 DEF HeadedInv
  <2>3. \A y \in Coming' :
          \/ y \in Coming
          \/ /\ y.rq = served + 2 /\ Start(y)
             /\ \E x \in Coming : x.rq = served + 1 /\ x.at = len[served + 1] /\ x.li = 0
    BY <1>1, <1>4, ReturnOrder
  <2>4. served \in Nat /\ len[served + 1] >= 1 /\ \A li \in Layers : li \in Nat
    BY <1>1, <1>4 DEF TypeInv, EngineInv, EngineReturn, EngineFree, EngineOrder, Layers, BridgeAssumption
  <2> HIDE DEF c, d
  <2>5. ASSUME NEW y \in Coming', y \notin Coming PROVE HeadedAt(len, c, y)
    <3>1. PICK x \in Coming : x.rq = served + 1 /\ x.at = len[served + 1] /\ x.li = 0
      BY <2>3, <2>5
    <3>2. HeadedAt(len, c, x) /\ ~Start(x)
      BY <2>2, <2>4, <3>1 DEF Start
    <3>3. c.own = served + 1 /\ FedUpTo(c, x)
      BY <3>1, <3>2 DEF HeadedAt
    <3>4. \A li \in Layers : Len(c.fed[li]) = len[c.own]
      BY <2>4, <3>1, <3>3 DEF FedUpTo
    <3> QED BY <2>3, <2>4, <2>5, <3>3, <3>4 DEF HeadedAt
  <2> QED BY <2>1, <2>2, <2>5
<1>5. CASE ~WorkerIngest /\ ~WorkerFlush /\ ~EngineReturn
  <2>1. Coming' \subseteq Coming /\ d = c /\ req # 0
    BY <1>1, <1>5, KeptOrder
  <2>2. RowsInPlace(c) /\ \A x \in Coming : HeadedAt(len, c, x)
    BY <2>1 DEF HeadedInv
  <2>3. len'[c.own] = len[c.own]
    <3>1. req \in DOMAIN caps /\ caps[req] \in BoundedCapture
      BY <1>1, <2>1
    <3>2. c.own \in Requests /\ c.own <= nreq
      BY <3>1 DEF KnownPrompts, BoundedCapture
    <3> HIDE DEF c
    <3> QED BY <3>2, LengthKept
  <2> HIDE DEF c, d
  <2> QED BY <2>1, <2>2, <2>3 DEF HeadedAt
<1> QED BY <1>2, <1>3, <1>4, <1>5

-----------------------------------------------------------------------------
(* A flush that is under way *)

\* What is less than the modulus is its own remainder.
LEMMA SmallMod ==
  ASSUME NEW a \in Nat, NEW b \in Nat, a < b, a % b = 0
  PROVE  a = 0
<1>1. b > 0 /\ a \in Int /\ b \in Int
  OBVIOUS
<1>2. a = b * (a \div b) + (a % b) /\ a \div b \in Int
  BY <1>1
<1> DEFINE k == a \div b
<1>3. a = b * k /\ k \in Int
  BY <1>2
<1> HIDE DEF k
<1>4. k >= 1 => b * k >= b
  BY <1>1, <1>3
<1>5. k <= -1 => b * k <= -b
  BY <1>1, <1>3
<1> QED BY <1>1, <1>3, <1>4, <1>5

\* There is always a next item: the engine's, if no other.
LEMMA ComingExists ==
  ASSUME TypeInv
  PROVE  /\ \E x : x \in Coming
         /\ q = <<>> /\ ~IsItem(hand) => \A x \in Coming : x.rq = served + 1 /\ x.at = at /\ x.li = lay
<1> DEFINE n == Len(q) + 1
           S == Stream
           K == {k \in 0 .. n : IsItem(S[k])}
<1>1. n \in Nat /\ q \in Seq(BoundedItem \cup Sentinel)
  BY DEF TypeInv, HookInv
<1>2. S[n] = [kind |-> "item", rq |-> served + 1, at |-> at, li |-> lay, ev |-> rec + 1]
  BY <1>1 DEF Stream
<1>3. IsItem(S[n]) /\ S[n].rq = served + 1 /\ S[n].at = at /\ S[n].li = lay
  BY <1>2 DEF IsItem
<1>4. S[0] = hand
  BY <1>1 DEF Stream
<1> HIDE DEF S
<1>5. K \in SUBSET Nat /\ K # {}
  BY <1>1, <1>3
<1>6. PICK k \in K : \A x \in K : k <= x
  <2> HIDE DEF K
  <2> QED BY <1>5, NatSetHasMin
<1>7. NoItem(S, 0, k - 1)
  <2> SUFFICES ASSUME NEW i \in 0 .. k - 1, IsItem(S[i]) PROVE FALSE
    BY DEF NoItem
  <2>1. i \in K /\ i < k
    BY <1>1, <1>6
  <2> QED BY <1>6, <2>1
<1>8. S[k] \in Coming
  <2>1. k \in 0 .. n /\ IsItem(S[k])
    BY <1>6
  <2> QED BY <1>7, <2>1 DEF Coming, FirstOf, S
<1>9. ASSUME q = <<>>, ~IsItem(hand), NEW x \in Coming PROVE x.rq = served + 1 /\ x.at = at /\ x.li = lay
  <2>1. n = 1
    BY <1>9
  <2>2. PICK i \in 0 .. n : x = S[i] /\ IsItem(S[i])
    BY <1>9 DEF Coming, FirstOf, S
  <2>3. i = 1
    BY <1>4, <1>9, <2>1, <2>2
  <2> QED BY <1>3, <2>1, <2>2, <2>3
<1> QED BY <1>8, <1>9

\* A headless fragment is never taken for one that ends with a whole chunk.
LEMMA HeadlessUnaligned ==
  ASSUME TypeInv, KnownPrompts, PurityInv, HeadlessInv, req # 0, Headless(caps[req])
  PROVE  ~Aligned(caps[req])
<1> USE HookAssumption
<1> DEFINE c == caps[req]
<1>1. PICK x \in Coming : TRUE
  BY ComingExists
<1>2. FirstRows(c) /\ HeadlessAt(c, x)
  BY <1>1 DEF HeadlessInv
<1>3. c.calls > 0
  BY DEF PurityInv, OpenOrder, Headless
<1>4. c \in BoundedCapture /\ c.calls \in Nat
  <2>1. caps \in Seq(BoundedCapture) /\ req \in 1 .. Len(caps)
    BY DEF TypeInv, HookInv
  <2>2. c \in BoundedCapture
    BY <2>1
  <2> HIDE DEF c
  <2> QED BY <2>2 DEF BoundedCapture
<1>5. NL \in Nat /\ NL >= 1 /\ \A li \in Layers : li \in Nat /\ li <= NL - 1
  BY DEF HookAssumption, Layers
<1>6. x.li \in Nat /\ x.li <= NL - 1
  <2>1. PICK k \in 0 .. Len(q) + 1 : x = Stream[k] /\ IsItem(Stream[k])
    BY <1>1 DEF Coming, FirstOf
  <2>2. x.li \in Layers
    BY <2>1, StreamItems
  <2> QED BY <1>5, <2>2
<1> HIDE DEF c
<1>7. SUFFICES ASSUME Aligned(c) PROVE FALSE
  BY DEF c
<1>8. /\ x.li > 0 => c.fed[x.li - 1] # <<>> /\ x.li - 1 \in Layers
      /\ x.li = 0 => c.fed[NL - 1] # <<>> /\ NL - 1 \in Layers
  BY <1>2, <1>5, <1>6 DEF HeadlessAt, Layers
<1>9. PICK top \in LayersFed(c) : (\A li \in LayersFed(c) : li <= top) /\ c.calls % (top + 1) = 0
  BY <1>6, <1>7, <1>8 DEF Aligned, LayersFed
<1>10. top \in Layers /\ c.fed[top] # <<>>
  BY <1>9 DEF LayersFed
<1>11. c.calls < top + 1
  <2>1. CASE x.li > 0
    <3>1. x.li - 1 <= top
      BY <1>8, <1>9, <2>1 DEF LayersFed
    <3>2. c.calls < x.li
      BY <1>2, <2>1 DEF HeadlessAt
    <3> QED BY <1>4, <1>5, <1>6, <1>10, <3>1, <3>2
  <2>2. CASE x.li = 0
    <3>1. NL - 1 <= top
      BY <1>8, <1>9, <2>2 DEF LayersFed
    <3>2. c.calls < NL
      BY <1>2, <2>2 DEF HeadlessAt
    <3> QED BY <1>4, <1>5, <1>10, <3>1, <3>2
  <2> QED BY <1>6, <2>1, <2>2
<1>12. top \in Nat
  BY <1>5, <1>10
<1> QED BY <1>3, <1>4, <1>9, <1>11, <1>12, SmallMod

\* Watcher and sentinels: what is decided is put and taken before any other item.
LEMMA PendStep ==
  ASSUME PromptHook, TypeInv, KnownPrompts, PurityInv, OrderInv, HeadlessInv, PendInv, [Next]_vars, faults' = 0
  PROVE  PendInv'
<1> USE HookAssumption, BridgeAssumption
<1>1. HookInv /\ caps \in Seq(BoundedCapture) /\ req \in 0 .. Len(caps) /\ q \in Seq(BoundedItem \cup Sentinel)
      /\ Len(q) \in Nat /\ (wpc = "put" => fire # "none")
  BY DEF TypeInv, HookInv
<1>2. ASSUME UNCHANGED <<fire, wpc, q, hand, req>>, UNCHANGED caps PROVE PendInv'
  BY <1>2 DEF PendInv, Pending, Queued
<1>3. CASE WorkerGet
  <2>1. /\ hand = Nothing /\ q # <<>> /\ hand' = q[1] /\ q' = Tail(q) /\ Len(q') = Len(q) - 1
        /\ \A i \in 1 .. Len(q') : q'[i] = q[i + 1]
        /\ UNCHANGED <<caps, req, wpc, fire>>
    BY <1>1, <1>3 DEF WorkerGet
  <2>2. fire = "none" /\ \A i \in 1 .. Len(q') : q'[i].kind = "item"
    <3>1. \A i \in 1 .. Len(q') : i + 1 \in 2 .. Len(q)
      BY <1>1, <2>1
    <3> QED BY <2>1, <3>1 DEF PendInv
  <2>3. ~Queued'
    <3>1. CASE q' = <<>>
      BY <3>1 DEF Queued
    <3>2. CASE q' # <<>>
      <4>1. 1 \in 1 .. Len(q')
        BY <1>1, <2>1, <3>2
      <4> QED BY <2>2, <4>1 DEF Queued
    <3> QED BY <3>1, <3>2
  <2>4. Pending' => Queued
    BY <2>1, <2>2, <2>3 DEF Pending, Queued
  <2> QED BY <1>1, <2>1, <2>2, <2>3, <2>4 DEF PendInv, Pending
<1>4. CASE WorkerFlush
  <2>1. req' = 0 /\ hand' = Nothing /\ UNCHANGED <<q, fire, wpc>>
    BY <1>1, <1>4, FlushShape
  <2>2. Nothing.kind = "nothing"
    BY DEF Nothing
  <2> QED BY <2>1, <2>2 DEF PendInv, Queued
<1>5. CASE WorkerIngest
  <2>1. hand \in BoundedItem /\ hand.kind = "item" /\ hand' = Nothing /\ UNCHANGED <<q, fire, wpc>>
    BY <1>1, <1>5, IngestShape
  <2>2. Nothing.kind = "nothing"
    BY DEF Nothing
  <2>3. ASSUME Pending', req' # 0 PROVE ~Headless(caps'[req'])
    <3>1. fire # "none" \/ Queued
      BY <2>1, <2>2, <2>3 DEF Pending, Queued
    <3>2. req # 0 /\ ~Headless(caps[req])
      BY <2>1, <3>1 DEF PendInv, Pending
    <3>3. PICK base \in BoundedCapture :
            /\ caps'[req'] = Feed(base, hand, "none")
            /\ \/ ~Opens /\ base = caps[req]
               \/ Opens /\ Frozen(base, NewCapture(hand, clock + 1))
      BY <1>1, <1>5, <2>3, IngestOpen
    <3> DEFINE d == caps'[req']
               row == [rq |-> hand.rq, at |-> hand.at]
    <3>4. /\ d.part = base.part
          /\ \A li \in Layers : li # hand.li => d.fed[li] = base.fed[li]
          /\ d.fed[hand.li] = Append(base.fed[hand.li], row)
      BY <2>1, <3>3, FeedFields
    <3>5. base.fed[0] \in Seq(BoundedRow) /\ row \in BoundedRow /\ 0 \in Layers
      BY <2>1, ItemTypes DEF Layers
    <3> HIDE DEF d, row
    <3>6. base.fed[0] # <<>> \/ hand.li = 0 => d.fed[0] # <<>>
      BY <3>4, <3>5
    <3>7. CASE ~Opens /\ base = caps[req]
      BY <3>2, <3>4, <3>6, <3>7 DEF Headless, d
    <3>8. CASE Opens
      BY <3>2, <3>6, <3>8 DEF Opens, Closes, IsNewRequest, Headless, d
    <3> QED BY <3>3, <3>7, <3>8
  <2> QED BY <2>1, <2>2, <2>3 DEF PendInv, Queued
<1>6. CASE WatchDecide
  <2>1. UNCHANGED <<q, hand, caps, req, ran, rec>> /\ wpc = "decide" /\ fire = "none"
    BY <1>6 DEF WatchDecide, PendInv
  <2>2. CASE fire' = "none"
    BY <2>1, <2>2 DEF PendInv, Pending, Queued
  <2>3. CASE fire' # "none"
    <3>1. req # 0 /\ fire' = Verdict(caps[req]) /\ wpc' = AfterDecision(caps[req])
      BY <1>6, <2>1, <2>3 DEF WatchDecide
    <3>2. Settled(caps[req])
      BY <2>3, <3>1 DEF Verdict, IdleFires
    <3>3. wpc' \in {"unlink", "put"}
      BY <2>3, <3>1 DEF AfterDecision, Verdict
    <3>4. q = <<>> /\ ~Headless(caps[req])
      BY <3>1, <3>2, HeadlessUnaligned DEF Settled
    <3> QED BY <2>1, <3>1, <3>3, <3>4 DEF PendInv, Pending, Queued
  <2> QED BY <2>2, <2>3
<1>7. CASE WatchPut
  <2>1. fire # "none" /\ q = <<>>
    BY <1>1, <1>7 DEF WatchPut, PendInv
  <2> DEFINE mark == [kind |-> "flush", reason |-> fire]
  <2>2. q' = <<mark>> /\ fire' = "none" /\ UNCHANGED <<hand, caps, req>>
    BY <1>7, <2>1 DEF WatchPut
  <2> HIDE DEF mark
  <2>3. Len(q') = 1
    BY <2>2
  <2> QED BY <2>1, <2>2, <2>3 DEF PendInv, Pending
<1>8. CASE WatchStat \/ WatchUnlink
  <2>1. UNCHANGED <<fire, q, hand, caps, req>> /\ wpc \in {"stat", "unlink"}
    BY <1>8 DEF WatchStat, WatchUnlink
  <2>2. fire # "none" => wpc' \in {"unlink", "put"}
    BY <1>8 DEF WatchStat, WatchUnlink, PendInv
  <2> QED BY <2>1, <2>2 DEF PendInv, Pending, Queued
<1>9. CASE EngineForward
  <2> DEFINE item == [kind |-> "item", rq |-> served + 1, at |-> at, li |-> lay, ev |-> rec + 1]
  <2>1. fire = "none" /\ q' = Append(q, item) /\ UNCHANGED <<fire, wpc, hand, caps, req>>
    BY <1>9 DEF EngineForward, WatcherDone, Record, PendInv
  <2>2. item.kind = "item"
    OBVIOUS
  <2> HIDE DEF item
  <2>3. /\ Len(q') = Len(q) + 1 /\ \A i \in 1 .. Len(q) : q'[i] = q[i]
        /\ q'[Len(q) + 1] = item
    BY <1>1, <2>1
  <2>4. \A i \in 2 .. Len(q') : q'[i].kind = "item"
    <3> SUFFICES ASSUME NEW i \in 2 .. Len(q') PROVE q'[i].kind = "item"
      OBVIOUS
    <3>1. CASE i = Len(q) + 1
      BY <2>2, <2>3, <3>1
    <3>2. CASE i # Len(q) + 1
      <4>1. i \in 2 .. Len(q) /\ i \in 1 .. Len(q)
        BY <1>1, <2>3, <3>2
      <4> QED BY <2>3, <4>1 DEF PendInv
    <3> QED BY <3>1, <3>2
  <2>5. Queued' => Queued
    <3> SUFFICES ASSUME q'[1].kind = "flush" PROVE Queued
      BY DEF Queued
    <3>1. q # <<>>
      <4>1. q = <<>> => q'[1] = item
        BY <2>3
      <4> QED BY <2>2, <4>1
    <3>2. q'[1] = q[1]
      BY <1>1, <2>3, <3>1
    <3> QED BY <3>1, <3>2 DEF Queued
  <2> QED BY <2>1, <2>4, <2>5 DEF PendInv, Pending
<1>10. CASE UNCHANGED hookVars
  BY <1>2, <1>10 DEF hookVars
<1>11. CASE GpuStep \/ IdleElapses
  BY <1>2, <1>11 DEF GpuStep, IdleElapses
<1>12. ASSUME Worker \/ WorkerFault PROVE PendInv'
  BY <1>1, <1>3, <1>4, <1>5, <1>12, NoFault
<1>13. CASE Front
  <2>1. CASE FrontSubmit
    <3>1. PICK n \in 1 .. MaxChunks : Submit(n)
      BY <2>1 DEF FrontSubmit
    <3> QED BY <1>10, <3>1 DEF Submit
  <2>2. CASE ~FrontSubmit
    BY <1>2, <1>10, <1>13, <2>2 DEF Front, FrontChoose, FrontSignal, FrontGraceOut, FrontGivesUp, FrontPull
  <2> QED BY <2>1, <2>2
<1>14. CASE Engine
  <2>1. CASE DirectSubmit
    <3>1. PICK n \in 1 .. MaxChunks : Submit(n)
      BY <2>1 DEF DirectSubmit
    <3> QED BY <1>10, <3>1 DEF Submit
  <2> QED BY <1>9, <1>10, <1>14, <2>1 DEF Engine, EngineReturn
<1>15. CASE UNCHANGED vars
  BY <1>10, <1>15 DEF vars
<1> QED BY <1>6, <1>7, <1>8, <1>11, <1>12, <1>13, <1>14, <1>15 DEF Next, Hook, IdleMayElapse, Watcher

\* The steps, without exceptions and other clients.
LEMMA NextCases ==
  ASSUME ~Direct, TypeInv, [Next]_vars, faults' = 0
  PROVE  \/ /\ \/ WorkerGet \/ WorkerIngest \/ WorkerFlush \/ GpuStep \/ IdleElapses
               \/ WatchStat \/ WatchDecide \/ WatchUnlink \/ WatchPut
            /\ UNCHANGED engineVars /\ UNCHANGED frontVars
         \/ EngineForward \/ EngineReturn
         \/ FrontSubmit \/ FrontChoose \/ FrontSignal \/ FrontGraceOut \/ FrontGivesUp \/ FrontPull
         \/ UNCHANGED vars
<1>1. ASSUME Worker \/ WorkerFault PROVE WorkerGet \/ WorkerIngest \/ WorkerFlush
  BY <1>1, NoFault DEF TypeInv
<1>2. ASSUME Engine PROVE EngineForward \/ EngineReturn
  BY <1>2 DEF Engine, DirectSubmit
<1> QED BY <1>1, <1>2 DEF Next, Hook, IdleMayElapse, Watcher, Front

\* What the watcher holds is no newer than the file, and nothing runs in an idle engine.
LEMMA SeenStep ==
  ASSUME ~Direct, TypeInv, SeenInv, RanInv, [Next]_vars, faults' = 0
  PROVE  SeenInv' /\ RanInv'
<1> USE BridgeAssumption
<1>1. /\ signal \in Nat /\ clock \in Nat /\ signal <= clock /\ seen \in Nat /\ seen <= clock
      /\ served \in Nat /\ nreq \in Nat /\ served <= nreq /\ rec \in Nat /\ ran \in Nat /\ ran <= rec
  BY DEF TypeInv, HookInv, EngineInv, BridgeAssumption
<1>2. SeenInv'
  <2>1. ASSUME UNCHANGED <<wpc, seen, signal>> PROVE SeenInv'
    BY <2>1 DEF SeenInv
  <2>2. CASE WorkerGet \/ WorkerIngest \/ WorkerFlush \/ GpuStep \/ IdleElapses \/ UNCHANGED hookVars
    BY <2>1, <2>2 DEF WorkerGet, WorkerIngest, WorkerFlush, GpuStep, IdleElapses, hookVars
  <2>3. CASE WatchStat \/ WatchDecide \/ WatchUnlink \/ WatchPut
    BY <1>1, <2>3 DEF WatchStat, WatchDecide, AfterDecision, WatchUnlink, WatchPut, SeenInv
  <2>4. CASE EngineForward \/ EngineReturn
    BY <2>1, <2>4 DEF EngineForward, Record, EngineReturn, hookVars
  <2>5. CASE FrontSubmit
    <3>1. PICK n \in 1 .. MaxChunks : Submit(n)
      BY <2>5 DEF FrontSubmit
    <3> QED BY <2>1, <3>1 DEF Submit, hookVars
  <2>6. CASE FrontSignal
    <3>1. UNCHANGED <<wpc, seen>> /\ signal' \in {signal, clock + 1}
      BY <2>6 DEF FrontSignal, TouchFlushNow
    <3> QED BY <1>1, <3>1 DEF SeenInv
  <2>7. CASE FrontChoose \/ FrontGraceOut \/ FrontGivesUp \/ FrontPull
    BY <2>1, <2>7 DEF FrontChoose, FrontGraceOut, FrontGivesUp, FrontPull, hookVars
  <2> QED BY <2>2, <2>3, <2>4, <2>5, <2>6, <2>7, NextCases DEF vars
<1>3. RanInv'
  <2>1. ASSUME UNCHANGED <<served, nreq, rec, ran>> PROVE RanInv'
    BY <2>1 DEF RanInv
  <2>2. CASE /\ \/ WorkerGet \/ WorkerIngest \/ WorkerFlush \/ IdleElapses
                \/ WatchStat \/ WatchDecide \/ WatchUnlink \/ WatchPut
             /\ UNCHANGED engineVars
    BY <2>1, <2>2 DEF WorkerGet, WorkerIngest, WorkerFlush, IdleElapses, WatchStat, WatchDecide,
                      WatchUnlink, WatchPut, engineVars
  <2>3. CASE GpuStep /\ UNCHANGED engineVars
    BY <1>1, <2>3 DEF GpuStep, RanInv, engineVars
  <2>4. CASE EngineForward
    BY <2>4 DEF EngineForward, EngineFree, RanInv
  <2>5. CASE EngineReturn
    BY <2>5 DEF EngineReturn, RanInv, hookVars
  <2>6. CASE FrontSubmit
    <3>1. PICK n \in 1 .. MaxChunks : Submit(n)
      BY <2>6 DEF FrontSubmit
    <3> QED BY <1>1, <3>1 DEF Submit, RanInv
  <2>7. CASE FrontChoose \/ FrontSignal \/ FrontGraceOut \/ FrontGivesUp \/ FrontPull
    BY <2>1, <2>7 DEF FrontChoose, FrontSignal, FrontGraceOut, FrontGivesUp, FrontPull, hookVars, engineVars
  <2> QED BY <2>1, <2>2, <2>3, <2>4, <2>5, <2>6, <2>7, NextCases DEF vars, hookVars, engineVars
<1> QED BY <1>2, <1>3

\* A capture that has counted nothing is aligned.
LEMMA NoneCountedAligned ==
  ASSUME HookAssumption, NEW c, c.calls = 0
  PROVE  Aligned(c)
<1>1. CASE LayersFed(c) = {}
  BY <1>1 DEF Aligned
<1>2. CASE LayersFed(c) # {}
  <2>1. LayersFed(c) \in SUBSET (0 .. NL) /\ NL \in Nat
    BY DEF LayersFed, Layers, HookAssumption
  <2>2. PICK top \in LayersFed(c) : \A li \in LayersFed(c) : li <= top
    BY <1>2, <2>1, BoundedSetHasMax
  <2>3. top \in Nat
    BY <2>1
  <2>4. 0 % (top + 1) = 0
    BY <2>3
  <2> QED BY <2>2, <2>4 DEF Aligned
<1> QED BY <1>1, <1>2

\* A step that touches no capture leaves the front's findings alone.
LEMMA CompleteKept ==
  ASSUME UNCHANGED <<caps, before, len, fr>>
  PROVE  Complete' = Complete /\ Scanned' = Scanned
BY DEF Complete, Scanned

\* Nor does an ingest into the open capture.
LEMMA CompleteAfterIngest ==
  ASSUME TypeInv, OpenIsUnpublished, WorkerIngest, faults' = 0, ~Opens, req' # 0, UNCHANGED <<before, len, fr>>
  PROVE  Complete' \subseteq Complete
<1>1. HookInv /\ caps \in Seq(BoundedCapture)
  BY DEF TypeInv, HookInv
<1>2. TakesIn /\ hand \in BoundedItem
  BY <1>1, IngestShape DEF OpensFor
<1>3. PICK base \in BoundedCapture : caps'[req'] = Feed(base, hand, "none") /\ req' = req /\ base = caps[req]
  BY <1>1, IngestOpen
<1>4. Feed(base, hand, "none").reason = base.reason
  BY <1>2, FeedFields
<1>5. ~Published(caps'[req])
  BY <1>3, <1>4 DEF OpenIsUnpublished, Published
<1>6. /\ Len(caps') = Len(caps) /\ DOMAIN caps = 1 .. Len(caps)
      /\ \A i \in 1 .. Len(caps) : i # req => caps'[i] = caps[i]
  BY <1>1, <1>2 DEF TakesIn
<1>7. DOMAIN caps' = 1 .. Len(caps')
  BY <1>1, WorkerStep DEF HookInv, Worker
<1> QED BY <1>5, <1>6, <1>7 DEF Complete, Scanned

\* A stuck capture stays stuck while nothing is ingested.
LEMMA StuckStays ==
  ASSUME TypeInv, KnownPrompts, EngineOrder, OrderInv, [Next]_vars, faults' = 0,
         ~WorkerIngest, ~WorkerFlush, Stuck
  PROVE  Stuck'
<1>1. CASE EngineReturn
  <2>1. /\ UNCHANGED <<caps, req>>
        /\ \A y \in Coming' : y \in Coming \/ Start(y)
    BY <1>1, ReturnOrder DEF EngineReturn, hookVars
  <2> QED BY <2>1 DEF Stuck
<1>2. CASE ~EngineReturn
  <2>1. UNCHANGED <<caps, req>> /\ Coming' \subseteq Coming
    BY <1>2, KeptOrder
  <2> QED BY <2>1 DEF Stuck
<1> QED BY <1>1, <1>2

\* As long as a signal is good for the open capture, the front is in its grace, or
\* the capture will never be aligned again before its own end.
LEMMA AliveStep ==
  ASSUME ~Direct, PromptHook, TypeInv, DemandInv, EngineOrder, OrderInv, OpenIsUnpublished, RanInv, AliveInv,
         [Next]_vars, faults' = 0
  PROVE  AliveInv'
<1> USE BridgeAssumption
<1> SUFFICES ASSUME Alive' PROVE InGrace' \/ Stuck'
  BY DEF AliveInv
<1>1. /\ HookInv /\ caps \in Seq(BoundedCapture) /\ Len(caps) \in Nat /\ req \in 0 .. Len(caps)
      /\ signal \in Nat /\ clock \in Nat /\ signal <= clock
      /\ served \in Nat /\ nreq \in Nat /\ served <= nreq /\ fr \in Nat
  BY DEF TypeInv, HookInv, EngineInv, FrontInv, BridgeAssumption
<1>2. KnownPrompts /\ (fr # 0 => fr = nreq)
  BY DEF DemandInv
<1>3. ASSUME UNCHANGED <<caps, req>>, signal' \in {signal, 0} PROVE Alive
  BY <1>3 DEF Alive
<1>4. ASSUME UNCHANGED <<caps, before, len, fr, ph>>, served <= served', served' \in Nat, InGrace PROVE InGrace'
  BY <1>1, <1>4, CompleteKept DEF InGrace
<1>5. ASSUME Stuck, ~WorkerIngest, ~WorkerFlush PROVE Stuck'
  BY <1>2, <1>5, StuckStays
<1>6. CASE WorkerFlush
  BY <1>1, <1>6, FlushShape DEF Alive
<1>7. CASE WorkerIngest
  <2>1. hand \in BoundedItem /\ IsItem(hand) /\ hand' = Nothing /\ UNCHANGED <<rec, q, signal>> /\ req' # 0
    BY <1>1, <1>7, IngestShape DEF IsItem, Alive
  <2>2. PICK base \in BoundedCapture :
          /\ caps'[req'] = Feed(base, hand, "none")
          /\ \/ ~Opens /\ req # 0 /\ req' = req /\ base = caps[req]
             \/ Opens /\ Frozen(base, NewCapture(hand, clock + 1))
    BY <1>1, <1>7, <2>1, IngestOpen
  <2>3. caps'[req'].first_t = base.first_t /\ signal >= base.first_t
    <3>1. Feed(base, hand, "none").first_t = base.first_t
      BY <2>1, FeedFields
    <3>2. caps'[req'].first_t = base.first_t
      BY <2>2, <3>1
    <3>3. signal' >= caps'[req'].first_t
      BY DEF Alive
    <3> QED BY ONLY <2>1, <3>2, <3>3
  <2>4. ~Opens /\ req # 0 /\ base = caps[req]
    BY <1>1, <2>2, <2>3, FreshFields
  <2>5. InGrace \/ Stuck
    BY <2>1, <2>3, <2>4 DEF AliveInv, Alive
  <2>6. hand \in Coming /\ UNCHANGED engineVars /\ UNCHANGED frontVars
    BY <1>7, <2>1, WorkerAlone, DoneOrder
  <2>7. CASE InGrace
    <3>1. Complete' \subseteq Complete
      BY <1>7, <2>1, <2>4, <2>6, CompleteAfterIngest DEF engineVars, frontVars
    <3> QED BY <2>6, <2>7, <3>1 DEF InGrace, engineVars, frontVars
  <2>8. CASE Stuck
    <3>1. Start(hand) /\ ~Aligned(caps[req])
      BY <2>6, <2>8 DEF Stuck
    <3>2. caps[req].calls # 0
      BY HookAssumption, <3>1, NoneCountedAligned
    <3>3. caps[req].calls \in Nat
      BY <2>4 DEF BoundedCapture
    <3>4. IsNewRequest(caps[req], hand)
      BY <3>1, <3>2, <3>3 DEF IsNewRequest, Start
    <3> QED BY <2>4, <3>4 DEF Opens, Closes
  <2> QED BY <2>5, <2>7, <2>8
<1>8. CASE /\ \/ WorkerGet \/ GpuStep \/ IdleElapses
              \/ WatchStat \/ WatchDecide \/ WatchUnlink \/ WatchPut
           /\ UNCHANGED engineVars /\ UNCHANGED frontVars /\ ~WorkerIngest /\ ~WorkerFlush
  <2>1. UNCHANGED <<caps, req>> /\ signal' \in {signal, 0}
    BY <1>8 DEF WorkerGet, GpuStep, IdleElapses, WatchStat, WatchDecide, WatchUnlink, WatchPut
  <2>2. UNCHANGED <<before, len, fr, ph, served>>
    BY <1>8 DEF engineVars, frontVars
  <2> QED BY <1>1, <1>3, <1>4, <1>5, <1>8, <2>1, <2>2 DEF AliveInv
<1>9. CASE (EngineForward \/ EngineReturn) /\ ~WorkerIngest /\ ~WorkerFlush
  <2>1. UNCHANGED <<caps, req, signal, before, len, fr, ph>> /\ served' \in {served, served + 1}
    BY <1>9 DEF EngineForward, Record, EngineReturn, hookVars, frontVars
  <2>2. served <= served' /\ served' \in Nat
    BY <1>1, <2>1
  <2> QED BY <1>3, <1>4, <1>5, <1>9, <2>1, <2>2 DEF AliveInv
<1>10. ASSUME UNCHANGED hookVars, ~InGrace PROVE Stuck'
  <2>1. Alive /\ hand' = hand
    BY <1>3, <1>10 DEF hookVars
  <2>2. ~WorkerIngest /\ ~WorkerFlush
    <3>1. Nothing.kind = "nothing"
      BY DEF Nothing
    <3> QED BY <2>1, <3>1 DEF WorkerIngest, WorkerFlush, Resolved
  <2> QED BY <1>5, <1>10, <2>1, <2>2 DEF AliveInv
<1>11. CASE FrontSubmit
  <2>1. PICK n \in 1 .. MaxChunks : Submit(n)
    BY <1>11 DEF FrontSubmit
  <2>2. UNCHANGED hookVars /\ ~InGrace
    BY <1>11, <2>1 DEF Submit, FrontSubmit, InGrace
  <2> QED BY <1>10, <2>2
<1>12. CASE FrontChoose
  BY <1>10, <1>12 DEF FrontChoose, InGrace
<1>13. CASE FrontSignal
  <2>1. /\ UNCHANGED <<caps, before, len, fr>> /\ fr # 0 /\ ph' = "grace" /\ Complete = {}
        /\ fr <= served /\ served' = served
    BY <1>13 DEF FrontSignal, EngineOver, engineVars
  <2> QED BY <2>1, CompleteKept DEF InGrace
<1>14. CASE FrontGraceOut
  <2>1. UNCHANGED hookVars /\ CaughtUp
    BY <1>14 DEF FrontGraceOut
  <2>2. CASE InGrace
    <3>1. served = nreq
      BY <1>1, <1>2, <2>2 DEF InGrace
    <3>2. Alive
      BY <1>3, <2>1 DEF hookVars
    <3>3. q = <<>> /\ hand = Nothing /\ ~Settled(caps[req]) /\ ran = rec
      BY <2>1, <3>1, <3>2 DEF CaughtUp, Alive, RanInv
    <3>4. ~Aligned(caps[req])
      BY <3>3 DEF Settled
    <3>5. at = 0 /\ lay = 0 /\ ~IsItem(hand)
      BY <3>1, <3>3 DEF EngineOrder, IsItem, Nothing
    <3>6. \A x \in Coming : Start(x)
      BY <3>3, <3>5, ComingExists DEF Start
    <3>7. ~WorkerIngest /\ ~WorkerFlush
      <4>1. Nothing.kind = "nothing"
        BY DEF Nothing
      <4> QED BY <3>3, <4>1 DEF WorkerIngest, WorkerFlush, Resolved
    <3> QED BY <1>5, <3>4, <3>6, <3>7 DEF Stuck
  <2>3. CASE ~InGrace
    BY <1>10, <2>1, <2>3
  <2> QED BY <2>2, <2>3
<1>15. CASE FrontGivesUp \/ FrontPull
  BY <1>10, <1>15 DEF FrontGivesUp, FrontPull, InGrace
<1>16. CASE UNCHANGED vars
  <2>1. CASE InGrace
    BY <1>1, <1>4, <1>16, <2>1 DEF vars, hookVars, engineVars, frontVars
  <2>2. CASE ~InGrace
    BY <1>10, <1>16, <2>2 DEF vars
  <2> QED BY <2>1, <2>2
<1> QED BY <1>6, <1>7, <1>8, <1>9, <1>11, <1>12, <1>13, <1>14, <1>15, <1>16, NextCases

\* A queue that is not empty has one entry, or more.
LEMMA OneOrMore ==
  ASSUME NEW n \in Nat, n >= 1
  PROVE  n >= 2 \/ n = 1
OBVIOUS

\* A flush on demand is decided between two prompts, and nothing but the first item
\* of the later one comes after it.
LEMMA EndStep ==
  ASSUME ~Direct, PromptHook, TypeInv, DemandInv, EngineOrder, OrderInv, PendInv, SeenInv, AliveInv, EndInv,
         [Next]_vars, faults' = 0
  PROVE  EndInv'
<1> USE HookAssumption, BridgeAssumption
<1>1. /\ HookInv /\ q \in Seq(BoundedItem \cup Sentinel) /\ Len(q) \in Nat /\ req \in 0 .. Len(caps)
      /\ signal \in Nat /\ seen \in Nat
      /\ served \in Nat /\ nreq \in Nat /\ served <= nreq /\ at \in Nat /\ fr \in Nat
      /\ hand \in BoundedItem \cup Sentinel \cup {Nothing}
  BY DEF TypeInv, HookInv, EngineInv, FrontInv, BridgeAssumption
<1>2. /\ KnownPrompts /\ (fr # 0 => fr = nreq)
      /\ fire # "none" => wpc \in {"unlink", "put"} /\ q = <<>>
      /\ \A i \in 2 .. Len(q) : q[i].kind = "item"
  BY DEF DemandInv, PendInv
<1>3. Nothing.kind = "nothing"
  BY DEF Nothing
<1> DEFINE E1 == fire = "flush_now" => at = 0 /\ lay = 0
           E2 == Queued /\ q[1].reason = "flush_now" => Start(Stream[2])
           E3 == hand.kind = "flush" /\ hand.reason = "flush_now" => \A x \in Coming : Start(x)
<1>4. EndInv' <=> E1' /\ E2' /\ E3'
  BY DEF EndInv
<1>5. E1 /\ E2 /\ E3
  BY DEF EndInv
<1>6. Len(q) >= 1 => /\ Stream[2] = IF Len(q) >= 2 THEN q[2]
                          ELSE [kind |-> "item", rq |-> served + 1, at |-> at, li |-> lay, ev |-> rec + 1]
                     /\ IsItem(Stream[2]) /\ Stream[1] = q[1]
  <2> SUFFICES ASSUME Len(q) >= 1
               PROVE  /\ Stream[2] = IF Len(q) >= 2 THEN q[2]
                           ELSE [kind |-> "item", rq |-> served + 1, at |-> at, li |-> lay, ev |-> rec + 1]
                      /\ IsItem(Stream[2]) /\ Stream[1] = q[1]
    OBVIOUS
  <2>1. 2 \in 0 .. Len(q) + 1 /\ 1 \in 0 .. Len(q) + 1
    BY <1>1
  <2>2. /\ Stream[2] = IF Len(q) >= 2 THEN q[2]
             ELSE [kind |-> "item", rq |-> served + 1, at |-> at, li |-> lay, ev |-> rec + 1]
        /\ Stream[1] = q[1]
    BY <1>1, <2>1 DEF Stream
  <2> QED BY <1>1, <1>2, <2>2 DEF IsItem
<1>7. CASE WorkerGet /\ UNCHANGED engineVars
  <2>1. /\ hand = Nothing /\ q # <<>> /\ hand' = q[1] /\ q' = Tail(q) /\ Len(q') = Len(q) - 1 /\ Len(q) >= 1
        /\ \A i \in 1 .. Len(q') : q'[i] = q[i + 1]
        /\ UNCHANGED <<fire, at, lay, served, rec>>
    BY <1>1, <1>7 DEF WorkerGet, engineVars
  <2>2. ~Queued'
    <3> SUFFICES ASSUME q' # <<>> PROVE q'[1].kind # "flush"
      BY DEF Queued
    <3>1. 1 \in 1 .. Len(q') /\ 2 \in 2 .. Len(q)
      BY <1>1, <2>1
    <3> QED BY <1>2, <2>1, <3>1
  <2>3. E3'
    <3> SUFFICES ASSUME q[1].kind = "flush", q[1].reason = "flush_now", NEW y \in Coming' PROVE Start(y)
      BY <2>1
    <3>1. Start(Stream[2]) /\ IsItem(Stream[2])
      BY <1>5, <1>6, <2>1 DEF Queued
    <3>2. Stream'[0] = hand' /\ Stream'[1] = Stream[2]
      <4>1. Stream'[0] = hand'
        BY <1>1, <2>1 DEF Stream
      <4>2. 1 \in 0 .. Len(q') + 1 /\ 2 \in 0 .. Len(q) + 1
        BY <1>1, <2>1
      <4>3. Stream'[1] = IF Len(q') >= 1 THEN q'[1]
               ELSE [kind |-> "item", rq |-> served + 1, at |-> at, li |-> lay, ev |-> rec + 1]
        BY <1>1, <2>1, <4>2 DEF Stream
      <4>4. Len(q') >= 1 => q'[1] = q[2] /\ Len(q) >= 2
        BY <1>1, <2>1
      <4>5. ~(Len(q') >= 1) => ~(Len(q) >= 2)
        BY <1>1, <2>1
      <4> QED BY <1>6, <2>1, <4>1, <4>3, <4>4, <4>5
    <3>3. PICK k \in 0 .. Len(q') + 1 : IsItem(Stream'[k]) /\ NoItem(Stream', 0, k - 1) /\ y = Stream'[k]
      BY DEF Coming, FirstOf
    <3>4. ~(1 \in 0 .. k - 1)
      BY <3>1, <3>2, <3>3 DEF NoItem
    <3>5. k # 0
      BY <2>1, <3>2, <3>3 DEF IsItem
    <3>6. k = 1
      BY <1>1, <2>1, <3>3, <3>4, <3>5
    <3> QED BY <3>1, <3>2, <3>3, <3>6
  <2>4. E1'
    BY <1>5, <2>1
  <2> QED BY <1>4, <2>2, <2>3, <2>4
<1>8. CASE (WorkerIngest \/ WorkerFlush) /\ UNCHANGED engineVars
  <2>1. hand' = Nothing /\ UNCHANGED <<fire, q, at, lay, served, rec>>
    BY <1>1, <1>8, IngestShape, FlushShape DEF engineVars
  <2>2. \A k \in 1 .. Len(q) + 1 : Stream'[k] = Stream[k]
    BY <1>1, <2>1 DEF Stream
  <2>3. E2'
    <3> SUFFICES ASSUME Queued', q'[1].reason = "flush_now" PROVE Start(Stream'[2])
      OBVIOUS
    <3>1. Queued /\ q[1].reason = "flush_now" /\ Len(q) >= 1
      BY <1>1, <2>1 DEF Queued
    <3>2. Stream'[2] = Stream[2]
      BY <1>1, <2>2, <3>1
    <3> QED BY <1>5, <3>1, <3>2
  <2> QED BY <1>3, <1>4, <1>5, <2>1, <2>3
<1>9. CASE WatchDecide /\ UNCHANGED engineVars
  <2>1. UNCHANGED <<q, hand, at, lay, served, rec, caps, req, signal>> /\ wpc = "decide"
    BY <1>9 DEF WatchDecide, engineVars
  <2>2. Stream' = Stream
    BY <2>1 DEF Stream
  <2>3. E2' /\ E3'
    BY <1>5, <2>1, <2>2 DEF Queued, Coming
  <2>4. E1'
    <3> SUFFICES ASSUME fire' = "flush_now" PROVE at = 0 /\ lay = 0
      BY <2>1
    <3>1. fire # "flush_now" /\ req # 0 /\ fire' = Verdict(caps[req])
      BY <1>2, <1>9, <2>1 DEF WatchDecide
    <3>2. Demanded(caps[req]) /\ Settled(caps[req])
      BY <3>1 DEF Verdict
    <3>3. Alive
      <4>1. caps[req].first_t \in Nat
        <5>1. caps \in Seq(BoundedCapture) /\ req \in 1 .. Len(caps)
          BY <1>1, <3>1 DEF HookInv
        <5>2. caps[req] \in BoundedCapture
          BY <5>1
        <5> QED BY <5>2 DEF BoundedCapture
      <4> QED BY <1>1, <2>1, <3>1, <3>2, <4>1 DEF Demanded, SeenInv, Alive
    <3>4. InGrace
      BY <3>2, <3>3 DEF AliveInv, Stuck, Settled
    <3> QED BY <1>1, <1>2, <3>4 DEF InGrace, EngineOrder
  <2> QED BY <1>4, <2>3, <2>4
<1>10. CASE WatchPut /\ UNCHANGED engineVars
  <2>1. /\ fire # "none" /\ q = <<>> /\ fire' = "none" /\ UNCHANGED <<hand, at, lay, served, rec>>
        /\ q' = <<[kind |-> "flush", reason |-> fire]>>
    BY <1>1, <1>2, <1>10 DEF WatchPut, engineVars, HookInv
  <2>2. Len(q') = 1 /\ q'[1].reason = fire
    BY <2>1
  <2>3. E2'
    <3> SUFFICES ASSUME fire = "flush_now" PROVE Start(Stream'[2])
      BY <2>2
    <3>1. Stream'[2] = [kind |-> "item", rq |-> served' + 1, at |-> at', li |-> lay', ev |-> rec' + 1]
      BY <2>2 DEF Stream
    <3> QED BY <1>5, <2>1, <3>1 DEF Start
  <2>4. E3'
    <3>1. Coming' \subseteq Coming
      BY <1>10, PutOrder
    <3> QED BY <1>5, <2>1, <3>1
  <2> QED BY <1>4, <2>1, <2>3, <2>4
<1>11. CASE EngineForward
  <2> DEFINE item == [kind |-> "item", rq |-> served + 1, at |-> at, li |-> lay, ev |-> rec + 1]
  <2>1. fire = "none" /\ q' = Append(q, item) /\ UNCHANGED <<fire, hand, served>>
    BY <1>2, <1>11 DEF EngineForward, WatcherDone, Record
  <2>2. item.kind = "item" /\ item = [kind |-> "item", rq |-> served + 1, at |-> at, li |-> lay, ev |-> rec + 1]
    OBVIOUS
  <2> HIDE DEF item
  <2>3. /\ Len(q') = Len(q) + 1 /\ \A i \in 1 .. Len(q) : q'[i] = q[i]
        /\ q'[Len(q) + 1] = item
    BY <1>1, <2>1
  <2>4. Coming' \subseteq Coming
    BY <1>11, ForwardOrder
  <2>5. E2'
    <3> SUFFICES ASSUME q' # <<>>, q'[1].kind = "flush", q'[1].reason = "flush_now" PROVE Start(Stream'[2])
      BY DEF Queued
    <3>1. Len(q) >= 1
      <4>1. Len(q) = 0 => q'[1] = item
        BY <2>3
      <4> QED BY <1>1, <2>2, <4>1
    <3>2. q'[1] = q[1] /\ q # <<>>
      BY <1>1, <2>3, <3>1
    <3>3. Start(Stream[2])
      BY <1>5, <3>2 DEF Queued
    <3>4. Stream'[2] = q'[2]
      BY <1>1, <2>3, <3>1 DEF Stream
    <3>5. q'[2] = Stream[2]
      <4>1. CASE Len(q) >= 2
        BY <1>1, <1>6, <2>3, <3>1, <4>1
      <4>2. CASE Len(q) = 1
        BY <1>6, <2>2, <2>3, <4>2
      <4>3. Len(q) >= 2 \/ Len(q) = 1
        BY <1>1, <3>1, OneOrMore
      <4> QED BY <4>1, <4>2, <4>3
    <3> QED BY <3>3, <3>4, <3>5
  <2> QED BY <1>4, <1>5, <2>1, <2>4, <2>5
<1>12. CASE EngineReturn
  <2>1. /\ at = len[served + 1] /\ served # nreq /\ UNCHANGED <<q, hand, fire, lay, rec>> /\ at' = 0
        /\ served' = served + 1
    BY <1>12 DEF EngineReturn, EngineFree, hookVars
  <2>2. at >= 1 /\ lay = 0
    BY <1>1, <2>1 DEF EngineOrder
  <2>3. E1'
    BY <1>1, <1>5, <2>1, <2>2
  <2>4. \A y \in Coming' : y \in Coming \/ Start(y)
    BY <1>2, <1>12, ReturnOrder
  <2>5. E2'
    <3> SUFFICES ASSUME q # <<>>, q[1].kind = "flush", q[1].reason = "flush_now" PROVE Start(Stream'[2])
      BY <2>1 DEF Queued
    <3>1. Len(q) >= 1 /\ Start(Stream[2])
      BY <1>1, <1>5 DEF Queued
    <3>2. CASE Len(q) >= 2
      <4>1. Stream'[2] = q[2]
        BY <1>1, <2>1, <3>2 DEF Stream
      <4> QED BY <1>6, <3>1, <3>2, <4>1
    <3>3. CASE Len(q) = 1
      <4>1. Stream'[2] = [kind |-> "item", rq |-> served' + 1, at |-> at', li |-> lay', ev |-> rec' + 1]
        BY <2>1, <3>3 DEF Stream
      <4> QED BY <2>1, <2>2, <4>1 DEF Start
    <3>4. Len(q) >= 1
      BY <3>1
    <3>5. Len(q) >= 2 \/ Len(q) = 1
      BY <1>1, <3>4, OneOrMore
    <3> QED BY <3>2, <3>3, <3>5
  <2> QED BY <1>4, <1>5, <2>1, <2>3, <2>4, <2>5
<1>13. ASSUME UNCHANGED <<fire, q, hand, at, lay, served, rec>> PROVE EndInv'
  <2>1. Stream' = Stream
    BY <1>13 DEF Stream
  <2> QED BY <1>4, <1>5, <1>13, <2>1 DEF Queued, Coming
<1>14. CASE FrontSubmit
  <2>1. PICK n \in 1 .. MaxChunks : Submit(n)
    BY <1>14 DEF FrontSubmit
  <2> QED BY <1>13, <2>1 DEF Submit, hookVars
<1>15. CASE (GpuStep \/ IdleElapses \/ WatchStat \/ WatchUnlink) /\ UNCHANGED engineVars
  BY <1>13, <1>15 DEF GpuStep, IdleElapses, WatchStat, WatchUnlink, engineVars
<1>16. CASE FrontChoose \/ FrontSignal \/ FrontGraceOut \/ FrontGivesUp \/ FrontPull \/ UNCHANGED vars
  BY <1>13, <1>16 DEF FrontChoose, FrontSignal, FrontGraceOut, FrontGivesUp, FrontPull, vars, hookVars, engineVars
<1> QED BY <1>7, <1>8, <1>9, <1>10, <1>11, <1>12, <1>14, <1>15, <1>16, NextCases

-----------------------------------------------------------------------------
(* A capture closed on demand is whole *)

FlushedInv ==
  \A s \in DOMAIN caps : caps[s].reason = "flush_now" /\ UsablePrefix(caps[s]) > 0 =>
    \A li \in Layers : NextPos(caps[s], li) = len[caps[s].own]

\* A capture is closed on demand by the flush that says so, and by nothing else.
LEMMA ReasonStep ==
  ASSUME TypeInv, OpenIsUnpublished, [Next]_vars, faults' = 0, NEW s \in 1 .. Len(caps'),
         caps'[s].reason = "flush_now"
  PROVE  \/ s \in 1 .. Len(caps) /\ Frozen(caps'[s], caps[s])
         \/ /\ s = req /\ WorkerFlush /\ hand.kind = "flush" /\ hand.reason = "flush_now"
            /\ caps'[s] = Finished(caps[s], "flush_now")
<1> USE HookAssumption, BridgeAssumption
<1>1. HookInv /\ caps \in Seq(BoundedCapture) /\ Len(caps) \in Nat /\ req \in 0 .. Len(caps)
  BY DEF TypeInv, HookInv
<1>2. \A i \in 1 .. Len(caps) : caps[i] \in BoundedCapture
  BY <1>1
<1>3. ASSUME NEW base \in BoundedCapture, base.reason = "none", NEW k, Took(k, base), hand \in BoundedItem
      PROVE  caps'[k].reason # "flush_now"
  <2>1. Feed(base, hand, "none").reason = "none"
    BY <1>3, FeedFields
  <2>2. CASE caps'[k] = Feed(base, hand, "none")
    BY <2>1, <2>2
  <2>3. CASE caps'[k] = Finished(Feed(base, hand, "none"), "mem-floor-seal")
    <3>1. Feed(base, hand, "none") \in BoundedCapture
      BY <1>3, TookShape
    <3> QED BY <2>1, <2>3, <3>1, FinishedKept DEF Reasons
  <2> QED BY <1>3, <2>2, <2>3 DEF Took
<1>4. CASE WorkerIngest
  <2>1. hand \in BoundedItem /\ (TakesIn \/ \E base : OpensFor(base))
    BY <1>1, <1>4, IngestShape
  <2>2. CASE TakesIn
    <3>1. s \in 1 .. Len(caps) /\ Took(req, caps[req]) /\ req # 0 /\ (s # req => caps'[s] = caps[s])
      BY <1>1, <2>2 DEF TakesIn
    <3>2. s # req
      BY <1>2, <1>3, <2>1, <2>2, <3>1 DEF OpenIsUnpublished, TakesIn
    <3> QED BY <3>1, <3>2 DEF Frozen, Kept
  <2>3. CASE \E base : OpensFor(base)
    <3>1. PICK base : OpensFor(base)
      BY <2>3
    <3>2. s \in 1 .. Len(caps) \/ s = Len(caps) + 1
      BY <1>1, <3>1 DEF OpensFor
    <3>3. base.reason = "none" /\ base \in BoundedCapture /\ Took(Len(caps) + 1, base)
      BY <3>1, FreshFields DEF OpensFor
    <3>4. s # Len(caps) + 1
      BY <1>3, <2>1, <3>3
    <3>5. s # req
      <4> SUFFICES ASSUME s = req PROVE FALSE
        OBVIOUS
      <4>1. Frozen(caps'[req], Finished(caps[req], "new-request")) /\ caps[req].reason = "none"
        BY <1>1, <3>1, <3>2, <3>4 DEF OpensFor, OpenIsUnpublished
      <4>2. caps'[req].reason \in {"none", "new-request"}
        BY <1>2, <3>2, <3>4, <4>1, FinishedKept DEF Frozen, Reasons
      <4> QED BY <4>2
    <3> QED BY <3>1, <3>2, <3>4, <3>5 DEF OpensFor
  <2> QED BY <2>1, <2>2, <2>3
<1>5. CASE WorkerFlush
  <2>1. /\ hand \in Sentinel /\ hand.kind = "flush" /\ Len(caps') = Len(caps)
        /\ \A i \in 1 .. Len(caps) : i # req => caps'[i] = caps[i]
        /\ req # 0 => req \in 1 .. Len(caps) /\ caps'[req] = Finished(caps[req], hand.reason)
    BY <1>1, <1>5, FlushShape
  <2>2. CASE s # req
    BY <2>1, <2>2 DEF Frozen, Kept
  <2>3. CASE s = req
    <3>1. caps[req].reason = "none" /\ req # 0
      BY <2>1, <2>3 DEF OpenIsUnpublished
    <3>2. hand.reason \in Reasons
      BY <2>1 DEF Sentinel, Reasons
    <3>3. hand.reason = "flush_now"
      BY <1>2, <2>1, <2>3, <3>1, <3>2, FinishedKept
    <3> QED BY <1>5, <2>1, <2>3, <3>1, <3>3
  <2> QED BY <2>2, <2>3
<1>6. CASE UNCHANGED <<caps, req>>
  BY <1>6 DEF Frozen, Kept
<1> QED BY <1>4, <1>5, <1>6, OthersKeepCaps

\* What a flush on demand finds open, if it is usable, has its prompt in every layer.
LEMMA FlushFindsWhole ==
  ASSUME TypeInv, KnownPrompts, EngineOrder, HeadedInv, PendInv, EndInv, hand.kind = "flush",
         hand.reason = "flush_now", req # 0, caps[req].part = 0, ~HasGap(caps[req]), NEW li \in Layers
  PROVE  NextPos(caps[req], li) = len[caps[req].own]
<1> USE HookAssumption, BridgeAssumption
<1> DEFINE c == caps[req]
<1>1. c \in BoundedCapture /\ req \in DOMAIN caps
  BY DEF TypeInv, HookInv
<1>2. 0 \in Layers
  BY DEF HookAssumption, Layers
<1>3. c.fed[li] \in Seq(BoundedRow) /\ c.fed[0] \in Seq(BoundedRow)
  BY <1>1, <1>2 DEF BoundedCapture
<1>4. len[c.own] \in Nat /\ len[c.own] >= 1
  <2>1. c.own \in Requests /\ c.own <= nreq
    BY <1>1 DEF BoundedCapture, KnownPrompts
  <2>2. c.own \in 1 .. nreq
    BY <2>1 DEF TypeInv, EngineInv, BridgeAssumption
  <2> QED BY <2>1, <2>2 DEF EngineOrder, TypeInv, EngineInv, BridgeAssumption
<1>5. Headed(c)
  <2>1. c.fed[0] # <<>>
    BY DEF PendInv, Pending, Headless
  <2>2. Len(c.fed[0]) >= 1
    BY <1>3, <2>1
  <2>3. c.fed[0][1].at = 1 - 1
    BY <1>1, <1>2, <1>3, <2>2, NoGap
  <2> QED BY <2>1, <2>3 DEF Headed
<1>6. PICK x : x \in Coming
  BY ComingExists
<1>7. Start(x) /\ HeadedAt(len, c, x) /\ RowsInPlace(c)
  BY <1>5, <1>6 DEF EndInv, HeadedInv
<1>8. Len(c.fed[li]) = len[c.own]
  <2>1. CASE x.rq = c.own
    <3>1. Len(c.fed[0]) = 0
      BY <1>2, <1>7, <2>1 DEF HeadedAt, FedUpTo, Start
    <3> QED BY <1>3, <1>5, <3>1 DEF Headed
  <2>2. CASE x.rq # c.own
    BY <1>7, <2>2 DEF HeadedAt
  <2> QED BY <2>1, <2>2
<1>9. c.fed[li][Len(c.fed[li])].at = Len(c.fed[li]) - 1 /\ c.fed[li] # <<>>
  <2>1. Len(c.fed[li]) \in 1 .. Len(c.fed[li])
    BY <1>4, <1>8
  <2>2. c.fed[li][Len(c.fed[li])].at = Len(c.fed[li]) - 1
    BY <1>7, <2>1 DEF RowsInPlace
  <2>3. Len(c.fed[li]) # 0
    BY <1>4, <1>8
  <2>4. c.fed[li] # <<>>
    BY <2>3
  <2> QED BY <2>2, <2>4
<1> QED BY <1>4, <1>8, <1>9 DEF NextPos

\* Every other step leaves the captures closed on demand as they are.
LEMMA FlushedStep ==
  ASSUME TypeInv, KnownPrompts, EngineOrder, OpenIsUnpublished, HeadedInv, PendInv, EndInv, FlushedInv,
         [Next]_vars, faults' = 0
  PROVE  FlushedInv'
<1> USE HookAssumption, BridgeAssumption
<1> SUFFICES ASSUME NEW s \in 1 .. Len(caps'), caps'[s].reason = "flush_now", UsablePrefix(caps'[s]) > 0,
                    NEW li \in Layers
             PROVE  NextPos(caps'[s], li) = len'[caps'[s].own]
  <2>1. HookInv'
    BY TypeStep DEF TypeInv
  <2>2. DOMAIN caps' = 1 .. Len(caps')
    BY <2>1 DEF HookInv
  <2> QED BY <2>2 DEF FlushedInv
<1>1. ASSUME s \in 1 .. Len(caps), Kept(caps'[s], caps[s]), NextPos(caps[s], li) = len[caps[s].own]
      PROVE  NextPos(caps'[s], li) = len'[caps'[s].own]
  <2>1. caps[s] \in BoundedCapture /\ s \in DOMAIN caps
    BY <1>1 DEF TypeInv, HookInv
  <2>2. caps[s].own \in Requests /\ caps[s].own <= nreq
    BY <2>1 DEF BoundedCapture, KnownPrompts
  <2>3. len'[caps[s].own] = len[caps[s].own]
    BY <2>2, LengthKept
  <2> QED BY <1>1, <2>3 DEF Kept, NextPos
<1>2. CASE s \in 1 .. Len(caps) /\ Frozen(caps'[s], caps[s])
  <2>1. UsablePrefix(caps[s]) > 0 /\ caps[s].reason = "flush_now" /\ s \in DOMAIN caps
    <3>1. DOMAIN caps = 1 .. Len(caps)
      BY DEF TypeInv, HookInv
    <3>2. UsablePrefix(caps[s]) = UsablePrefix(caps'[s]) /\ caps[s].reason = caps'[s].reason
      BY <1>2, FrozenUsable DEF Frozen
    <3> QED BY <1>2, <3>1, <3>2
  <2>2. NextPos(caps[s], li) = len[caps[s].own]
    BY <2>1 DEF FlushedInv
  <2> QED BY <1>1, <1>2, <2>2 DEF Frozen
<1>3. CASE /\ s = req /\ WorkerFlush /\ hand.kind = "flush" /\ hand.reason = "flush_now"
           /\ caps'[s] = Finished(caps[s], "flush_now")
  <2>1. req \in 1 .. Len(caps) /\ req # 0 /\ caps[req] \in BoundedCapture
    BY <1>3 DEF TypeInv, HookInv
  <2>2. Kept(caps'[s], caps[s])
    BY <1>3, <2>1, FinishedKept DEF Reasons
  <2>3. caps'[s].part = 0 /\ ~HasGap(caps'[s])
    BY DEF UsablePrefix
  <2>4. caps[req].part = 0 /\ ~HasGap(caps[req])
    <3>1. caps'[s].part = caps[s].part /\ caps'[s].fed = caps[s].fed /\ s = req
      BY <1>3, <2>2 DEF Kept
    <3>2. HasGap(caps'[s]) <=> HasGap(caps[s])
      BY <3>1 DEF HasGap
    <3> QED BY <2>3, <3>1, <3>2
  <2>5. NextPos(caps[req], li) = len[caps[req].own]
    BY <1>3, <2>1, <2>4, FlushFindsWhole
  <2> QED BY <1>1, <1>3, <2>1, <2>2, <2>5
<1> QED BY <1>2, <1>3, ReasonStep

\* Everything the argument carries while nothing has failed.
FlushInv ==
  /\ PurityInv /\ OrderInv /\ HeadlessInv /\ HeadedInv /\ OpenIsUnpublished
  /\ PendInv /\ SeenInv /\ RanInv /\ AliveInv /\ EndInv /\ FlushedInv

\* At the start nothing is open, queued, signalled or decided.
LEMMA FlushInit ==
  ASSUME Init
  PROVE  FlushInv /\ DemandInv
<1>1. PurityInv
  BY PurityInit
<1>2. caps = <<>> /\ req = 0 /\ q = <<>> /\ hand = Nothing /\ fire = "none" /\ signal = 0 /\ wpc = "stat"
      /\ rec = 0 /\ ran = 0
  BY DEF Init, HookInit
<1>3. DemandInv
  BY DEF Init, HookInit, DemandInv, KnownPrompts, SignalIsLate, Nothing
<1>4. HeadlessInv /\ HeadedInv /\ OpenIsUnpublished /\ SeenInv /\ RanInv /\ FlushedInv
  BY <1>2 DEF HeadlessInv, HeadedInv, OpenIsUnpublished, SeenInv, RanInv, FlushedInv
<1>5. PendInv /\ AliveInv /\ EndInv
  BY <1>2 DEF PendInv, Pending, Queued, AliveInv, Alive, EndInv, Nothing
<1>6. OrderInv
  <2>1. ~IsItem(Stream[0]) /\ Len(q) + 1 = 1
    BY <1>2 DEF Stream, IsItem, Nothing
  <2>2. InSequence(len, Stream, Len(q) + 1)
    <3> SUFFICES ASSUME NEW k \in 0 .. 1, NEW j \in 0 .. k - 1, IsItem(Stream[j]) PROVE FALSE
      BY <2>1 DEF InSequence
    <3>1. j = 0
      OBVIOUS
    <3> QED BY <2>1, <3>1
  <2> QED BY <1>2, <2>2 DEF OrderInv
<1> QED BY <1>1, <1>3, <1>4, <1>5, <1>6 DEF FlushInv

\* No step takes a failure back.
LEMMA FaultsStay ==
  ASSUME TypeInv, [Next]_vars, faults' = 0
  PROVE  faults = 0
<1>1. faults \in Nat
  BY DEF TypeInv, HookInv
<1>2. CASE Worker \/ WorkerFault
  <2>1. faults' = faults \/ faults' = faults + 1
    BY <1>2 DEF Worker, WorkerFault, WorkerGet, WorkerIngest, WorkerFlush, WorkerDrop, WorkerCloseFails,
       WorkerDiskFloor
  <2> QED BY <1>1, <2>1
<1>3. CASE UNCHANGED faults
  BY <1>3
<1> QED BY <1>2, <1>3 DEF Next, Hook, IdleMayElapse, vars, hookVars, Watcher, Engine, Front,
       GpuStep, WatchStat, WatchDecide, WatchUnlink, WatchPut, IdleElapses, DirectSubmit, Submit,
       EngineForward, Record, EngineReturn, FrontSubmit, FrontChoose, FrontSignal, FrontGraceOut,
       FrontGivesUp, FrontPull

\* No step without a failure breaks any part of the argument.
LEMMA FlushStep ==
  ASSUME ~Direct, PromptHook, TypeInv, DemandInv, FlushInv, [Next]_vars, faults' = 0
  PROVE  FlushInv'
<1>1. /\ PurityInv /\ OrderInv /\ HeadlessInv /\ HeadedInv /\ OpenIsUnpublished
      /\ PendInv /\ SeenInv /\ RanInv /\ AliveInv /\ EndInv /\ FlushedInv /\ KnownPrompts
  BY DEF FlushInv, DemandInv
<1>2. EngineOrder
  BY <1>1 DEF PurityInv
<1>3. PurityInv' /\ OrderInv' /\ HeadlessInv' /\ HeadedInv'
  BY <1>1, <1>2, PurityStep, OrderStep, HeadlessStep, HeadedStep
<1>4. OpenIsUnpublished'
  BY <1>1, OpenStep DEF OpenIsUnpublished
<1>5. PendInv' /\ SeenInv' /\ RanInv'
  BY <1>1, PendStep, SeenStep
<1>6. AliveInv' /\ EndInv'
  BY <1>1, <1>2, AliveStep, EndStep
<1>7. FlushedInv'
  BY <1>1, <1>2, FlushedStep
<1> QED BY <1>3, <1>4, <1>5, <1>6, <1>7 DEF FlushInv

\* When the front is the engine's only client and the hook keeps up with it, a
\* capture closed on demand ends, while no exception has been swallowed, at the
\* end of its prompt in every layer: for any layers, prompts, deadlines and idle
\* cuts, whatever was queued or in the worker's hand when the watcher decided.
THEOREM FlushWholeCorrect == ASSUME ~Direct, PromptHook PROVE Spec => []FlushNowIsWhole
<1> DEFINE Inv == TypeInv /\ DemandInv /\ (faults = 0 => FlushInv)
<1>1. Init => Inv
  BY TypeInit, FlushInit
<1>2. Inv /\ [Next]_vars => Inv'
  <2> SUFFICES ASSUME Inv, [Next]_vars PROVE Inv'
    OBVIOUS
  <2>1. TypeInv' /\ DemandInv'
    BY TypeStep, DemandStep
  <2>2. ASSUME faults' = 0 PROVE FlushInv'
    BY <2>2, FaultsStay, FlushStep
  <2> QED BY <2>1, <2>2
<1>3. Inv => FlushNowIsWhole
  BY DEF FlushInv, FlushedInv, FlushNowIsWhole
<1> QED BY <1>1, <1>2, <1>3, PTL DEF Spec

-----------------------------------------------------------------------------
(* What is stored is the prompt's own *)

\* The items awaited belong to prompts, and those not yet run to the next one.
LEMMA AwaitedTypes ==
  ASSUME TypeInv, KnownPrompts
  PROVE  /\ \A x \in Awaited : x.rq \in Nat /\ x.rq >= 1
         /\ \E x \in Awaited : x.rq = served + 1
         /\ q = <<>> /\ hand = Nothing => \A x \in Awaited : x.rq = served + 1
<1> USE HookAssumption, BridgeAssumption
<1>1. /\ q \in Seq(BoundedItem \cup Sentinel) /\ Len(q) \in Nat /\ served \in Nat
  BY DEF TypeInv, HookInv, EngineInv
<1>2. ASSUME NEW x \in Awaited PROVE x.rq \in Nat /\ x.rq >= 1
  <2>1. PICK k \in 0 .. Len(q) + 1 : IsItem(Stream[k]) /\ x = Stream[k]
    BY DEF Awaited, ItemsOf
  <2>2. CASE k # Len(q) + 1
    <3>1. x.rq \in 1 .. nreq
      BY <2>1, <2>2, StreamItems
    <3> QED BY <3>1
  <2>3. CASE k = Len(q) + 1
    <3>1. x.rq = served + 1
      BY <2>1, <2>3, StreamItems
    <3> QED BY <1>1, <3>1
  <2> QED BY <2>2, <2>3
<1> DEFINE last == [kind |-> "item", rq |-> served + 1, at |-> at, li |-> lay, ev |-> rec + 1]
<1>3. Stream[Len(q) + 1] = last /\ Len(q) + 1 \in 0 .. Len(q) + 1
  BY <1>1 DEF Stream
<1>4. last \in Awaited /\ last.rq = served + 1
  BY <1>3 DEF Awaited, ItemsOf, IsItem
<1>5. ASSUME q = <<>>, hand = Nothing, NEW x \in Awaited PROVE x.rq = served + 1
  <2>1. PICK k \in 0 .. Len(q) + 1 : IsItem(Stream[k]) /\ x = Stream[k]
    BY DEF Awaited, ItemsOf
  <2>2. k # 0
    BY <1>5, <2>1 DEF Stream, IsItem, Nothing
  <2>3. k = Len(q) + 1
    BY <1>5, <2>1, <2>2
  <2> QED BY <1>3, <2>1, <2>3
<1> QED BY <1>2, <1>4, <1>5

\* No capture changes hands.
LEMMA OwnKept ==
  ASSUME TypeInv, [Next]_vars, faults' = 0
  PROVE  /\ Len(caps) <= Len(caps')
         /\ \A s \in 1 .. Len(caps) : caps'[s].own = caps[s].own
         /\ \A r : Begun(r) => Begun(r)'
<1>1. HookInv /\ Len(caps) \in Nat
  BY DEF TypeInv, HookInv
<1>2. Len(caps) <= Len(caps') /\ \A s \in 1 .. Len(caps) : caps'[s].own = caps[s].own
  <2>1. CASE WorkerIngest \/ WorkerFlush
    BY <1>1, <2>1, WorkerStep DEF Worker, WorkerEffect, Extends
  <2>2. CASE UNCHANGED caps
    BY <1>1, <2>2
  <2> QED BY <2>1, <2>2, OthersKeepCaps
<1>3. DOMAIN caps = 1 .. Len(caps) /\ DOMAIN caps' = 1 .. Len(caps') /\ Len(caps') \in Nat
  <2>1. HookInv'
    BY TypeStep DEF TypeInv
  <2> QED BY <1>1, <2>1 DEF HookInv
<1>4. ASSUME NEW r, Begun(r) PROVE Begun(r)'
  <2>1. PICK s \in 1 .. Len(caps) : caps[s].own = r
    BY <1>3, <1>4 DEF Begun
  <2>2. s \in DOMAIN caps' /\ caps'[s].own = r
    BY <1>1, <1>2, <1>3, <2>1
  <2> QED BY <2>2 DEF Begun
<1> QED BY <1>2, <1>4

\* When the last prompt has a capture, no first item is still to come.
LEMMA BegunOver ==
  ASSUME TypeInv, KnownPrompts, OrderInv, nreq # 0, Begun(nreq)
  PROVE  /\ \A x \in Awaited : ~(Start(x) /\ x.rq <= nreq)
         /\ nreq <= served + 1
<1>1. PICK s \in DOMAIN caps : caps[s].own = nreq
  BY DEF Begun
<1>2. \A x \in Awaited : Later(nreq, x)
  BY <1>1 DEF OrderInv
<1>3. nreq \in Nat /\ served \in Nat
  BY DEF TypeInv, EngineInv, BridgeAssumption
<1>4. \A x \in Awaited : x.rq \in Nat
  BY AwaitedTypes
<1>5. \E x \in Awaited : x.rq = served + 1
  BY AwaitedTypes
<1> QED BY <1>2, <1>3, <1>4, <1>5 DEF Later

\* The first items still to come are those of the prompt the front waits for.
LEMMA FirstStep ==
  ASSUME ~Direct, ~Deadline, PromptHook, TypeInv, DemandInv, FlushInv, FirstInv, LeaveInv,
         [Next]_vars, faults' = 0
  PROVE  FirstInv'
<1> USE BridgeAssumption
<1>1. /\ HookInv /\ nreq \in Nat /\ served \in Nat /\ served <= nreq /\ fr \in Nat
      /\ KnownPrompts /\ (fr # 0 => fr = nreq) /\ EngineOrder /\ OrderInv
  BY DEF TypeInv, EngineInv, FrontInv, DemandInv, FlushInv, PurityInv
<1>2. \A x \in Awaited : x.rq \in Nat /\ x.rq >= 1
  BY <1>1, AwaitedTypes
<1>3. ASSUME UNCHANGED <<nreq, fr, ph>>, served' \in {served, served + 1},
             \A y \in Awaited' : Start(y) => y \in Awaited \/ (y.rq = served + 2 /\ served' = served + 1)
      PROVE  FirstInv'
  <2>1. ASSUME NEW x \in Awaited', Start(x), x.rq <= nreq PROVE Due(x.rq)
    <3>1. CASE x \in Awaited
      BY <2>1, <3>1 DEF FirstInv
    <3>2. CASE x.rq = served + 2
      <4>1. x.rq \in served + 2 .. nreq
        BY <1>1, <2>1, <3>2
      <4> QED BY <4>1 DEF FirstInv
    <3> QED BY <1>3, <2>1, <3>1, <3>2
  <2>2. ASSUME NEW r \in served' + 2 .. nreq PROVE Due(r)
    <3>1. ASSUME served' = served PROVE r \in served + 2 .. nreq
      BY <1>3, <2>2, <3>1
    <3>2. ASSUME served' = served + 1 PROVE r \in served + 2 .. nreq
      <4>1. r \in served + 3 .. nreq
        BY <1>1, <1>3, <2>2, <3>2
      <4> QED BY <1>1, <4>1
    <3>3. r \in served + 2 .. nreq
      BY <1>3, <3>1, <3>2
    <3> QED BY <3>3 DEF FirstInv
  <2> QED BY <1>3, <2>1, <2>2 DEF FirstInv, Due
<1>4. CASE WorkerIngest \/ WorkerFlush
  <2>1. hand' = Nothing /\ UNCHANGED <<rec, q>> /\ UNCHANGED engineVars /\ UNCHANGED frontVars
    BY <1>1, <1>4, IngestShape, FlushShape, WorkerAlone
  <2>2. Awaited' \subseteq Awaited
    BY <1>1, <2>1, DoneOrder
  <2> QED BY <1>3, <2>1, <2>2 DEF engineVars, frontVars
<1>5. CASE EngineReturn
  <2>1. UNCHANGED <<nreq, fr, ph>> /\ served' = served + 1
    BY <1>5 DEF EngineReturn, frontVars
  <2> QED BY <1>1, <1>3, <1>5, <2>1, ReturnOrder
<1>6. ASSUME ~WorkerIngest, ~WorkerFlush, ~EngineReturn
      PROVE  \A y \in Awaited' : Start(y) => y \in Awaited
  BY <1>1, <1>6, KeptOrder
<1>7. ASSUME ~WorkerIngest, ~WorkerFlush, ~EngineReturn, UNCHANGED <<nreq, served, fr, ph>> PROVE FirstInv'
  BY <1>3, <1>6, <1>7
<1>8. CASE FrontSubmit
  <2>1. fr = 0 /\ fr' = nreq + 1 /\ nreq' = nreq + 1 /\ ph' = "prefill" /\ served' = served /\ hand' = hand
    BY <1>8 DEF FrontSubmit, Submit, hookVars
  <2>2. \A y \in Awaited' : Start(y) => y \in Awaited
    <3>1. ~UNCHANGED frontVars
      BY <1>1, <2>1 DEF frontVars
    <3>2. ~WorkerIngest /\ ~WorkerFlush
      BY <3>1, WorkerAlone
    <3>3. ~EngineReturn
      BY <1>1, <2>1 DEF EngineReturn
    <3> QED BY <1>6, <3>2, <3>3
  <2>3. ASSUME NEW x \in Awaited', Start(x), x.rq <= nreq' PROVE Due(x.rq)'
    <3>1. x \in Awaited
      BY <2>2, <2>3
    <3>2. ~(x.rq <= nreq)
      BY <1>2, <2>1, <2>3, <3>1 DEF FirstInv, Due
    <3>3. x.rq = nreq + 1
      BY <1>1, <1>2, <2>1, <2>3, <3>1, <3>2
    <3> QED BY <2>1, <3>3 DEF Due
  <2>4. ASSUME NEW r \in served' + 2 .. nreq' PROVE Due(r)'
    <3>1. ~(r \in served + 2 .. nreq)
      BY <1>1, <2>1 DEF FirstInv, Due
    <3>2. r = nreq + 1
      BY <1>1, <2>1, <2>4, <3>1
    <3> QED BY <2>1, <3>2 DEF Due
  <2> QED BY <2>3, <2>4 DEF FirstInv
<1>9. ASSUME UNCHANGED <<nreq, served>>, \A y \in Awaited' : Start(y) => y \in Awaited,
             \A x \in Awaited : ~(Start(x) /\ x.rq <= nreq), nreq <= served + 1
      PROVE  FirstInv'
  <2>1. \A x \in Awaited' : ~(Start(x) /\ x.rq <= nreq')
    BY <1>9
  <2>2. served' + 2 .. nreq' = {}
    BY <1>1, <1>9
  <2> QED BY <2>1, <2>2 DEF FirstInv
<1>10. CASE FrontChoose \/ FrontSignal \/ FrontGraceOut \/ FrontGivesUp \/ FrontPull
  <2>1. UNCHANGED <<nreq, served, at, hand, caps, before, len>> /\ fr # 0
    BY <1>10 DEF FrontChoose, FrontSignal, FrontGraceOut, FrontGivesUp, FrontPull, hookVars, engineVars
  <2>2. \A y \in Awaited' : Start(y) => y \in Awaited
    <3>1. ~WorkerIngest /\ ~WorkerFlush
      <4>1. ~UNCHANGED frontVars
        BY <1>10 DEF FrontChoose, FrontSignal, FrontGraceOut, FrontGivesUp, FrontPull, frontVars
      <4> QED BY <4>1, WorkerAlone
    <3>2. ~EngineReturn
      BY <1>1, <2>1 DEF EngineReturn
    <3> QED BY <1>6, <3>1, <3>2
  <2>3. Begun(fr) => FirstInv'
    BY <1>1, <1>9, <2>1, <2>2, BegunOver
  <2>4. len[fr] >= 1
    <3>1. fr \in 1 .. nreq
      BY <1>1, <2>1
    <3> QED BY <1>1, <3>1 DEF EngineOrder
  <2>5. CASE FrontChoose
    <3>1. Complete # {}
      BY <2>5 DEF FrontChoose
    <3>2. PICK s \in Scanned : UsablePrefix(caps[s]) = len[fr]
      BY <3>1 DEF Complete
    <3>3. len[fr] \in Nat
      BY <1>1, <2>1 DEF TypeInv, EngineInv, FrontInv
    <3>4. UsablePrefix(caps[s]) > 0
      BY <2>4, <3>2, <3>3
    <3> QED BY <2>1, <2>3, <3>2, <3>4 DEF LeaveInv
  <2>6. CASE FrontSignal
    <3>1. UNCHANGED <<fr, nreq, served>> /\ ph = "prefill" /\ ph' = "grace"
      BY <2>6 DEF FrontSignal, engineVars
    <3>2. \A x \in Awaited' : Start(x) /\ x.rq <= nreq => Due(x.rq)
      BY <2>2 DEF FirstInv
    <3>3. \A r \in served + 2 .. nreq : Due(r)
      BY DEF FirstInv
    <3> QED BY <3>1, <3>2, <3>3 DEF FirstInv, Due
  <2>7. CASE FrontGraceOut
    <3>1. CASE Scanned # {} /\ UsablePrefix(caps[Best]) > 0
      <4>1. Best \in Scanned
        BY <1>1, <3>1, HookAssumption, BestScanned DEF HookInv
      <4> QED BY <2>1, <2>3, <3>1, <4>1 DEF LeaveInv
    <3>2. CASE ~(Scanned # {} /\ UsablePrefix(caps[Best]) > 0)
      <4>1. q = <<>> /\ hand = Nothing /\ ph = "grace"
        BY <2>7 DEF FrontGraceOut, CaughtUp
      <4>2. nreq <= served
        BY <1>1, <2>1, <4>1 DEF LeaveInv
      <4>3. \A x \in Awaited : x.rq = served + 1
        BY <1>1, <4>1, AwaitedTypes
      <4>4. \A x \in Awaited : ~(x.rq <= nreq)
        BY <1>1, <4>2, <4>3
      <4>5. nreq <= served + 1
        BY <1>1, <4>2
      <4> QED BY <1>9, <2>1, <2>2, <4>4, <4>5
    <3> QED BY <3>1, <3>2
  <2>8. CASE FrontGivesUp
    BY <2>8 DEF FrontGivesUp
  <2>9. CASE FrontPull
    <3>1. ph = "pull"
      BY <2>9 DEF FrontPull
    <3> QED BY <2>1, <2>3, <3>1 DEF LeaveInv
  <2> QED BY <1>10, <2>5, <2>6, <2>7, <2>8, <2>9
<1>11. CASE EngineForward
  <2>1. UNCHANGED <<nreq, served, fr, ph>> /\ rec' = rec + 1
    BY <1>11 DEF EngineForward, frontVars, Record
  <2>2. ~WorkerIngest /\ ~WorkerFlush
    BY <1>1, <2>1, IngestShape, FlushShape DEF HookInv
  <2>3. ~EngineReturn
    BY <1>1, <2>1 DEF EngineReturn
  <2> QED BY <1>7, <2>1, <2>2, <2>3
<1>12. CASE UNCHANGED engineVars /\ UNCHANGED frontVars
  <2>1. UNCHANGED <<nreq, served, fr, ph>>
    BY <1>12 DEF engineVars, frontVars
  <2>2. ~EngineReturn
    BY <1>1, <2>1 DEF EngineReturn
  <2> QED BY <1>4, <1>7, <2>1, <2>2
<1> QED BY <1>5, <1>8, <1>10, <1>11, <1>12, NextCases DEF vars

\* A first item in the worker's hand is the one of the prompt the front waits for.
LEMMA FirstInHand ==
  ASSUME TypeInv, KnownPrompts, OrderInv, FirstInv, WorkerIngest, faults' = 0, UNCHANGED engineVars, Start(hand)
  PROVE  hand.rq = fr
<1>1. HookInv /\ hand.kind = "item" /\ hand' = Nothing /\ UNCHANGED <<rec, q>>
  BY IngestShape DEF TypeInv
<1>2. hand \in Awaited
  BY <1>1, DoneOrder DEF IsItem
<1>3. hand.rq <= nreq
  BY <1>1 DEF KnownPrompts
<1> QED BY <1>2, <1>3 DEF FirstInv, Due

\* A capture younger than the front's listing is of its prompt, or does not start
\* at position 0 in its first layer.
LEMMA TaintStep ==
  ASSUME ~Direct, TypeInv, KnownPrompts, PurityInv, OrderInv, FirstInv, TaintInv, [Next]_vars, faults' = 0
  PROVE  TaintInv'
<1> USE HookAssumption, BridgeAssumption
<1> DEFINE Clean(s) == \/ caps[s].own = fr \/ caps[s].part # 0 \/ caps[s].fed[0] = <<>>
                       \/ caps[s].fed[0][1].at # 0
<1>1. /\ HookInv /\ caps \in Seq(BoundedCapture) /\ Len(caps) \in Nat /\ req \in 0 .. Len(caps)
      /\ 0 \in Layers
  BY DEF TypeInv, HookInv, Layers
<1>2. DOMAIN caps' = 1 .. Len(caps') /\ Len(caps') \in Nat /\ DOMAIN caps = 1 .. Len(caps)
  <2>1. HookInv'
    BY TypeStep DEF TypeInv
  <2> QED BY <1>1, <2>1 DEF HookInv
<1> SUFFICES ASSUME fr' # 0, NEW s \in 1 .. Len(caps'), s > before'
             PROVE  \/ caps'[s].own = fr' \/ caps'[s].part # 0 \/ caps'[s].fed[0] = <<>>
                    \/ caps'[s].fed[0][1].at # 0
  BY <1>2 DEF TaintInv
<1>3. fr' = fr /\ before' = before /\ fr # 0
  <2>1. CASE FrontSubmit
    <3>1. before' = Len(caps) /\ caps' = caps
      BY <2>1 DEF FrontSubmit, Submit, hookVars
    <3> QED BY <1>1, <3>1
  <2>2. CASE FrontChoose \/ FrontSignal \/ FrontGraceOut \/ FrontGivesUp \/ FrontPull
    BY <2>2 DEF FrontChoose, FrontSignal, FrontGraceOut, FrontGivesUp, FrontPull
  <2>3. CASE EngineForward \/ EngineReturn
    BY <2>3 DEF EngineForward, EngineReturn, frontVars
  <2>4. CASE UNCHANGED frontVars
    BY <2>4 DEF frontVars
  <2> QED BY <2>1, <2>2, <2>3, <2>4, NextCases DEF vars
<1>4. ASSUME NEW k \in 1 .. Len(caps), k > before PROVE Clean(k)
  BY <1>2, <1>3, <1>4 DEF TaintInv
<1>5. CASE s \in 1 .. Len(caps) /\ Kept(caps'[s], caps[s])
  <2>1. Clean(s)
    BY <1>3, <1>4, <1>5
  <2> QED BY <1>3, <1>5, <2>1 DEF Kept
<1>6. ASSUME NEW base \in BoundedCapture, hand \in BoundedItem, Took(s, base)
      PROVE  /\ caps'[s].own = base.own /\ caps'[s].part = base.part
             /\ hand.li # 0 => caps'[s].fed[0] = base.fed[0]
             /\ hand.li = 0 => caps'[s].fed[0] = Append(base.fed[0], [rq |-> hand.rq, at |-> hand.at])
  <2> DEFINE d == Feed(base, hand, "none")
  <2>1. Kept(caps'[s], d)
    BY <1>6, TookShape
  <2>2. /\ d.own = base.own /\ d.part = base.part
        /\ \A li \in Layers : li # hand.li => d.fed[li] = base.fed[li]
        /\ d.fed[hand.li] = Append(base.fed[hand.li], [rq |-> hand.rq, at |-> hand.at])
    BY <1>6, FeedFields
  <2> HIDE DEF d
  <2> QED BY <1>1, <2>1, <2>2 DEF Kept
<1>7. CASE s = req /\ WorkerIngest /\ TakesIn
  <2>1. /\ hand \in BoundedItem /\ hand.kind = "item"
        /\ req \in 1 .. Len(caps) /\ Took(req, caps[req]) /\ ~Opens /\ caps[req] \in BoundedCapture
    BY <1>1, <1>7, IngestShape DEF TakesIn
  <2> DEFINE c == caps[req]
             row == [rq |-> hand.rq, at |-> hand.at]
  <2>2. /\ caps'[s].own = c.own /\ caps'[s].part = c.part
        /\ hand.li # 0 => caps'[s].fed[0] = c.fed[0]
        /\ hand.li = 0 => caps'[s].fed[0] = Append(c.fed[0], row)
    BY <1>6, <1>7, <2>1
  <2>3. c.own = fr \/ c.part # 0 \/ c.fed[0] = <<>> \/ c.fed[0][1].at # 0
    BY <1>3, <1>4, <1>7, <2>1
  <2>4. c.part = 0 => c.calls > 0
    BY <2>1 DEF PurityInv, OpenOrder
  <2>5. c.fed[0] \in Seq(BoundedRow) /\ row \in BoundedRow /\ row.at = hand.at
    <3>1. c.fed[0] \in Seq(BoundedRow)
      BY <1>1, <2>1 DEF BoundedCapture
    <3> QED BY <2>1, <3>1, ItemTypes
  <2>6. c.calls > 0 /\ hand.li = 0 => hand.at # 0
    BY <2>1 DEF Opens, Closes, IsNewRequest
  <2> HIDE DEF c, row
  <2>7. CASE c.part = 0 /\ c.fed[0] = <<>> /\ hand.li = 0
    BY <2>2, <2>4, <2>5, <2>6, <2>7
  <2>8. CASE c.fed[0] # <<>> /\ c.fed[0][1].at # 0 /\ hand.li = 0
    <3>1. Append(c.fed[0], row)[1] = c.fed[0][1]
      BY <2>5, <2>8
    <3> QED BY <2>2, <2>8, <3>1
  <2> QED BY <1>3, <2>2, <2>3, <2>7, <2>8
<1>8. CASE s = Len(caps) + 1 /\ WorkerIngest /\ \E base : OpensFor(base)
  <2>1. hand \in BoundedItem /\ UNCHANGED engineVars
    BY <1>1, <1>8, IngestShape, WorkerAlone
  <2>2. PICK base : OpensFor(base)
    BY <1>8
  <2>3. base \in BoundedCapture /\ base.own = hand.rq /\ base.part = hand.at /\ base.fed[0] = <<>>
    BY <1>1, <2>2, FreshFields DEF OpensFor
  <2>4. /\ caps'[s].own = hand.rq /\ caps'[s].part = hand.at
        /\ hand.li # 0 => caps'[s].fed[0] = <<>>
    BY <1>6, <1>8, <2>1, <2>2, <2>3 DEF OpensFor
  <2>5. hand.at = 0 /\ hand.li = 0 => hand.rq = fr
    BY <1>8, <2>1, FirstInHand DEF Start
  <2> QED BY <1>3, <2>4, <2>5
<1> QED BY <1>5, <1>7, <1>8, RowsStep

\* What holds rows of its first chunk only is below what the memory guard may seal.
LEMMA NotSealed ==
  ASSUME HookAssumption, BridgeAssumption, MemPressure => MinSeal >= 2, NEW c \in BoundedCapture, FirstRows(c)
  PROVE  ~GuardDue(c)
<1> DEFINE P == {NextPos(c, li) : li \in Layers}
<1>1. ASSUME NEW li \in Layers PROVE NextPos(c, li) \in 0 .. 1
  <2>1. c.fed[li] \in Seq(BoundedRow)
    BY <1>1 DEF BoundedCapture
  <2>2. CASE c.fed[li] = <<>>
    BY <2>2 DEF NextPos
  <2>3. CASE c.fed[li] # <<>>
    <3>1. Len(c.fed[li]) \in 1 .. Len(c.fed[li])
      BY <2>1, <2>3
    <3>2. c.fed[li][Len(c.fed[li])].at = 0
      BY <1>1, <3>1 DEF FirstRows
    <3> QED BY <2>3, <3>2 DEF NextPos
  <2> QED BY <2>2, <2>3
<1>2. P \in SUBSET (0 .. 1) /\ P # {}
  BY <1>1 DEF HookAssumption, Layers
<1>3. PICK m \in P : \A x \in P : x <= m
  <2> HIDE DEF P
  <2> QED BY <1>2, BoundedSetHasMax
<1>4. \E t \in P : \A li \in Layers : NextPos(c, li) <= t
  BY <1>3
<1>5. MaxPos(c) \in P
  BY <1>4 DEF MaxPos
<1>6. MaxPos(c) \in 0 .. 1
  BY <1>2, <1>5
<1> QED BY <1>6 DEF GuardDue, HookAssumption

\* A usable capture without the first layer is closed by the front's own prompt.
LEMMA HeadlessPublished ==
  ASSUME ~Direct, MemPressure => MinSeal >= 2, TypeInv, KnownPrompts, FlushInv, FirstInv, [Next]_vars,
         faults' = 0, NEW s \in 1 .. Len(caps'), Published(caps'[s]), Headless(caps'[s]),
         s \in 1 .. Len(caps) => ~Published(caps[s])
  PROVE  Begun(fr)'
<1> USE HookAssumption, BridgeAssumption
<1>1. /\ HookInv /\ caps \in Seq(BoundedCapture) /\ Len(caps) \in Nat /\ req \in 0 .. Len(caps) /\ 0 \in Layers
      /\ OrderInv /\ HeadlessInv /\ PendInv /\ OpenIsUnpublished
  BY DEF TypeInv, HookInv, Layers, FlushInv
<1>2. DOMAIN caps' = 1 .. Len(caps') /\ Len(caps') \in Nat
  <2>1. HookInv'
    BY TypeStep DEF TypeInv
  <2> QED BY <2>1 DEF HookInv
<1>3. WorkerIngest \/ WorkerFlush
  <2> SUFFICES ASSUME UNCHANGED caps PROVE FALSE
    BY OthersKeepCaps
  <2> QED OBVIOUS
<1>4. UNCHANGED engineVars /\ UNCHANGED frontVars
  BY <1>3, WorkerAlone
<1>5. s \in 1 .. Len(caps) => s = req
  <2> SUFFICES ASSUME s \in 1 .. Len(caps), s # req PROVE FALSE
    OBVIOUS
  <2>1. Frozen(caps'[s], caps[s])
    BY ClosedIsFrozen
  <2> QED BY <2>1, FrozenUsable
<1>6. ASSUME NEW base \in BoundedCapture, Took(s, base), WorkerIngest, ~Published(base),
             (req # 0 /\ base = caps[req]) \/ Frozen(base, NewCapture(hand, clock + 1))
      PROVE  FALSE
  <2> DEFINE d == Feed(base, hand, "none")
  <2>1. hand \in BoundedItem
    BY <1>1, <1>6, IngestShape
  <2>2. Kept(caps'[s], d) /\ d \in BoundedCapture /\ (Published(caps'[s]) /\ ~Published(d) => GuardDue(d))
    BY <1>6, <2>1, TookShape
  <2>3. d.reason = base.reason
    BY <2>1, FeedFields
  <2>4. FirstRows(d) \/ ~Headless(d)
    BY <1>1, <1>4, <1>6, HeadlessTakes
  <2> HIDE DEF d
  <2>5. Headless(d)
    BY <2>2 DEF Headless, Kept
  <2>6. ~GuardDue(d)
    BY <2>2, <2>4, <2>5, NotSealed
  <2> QED BY <1>6, <2>2, <2>3, <2>6 DEF Published
<1>7. CASE WorkerFlush
  <2>1. /\ hand \in Sentinel /\ hand.kind = "flush" /\ Len(caps') = Len(caps)
        /\ req # 0 => req \in 1 .. Len(caps) /\ caps'[req] = Finished(caps[req], hand.reason)
    BY <1>1, <1>7, FlushShape
  <2>2. s = req /\ req # 0 /\ caps[req] \in BoundedCapture
    BY <1>1, <1>5, <2>1
  <2>3. hand.reason \in Reasons
    BY <2>1 DEF Sentinel, Reasons
  <2>4. Kept(caps'[s], caps[req])
    BY <2>1, <2>2, <2>3, FinishedKept
  <2>5. Headless(caps[req])
    BY <2>4 DEF Headless, Kept
  <2> QED BY <1>1, <2>1, <2>2, <2>5 DEF PendInv, Pending
<1>8. CASE WorkerIngest /\ TakesIn
  <2>1. s = req /\ req # 0 /\ caps[req] \in BoundedCapture /\ Took(req, caps[req])
    BY <1>1, <1>5, <1>8 DEF TakesIn
  <2>2. ~Published(caps[req])
    BY <1>1, <2>1 DEF OpenIsUnpublished, Published
  <2> QED BY <1>6, <1>8, <2>1, <2>2
<1>9. ASSUME WorkerIngest, NEW base, OpensFor(base) PROVE Begun(fr)'
  <2>1. /\ base \in BoundedCapture /\ Took(Len(caps) + 1, base) /\ Len(caps') = Len(caps) + 1
        /\ Frozen(base, NewCapture(hand, clock + 1)) /\ hand \in BoundedItem
    BY <1>1, <1>9, IngestShape DEF OpensFor
  <2>2. base.reason = "none" /\ base.own = hand.rq
    BY <2>1, FreshFields
  <2>3. s # Len(caps) + 1
    BY <1>6, <1>9, <2>1, <2>2 DEF Published
  <2>4. s = req /\ req \in 1 .. Len(caps)
    BY <1>1, <1>5, <2>1, <2>3
  <2>5. Closes /\ Frozen(caps'[req], Finished(caps[req], "new-request")) /\ caps[req] \in BoundedCapture
    BY <1>1, <1>9, <2>4 DEF OpensFor
  <2>6. Kept(caps'[req], caps[req])
    BY <2>5, FinishedKept, FrozenTrans DEF Reasons
  <2>7. Start(hand)
    <3>1. caps[req].fed[0] = <<>>
      BY <2>4, <2>6 DEF Headless, Kept
    <3> QED BY <2>5, <3>1 DEF Closes, IsNewRequest, Start
  <2>8. hand.rq = fr
    BY <1>1, <1>4, <1>9, <2>7, FirstInHand
  <2>9. caps'[Len(caps')].own = hand.rq
    <3>1. Kept(caps'[Len(caps) + 1], Feed(base, hand, "none"))
      BY <2>1, TookShape
    <3>2. Feed(base, hand, "none").own = base.own
      BY <2>1, FeedFields
    <3> QED BY <2>1, <2>2, <3>1, <3>2 DEF Kept
  <2>10. fr' = fr /\ Len(caps') \in DOMAIN caps'
    BY <1>1, <1>2, <1>4, <2>1 DEF frontVars
  <2> QED BY <2>8, <2>9, <2>10 DEF Begun
<1> QED BY <1>1, <1>3, <1>7, <1>8, <1>9, IngestShape

\* Once the front has something it may take, its prompt has a capture.
LEMMA LeaveStep ==
  ASSUME ~Direct, MemPressure => MinSeal >= 2, TypeInv, DemandInv, FlushInv, FirstInv, TaintInv, LeaveInv,
         [Next]_vars, faults' = 0
  PROVE  LeaveInv'
<1> USE HookAssumption, BridgeAssumption
<1>1. /\ HookInv /\ caps \in Seq(BoundedCapture) /\ Len(caps) \in Nat /\ req \in 0 .. Len(caps) /\ 0 \in Layers
      /\ nreq \in Nat /\ served \in Nat /\ fr \in Nat
      /\ KnownPrompts /\ (fr # 0 => fr = nreq) /\ EngineOrder /\ OrderInv /\ PurityInv /\ OpenIsUnpublished
  BY DEF TypeInv, HookInv, Layers, EngineInv, FrontInv, DemandInv, FlushInv, PurityInv
<1>2. HookInv' /\ caps' \in Seq(BoundedCapture) /\ DOMAIN caps' = 1 .. Len(caps') /\ Len(caps') \in Nat
  <2>1. HookInv'
    BY TypeStep DEF TypeInv
  <2> QED BY <2>1 DEF HookInv
<1>3. TaintInv'
  BY <1>1, TaintStep
<1>4. \/ FrontSubmit
      \/ FrontChoose \/ FrontSignal \/ FrontGraceOut \/ FrontGivesUp \/ FrontPull
      \/ /\ UNCHANGED <<fr, ph, before>>
         /\ served' \in {served, served + 1}
  BY NextCases DEF EngineForward, EngineReturn, frontVars, engineVars, vars
<1>5. FrontSubmit => fr = 0 /\ fr' = nreq + 1 /\ ph' = "prefill" /\ before' = Len(caps) /\ caps' = caps
  BY DEF FrontSubmit, Submit, hookVars
<1>6. FrontChoose \/ FrontSignal \/ FrontGraceOut \/ FrontGivesUp \/ FrontPull
        => fr # 0 /\ fr' \in {0, fr} /\ before' = before /\ served' = served
  BY DEF FrontChoose, FrontSignal, FrontGraceOut, FrontGivesUp, FrontPull, engineVars
<1>7. ASSUME fr' # 0, NEW s \in Scanned', UsablePrefix(caps'[s]) > 0 PROVE Begun(fr)'
  <2>1. s \in 1 .. Len(caps') /\ s > before' /\ Published(caps'[s])
    BY <1>2 DEF Scanned
  <2>2. ~FrontSubmit
    BY <1>1, <1>5, <2>1
  <2>3. fr' = fr /\ before' = before /\ fr # 0
    BY <1>4, <1>6, <1>7, <2>2
  <2>4. CASE s \in 1 .. Len(caps) /\ Published(caps[s])
    <3>1. s # req
      BY <2>4 DEF OpenIsUnpublished, Published, FlushInv
    <3>2. UsablePrefix(caps[s]) > 0
      BY <1>7, <2>4, <3>1, ClosedIsFrozen, FrozenUsable
    <3>3. s \in Scanned
      BY <1>1, <2>1, <2>3, <2>4 DEF Scanned
    <3>4. Begun(fr)
      BY <2>3, <3>2, <3>3 DEF LeaveInv
    <3>5. \E k \in DOMAIN caps' : caps'[k].own = fr
      BY <3>4, OwnKept DEF Begun
    <3> QED BY <2>3, <3>5 DEF Begun
  <2>5. CASE caps'[s].own = fr'
    BY <1>2, <2>1, <2>5 DEF Begun
  <2>6. CASE ~(s \in 1 .. Len(caps) /\ Published(caps[s])) /\ caps'[s].own # fr'
    <3>1. caps'[s].part = 0 /\ ~HasGap(caps'[s]) /\ caps'[s] \in BoundedCapture
      BY <1>2, <1>7, <2>1 DEF UsablePrefix
    <3>2. caps'[s].fed[0] = <<>> \/ caps'[s].fed[0][1].at # 0
      BY <1>2, <1>3, <1>7, <2>1, <2>6, <3>1 DEF TaintInv
    <3>3. caps'[s].fed[0] = <<>>
      <4> SUFFICES ASSUME caps'[s].fed[0] # <<>> PROVE FALSE
        OBVIOUS
      <4>1. caps'[s].fed[0] \in Seq(BoundedRow)
        BY <1>1, <3>1 DEF BoundedCapture
      <4>2. 1 \in 1 .. Len(caps'[s].fed[0])
        BY <4>1
      <4>3. caps'[s].fed[0][1].at = 1 - 1
        BY <1>1, <3>1, <4>2, NoGap
      <4> QED BY <3>2, <4>3
    <3> QED BY <1>1, <2>1, <2>6, <3>1, <3>3, HeadlessPublished DEF Headless
  <2> QED BY <2>4, <2>5, <2>6
<1>8. ASSUME fr' # 0, ph' = "grace" PROVE fr' <= served'
  <2>1. CASE FrontSubmit
    BY <1>5, <1>8, <2>1
  <2>2. CASE FrontChoose \/ FrontSignal \/ FrontGraceOut \/ FrontGivesUp \/ FrontPull
    <3>1. fr' = fr /\ served' = served
      BY <1>6, <1>8, <2>2
    <3>2. FrontSignal => fr <= served
      BY DEF FrontSignal, EngineOver
    <3>3. ~FrontSignal => ph = "grace"
      BY <1>8, <2>2, <3>1 DEF FrontChoose, FrontGraceOut, FrontGivesUp, FrontPull
    <3> QED BY <1>6, <2>2, <3>1, <3>2, <3>3 DEF LeaveInv
  <2>3. CASE UNCHANGED <<fr, ph, before>> /\ served' \in {served, served + 1}
    BY <1>1, <1>8, <2>3 DEF LeaveInv
  <2> QED BY <1>4, <2>1, <2>2, <2>3
<1>9. ASSUME fr' # 0, ph' = "pull" PROVE Begun(fr)'
  <2>1. fr' = fr /\ fr # 0 /\ ~FrontSubmit
    BY <1>4, <1>5, <1>6, <1>9
  <2>2. Begun(fr)
    <3>1. CASE FrontChoose
      <4>1. PICK s \in Scanned : UsablePrefix(caps[s]) = len[fr]
        BY <3>1 DEF FrontChoose, Complete
      <4>2. len[fr] \in Nat /\ len[fr] >= 1
        <5>1. fr \in 1 .. nreq
          BY <1>1, <2>1
        <5> QED BY <1>1, <5>1 DEF EngineOrder, TypeInv, EngineInv
      <4> QED BY <2>1, <4>1, <4>2 DEF LeaveInv
    <3>2. CASE FrontGraceOut
      <4>1. Scanned # {} /\ UsablePrefix(caps[Best]) > 0
        BY <1>9, <2>1, <3>2 DEF FrontGraceOut
      <4>2. Best \in Scanned
        BY <1>1, <4>1, BestScanned
      <4> QED BY <2>1, <4>1, <4>2 DEF LeaveInv
    <3>3. CASE FrontSignal \/ FrontGivesUp \/ FrontPull
      BY <1>9, <2>1, <3>3 DEF FrontSignal, FrontGivesUp, FrontPull
    <3>4. CASE UNCHANGED <<fr, ph, before>>
      BY <1>9, <2>1, <3>4 DEF LeaveInv
    <3> QED BY <1>4, <2>1, <3>1, <3>2, <3>3, <3>4
  <2>3. \E k \in DOMAIN caps' : caps'[k].own = fr
    BY <2>2, OwnKept DEF Begun
  <2> QED BY <2>1, <2>3 DEF Begun
<1> QED BY <1>7, <1>8, <1>9 DEF LeaveInv

\* The capture the front pulls is its prompt's, or misses the first layer.
LEMMA ChosenOwn ==
  ASSUME ~Direct, TypeInv, PurityInv, StoreInv, TaintInv, ChosenInv, [Next]_vars, faults' = 0
  PROVE  ChosenInv'
<1> USE HookAssumption, BridgeAssumption
<1>1. HookInv /\ FrontInv /\ caps \in Seq(BoundedCapture) /\ Len(caps) \in Nat /\ 0 \in Layers
  BY DEF TypeInv, HookInv, Layers
<1> SUFFICES ASSUME fr' # 0, ph' = "pull" PROVE caps'[chosen'].own = fr' \/ caps'[chosen'].fed[0] = <<>>
  BY DEF ChosenInv
<1>2. CASE UNCHANGED <<fr, ph, chosen>>
  <2>1. Published(caps[chosen]) /\ chosen \in 1 .. Len(caps)
    BY <1>1, <1>2 DEF FrontInv, StoreInv
  <2>2. chosen # req
    BY <2>1 DEF Published, StoreInv
  <2>3. Frozen(caps'[chosen], caps[chosen])
    BY <2>1, <2>2, ClosedIsFrozen
  <2> QED BY <1>2, <2>3 DEF ChosenInv, Frozen, Kept
<1>3. CASE FrontChoose \/ FrontGraceOut
  <2>1. caps' = caps /\ fr # 0 /\ fr' = fr /\ chosen' \in Scanned
    <3>1. FrontChoose => caps' = caps /\ fr # 0 /\ fr' = fr /\ chosen' = Min(Complete) /\ Complete # {}
      BY DEF FrontChoose, hookVars
    <3>2. FrontGraceOut => caps' = caps /\ fr # 0 /\ fr' = fr /\ chosen' = Best /\ Scanned # {}
      BY DEF FrontGraceOut, hookVars
    <3> QED BY <1>1, <1>3, <3>1, <3>2, MinComplete, BestScanned DEF Complete
  <2>2. UsablePrefix(caps[chosen']) > 0
    BY <1>1, <2>1, ChosenStep DEF StoreInv
  <2> DEFINE c == caps[chosen']
  <2>3. c \in BoundedCapture /\ c.part = 0 /\ ~HasGap(c)
    BY <1>1, <2>1, <2>2 DEF UsablePrefix, Scanned
  <2>4. c.own = fr \/ c.part # 0 \/ c.fed[0] = <<>> \/ c.fed[0][1].at # 0
    BY <2>1 DEF TaintInv, Scanned
  <2> HIDE DEF c
  <2>5. c.fed[0] # <<>> => c.fed[0][1].at = 1 - 1
    <3> SUFFICES ASSUME c.fed[0] # <<>> PROVE c.fed[0][1].at = 1 - 1
      OBVIOUS
    <3>1. c.fed[0] \in Seq(BoundedRow)
      BY <1>1, <2>3 DEF BoundedCapture
    <3>2. 1 \in 1 .. Len(c.fed[0])
      BY <3>1
    <3> QED BY <1>1, <2>3, <3>2, NoGap
  <2> QED BY <2>1, <2>3, <2>4, <2>5 DEF c
<1>4. CASE FrontSubmit \/ FrontSignal \/ FrontGivesUp \/ FrontPull
  BY <1>4 DEF FrontSubmit, FrontSignal, FrontGivesUp, FrontPull
<1> QED BY <1>2, <1>3, <1>4, NextCases DEF EngineForward, EngineReturn, frontVars, vars

\* What is stored stays as it is, and a pull adds the prompt's own rows to it.
LEMMA OwnRowsStep ==
  ASSUME TypeInv, PurityInv, StoreInv, ChosenInv, RowsInv, [Next]_vars, faults' = 0
  PROVE  RowsInv'
<1> USE HookAssumption, BridgeAssumption
<1>1. HookInv /\ FrontInv /\ caps \in Seq(BoundedCapture) /\ Len(caps) \in Nat /\ 0 \in Layers
  BY DEF TypeInv, HookInv, Layers
<1> SUFFICES ASSUME NEW x \in stored', NEW li \in Layers, NEW b \in 1 .. x.B
             PROVE  /\ b <= Len(caps'[x.cap].fed[li])
                    /\ caps'[x.cap].fed[li][b] = [rq |-> x.rq, at |-> b - 1]
  BY DEF RowsInv
<1>2. CASE x \in stored
  <2>1. x.cap \in 1 .. Len(caps) /\ Published(caps[x.cap])
    BY <1>1, <1>2 DEF FrontInv, StoreInv
  <2>2. x.cap # req
    BY <2>1 DEF Published, StoreInv
  <2>3. Frozen(caps'[x.cap], caps[x.cap])
    BY <2>1, <2>2, ClosedIsFrozen
  <2> QED BY <1>2, <2>3 DEF RowsInv, Frozen, Kept
<1>3. CASE x \notin stored
  <2>1. /\ fr # 0 /\ ph = "pull" /\ x.rq = fr /\ x.cap = chosen /\ caps' = caps
        /\ chosen \in 1 .. Len(caps) /\ caps[chosen] \in BoundedCapture
        /\ \E n \in Nat : x.B = Assembled(caps[chosen], n)
    BY <1>3, PullShape
  <2> DEFINE c == caps[chosen]
  <2>2. c.part = 0 /\ ~HasGap(c)
    BY <2>1 DEF StoreInv, UsablePrefix
  <2>3. PICK n \in Nat : x.B = Assembled(c, n)
    BY <2>1
  <2>4. x.B \in Nat /\ \A l \in Layers : x.B <= Len(c.fed[l])
    BY <2>1, <2>2, <2>3, AssembledType, AssembledCover
  <2>5. c.own = fr \/ c.fed[0] = <<>>
    BY <2>1 DEF ChosenInv
  <2>6. \A l \in Layers : \A i \in 1 .. Len(c.fed[l]) : c.fed[l][i].rq = c.own
    BY <1>1, <2>1, <2>2 DEF PurityInv, PureCapture
  <2>7. c.fed \in [Layers -> Seq(BoundedRow)] /\ c \in BoundedCapture
    BY <2>1 DEF BoundedCapture
  <2> HIDE DEF c
  <2>8. c.fed[0] # <<>>
    <3> SUFFICES ASSUME c.fed[0] = <<>> PROVE FALSE
      OBVIOUS
    <3>1. x.B <= 0
      BY <1>1, <2>4
    <3> QED BY <2>4, <3>1
  <2>9. b \in 1 .. Len(c.fed[li]) /\ c.fed[li] \in Seq(BoundedRow)
    BY <2>4, <2>7
  <2>10. c.fed[li][b].at = b - 1
    BY <2>2, <2>7, <2>9, NoGap
  <2>11. c.fed[li][b].rq = x.rq
    BY <2>1, <2>5, <2>6, <2>8, <2>9
  <2>12. c.fed[li][b] \in BoundedRow
    BY <2>9
  <2>13. c.fed[li][b] = [rq |-> x.rq, at |-> b - 1]
    BY <2>10, <2>11, <2>12 DEF BoundedRow
  <2> QED BY <2>1, <2>9, <2>13 DEF c
<1> QED BY <1>2, <1>3

\* Everything the argument carries.
OwnInv ==
  /\ FlushInv /\ StoreInv
  /\ FirstInv /\ TaintInv /\ LeaveInv /\ ChosenInv /\ RowsInv

\* At the start the front waits for no prompt and has stored nothing.
LEMMA OwnInit ==
  ASSUME Init
  PROVE  OwnInv
<1>1. FlushInv /\ DemandInv /\ StoreInv /\ TypeInv
  BY FlushInit, StoreInit, TypeInit
<1>2. fr = 0 /\ stored = {} /\ nreq = 0 /\ served = 0
  BY DEF Init
<1>3. TaintInv /\ LeaveInv /\ ChosenInv /\ RowsInv
  BY <1>2 DEF TaintInv, LeaveInv, ChosenInv, RowsInv
<1>4. \A x \in Awaited : x.rq \in Nat /\ x.rq >= 1
  BY <1>1, AwaitedTypes DEF DemandInv
<1>5. \A x \in Awaited : ~(x.rq <= nreq)
  BY <1>2, <1>4
<1>6. served + 2 .. nreq = {}
  BY <1>2
<1>7. FirstInv
  BY <1>5, <1>6 DEF FirstInv
<1> QED BY <1>1, <1>3, <1>7 DEF OwnInv

\* No step without a failure breaks any part of the argument, the front included.
LEMMA OwnStep ==
  ASSUME ~Direct, ~Deadline, PromptHook, MemPressure => MinSeal >= 2, TypeInv, DemandInv, OwnInv,
         [Next]_vars, faults' = 0
  PROVE  OwnInv'
<1>1. /\ FlushInv /\ StoreInv /\ FirstInv /\ TaintInv /\ LeaveInv /\ ChosenInv /\ RowsInv
      /\ PurityInv /\ OrderInv /\ KnownPrompts
  BY DEF OwnInv, FlushInv, DemandInv
<1>2. FlushInv' /\ StoreInv'
  BY <1>1, FlushStep, StoreStep
<1>3. FirstInv' /\ LeaveInv'
  BY <1>1, FirstStep, LeaveStep
<1>4. TaintInv' /\ ChosenInv' /\ RowsInv'
  BY <1>1, TaintStep, ChosenOwn, OwnRowsStep
<1> QED BY <1>2, <1>3, <1>4 DEF OwnInv

\* The blocks the front stores under a prompt's hashes were computed from that
\* prompt, row by row, in every layer: for any layers and prompts, as long as the
\* front is the engine's only client and waits for it, the hook keeps up, no
\* exception is swallowed, and the memory guard seals nothing as small as one chunk.
THEOREM StoredPureCorrect ==
  ASSUME ~Direct, ~Deadline, PromptHook, MemPressure => MinSeal >= 2, MaxFaults = 0
  PROVE  Spec => []StoredIsPure
<1>1. Init => TypeInv /\ DemandInv /\ OwnInv
  BY TypeInit, FlushInit, OwnInit
<1>2. TypeInv /\ DemandInv /\ OwnInv /\ [Next]_vars => TypeInv' /\ DemandInv' /\ OwnInv'
  <2> SUFFICES ASSUME TypeInv, DemandInv, OwnInv, [Next]_vars PROVE TypeInv' /\ DemandInv' /\ OwnInv'
    OBVIOUS
  <2>1. TypeInv' /\ DemandInv'
    BY TypeStep, DemandStep
  <2>2. faults' = 0
    BY <2>1 DEF TypeInv, HookInv
  <2> QED BY <2>1, <2>2, OwnStep
<1>3. OwnInv => StoredIsPure
  BY DEF OwnInv, RowsInv, StoredIsPure
<1> QED BY <1>1, <1>2, <1>3, PTL DEF Spec
=============================================================================
