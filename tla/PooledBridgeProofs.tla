-------------------------- MODULE PooledBridgeProofs --------------------------
(* Theorems of module PooledBridge: types, a flush on demand, and purity. *)
EXTENDS PooledBridge, WellFoundedInduction, TLAPS

-----------------------------------------------------------------------------
(* Sets of numbers and sequences *)

\* A non-empty set of naturals has a least element: MaxPos, Best and Assembled
\* are well defined because of this lemma and the next.
LEMMA NatSetHasMin ==
  ASSUME NEW S \in SUBSET Nat, S # {}
  PROVE  \E m \in S : \A x \in S : m <= x
<1> DEFINE Less == {ss \in Nat \X Nat : ss[1] < ss[2]}
<1>1. IsWellFoundedOn(Less, Nat)
  BY NatLessThanWellFounded DEF OpToRel
<1>2. S \subseteq Nat /\ S # {}
  OBVIOUS
<1>3. PICK m \in S : \A u \in S : ~ (<<u, m>> \in Less)
  <2> HIDE DEF Less
  <2> QED BY <1>1, <1>2, WFMin
<1>4. ASSUME NEW x \in S PROVE m <= x
  <2>1. m \in Nat /\ x \in Nat
    OBVIOUS
  <2>2. ~ (<<x, m>> \in Less)
    BY <1>3
  <2>3. ~ (x < m)
    BY <2>1, <2>2
  <2> QED BY <2>1, <2>3
<1> QED BY <1>4

\* A non-empty bounded set of naturals has a greatest element: the least upper
\* bound belongs to it.
LEMMA BoundedSetHasMax ==
  ASSUME NEW n \in Nat, NEW S \in SUBSET (0 .. n), S # {}
  PROVE  \E m \in S : \A x \in S : x <= m
<1> DEFINE U == {u \in Nat : \A x \in S : x <= u}
<1>1. U \in SUBSET Nat /\ U # {}
  <2>1. n \in U
    OBVIOUS
  <2> QED BY <2>1
<1>2. PICK m \in U : \A u \in U : m <= u
  <2> HIDE DEF U
  <2> QED BY <1>1, NatSetHasMin
<1>3. m \in S
  <2> SUFFICES ASSUME m \notin S PROVE FALSE
    OBVIOUS
  <2>1. \A y \in S : y < m
    <3>1. m \in Nat /\ \A y \in S : y <= m
      OBVIOUS
    <3>2. \A y \in S : y \in Nat /\ y # m
      OBVIOUS
    <3> HIDE DEF U
    <3> QED BY <3>1, <3>2
  <2>2. m - 1 \in U
    <3>1. m \in Nat /\ \A y \in S : y \in Nat
      OBVIOUS
    <3>2. m - 1 \in Nat /\ \A y \in S : y <= m - 1
      <4>1. PICK y \in S : TRUE
        OBVIOUS
      <4>2. y \in Nat /\ y < m
        BY <2>1, <3>1
      <4> HIDE DEF U
      <4> QED BY <2>1, <3>1, <4>2
    <3> QED BY <3>2
  <2>3. m <= m - 1 /\ m \in Nat
    <3>1. m \in Nat
      OBVIOUS
    <3> HIDE DEF U
    <3> QED BY <1>2, <2>2, <3>1
  <2> HIDE DEF U
  <2> QED BY <2>3
<1> QED BY <1>2, <1>3

\* Elementwise replacement keeps a sequence a sequence of the same length.
LEMMA MapIsSeq ==
  ASSUME NEW S, NEW s \in Seq(S), NEW f, f = [i \in DOMAIN s |-> f[i]],
         \A i \in DOMAIN s : f[i] \in S
  PROVE  f \in Seq(S) /\ Len(f) = Len(s) /\ DOMAIN f = DOMAIN s
<1>1. f \in [1 .. Len(s) -> S]
  OBVIOUS
<1>2. f \in Seq(S)
  BY <1>1
<1> QED BY <1>1, <1>2

-----------------------------------------------------------------------------
(* Bounded types: no position of the pipeline reaches past the prompt *)

BoundedItem == [kind : {"item"}, rq : Requests, at : 0 .. MaxChunks - 1, li : Layers, ev : Nat]

BoundedRow == [rq : Requests, at : 0 .. MaxChunks - 1]

BoundedCapture ==
  [state : {"open", "done", "lost", "gone"}, part : Nat, fed : [Layers -> Seq(BoundedRow)],
   main : [Layers -> Nat], idx : [Layers -> Nat], calls : Nat, first_t : Nat,
   own : Requests, T : 0 .. MaxChunks, reason : Reasons]

\* A new request is a capture with nothing in it.
LEMMA NewCaptureType ==
  ASSUME NEW item \in BoundedItem, NEW now \in Nat
  PROVE  /\ NewCapture(item, now) \in BoundedCapture
         /\ NewCapture(item, now).own = item.rq
         /\ NewCapture(item, now).first_t = now
<1>1. <<>> \in Seq(BoundedRow)
  OBVIOUS
<1>2. item.at \in Nat /\ item.rq \in Requests
  BY DEF BoundedItem
<1>3. 0 \in 0 .. MaxChunks
  BY BridgeAssumption DEF BridgeAssumption
<1> QED BY <1>1, <1>2, <1>3 DEF BoundedCapture, NewCapture, Reasons

\* Feeding an item touches neither the owner nor the opening time of a capture.
LEMMA FeedType ==
  ASSUME NEW c \in BoundedCapture, NEW item \in BoundedItem, NEW fault
  PROVE  /\ Feed(c, item, fault) \in BoundedCapture
         /\ Feed(c, item, fault).own = c.own
         /\ Feed(c, item, fault).first_t = c.first_t
<1> DEFINE row == [rq |-> item.rq, at |-> item.at]
<1>1. row \in BoundedRow /\ item.li \in Layers
  BY DEF BoundedItem, BoundedRow
<1>2. c.fed[item.li] \in Seq(BoundedRow)
  BY <1>1 DEF BoundedCapture
<1>3. Append(c.fed[item.li], row) \in Seq(BoundedRow)
  BY <1>1, <1>2
<1>4. PICK fed, main, idx, calls :
        /\ fed \in [Layers -> Seq(BoundedRow)]
        /\ main \in [Layers -> Nat] /\ idx \in [Layers -> Nat] /\ calls \in Nat
        /\ Feed(c, item, fault) = [c EXCEPT !.fed = fed, !.main = main, !.idx = idx, !.calls = calls]
  <2> DEFINE f == [c.fed EXCEPT ![item.li] = Append(@, row)]
             m == [c.main EXCEPT ![item.li] = IF TakesMain(c, item, fault) THEN @ + 1 ELSE @]
             i == [c.idx EXCEPT ![item.li] = IF TakesIdx(c, item, fault) THEN @ + 1 ELSE @]
             k == IF Ingested(c, item, fault) THEN c.calls + 1 ELSE c.calls
  <2>1. /\ c.fed \in [Layers -> Seq(BoundedRow)] /\ c.main \in [Layers -> Nat]
        /\ c.idx \in [Layers -> Nat] /\ c.calls \in Nat
    BY DEF BoundedCapture
  <2>2. f \in [Layers -> Seq(BoundedRow)]
    BY <1>1, <1>3, <2>1
  <2>3. m \in [Layers -> Nat] /\ i \in [Layers -> Nat] /\ k \in Nat
    BY <1>1, <2>1
  <2>4. Feed(c, item, fault) = [c EXCEPT !.fed = f, !.main = m, !.idx = i, !.calls = k]
    BY DEF Feed
  <2> HIDE DEF f, m, i, k
  <2> QED BY <2>2, <2>3, <2>4
<1>5. c \in BoundedCapture
  OBVIOUS
<1> HIDE DEF row
<1> QED BY <1>4, <1>5 DEF BoundedCapture

\* The furthest layer's position is a position of the prompt.
LEMMA MaxPosType ==
  ASSUME HookAssumption, BridgeAssumption, NEW c \in BoundedCapture
  PROVE  MaxPos(c) \in 0 .. MaxChunks
<1> DEFINE P == {NextPos(c, li) : li \in Layers}
<1>1. ASSUME NEW li \in Layers PROVE NextPos(c, li) \in 0 .. MaxChunks
  <2>1. c.fed[li] \in Seq(BoundedRow)
    BY <1>1 DEF BoundedCapture
  <2>2. CASE c.fed[li] = <<>>
    BY <2>2 DEF NextPos, BridgeAssumption
  <2>3. CASE c.fed[li] # <<>>
    <3>1. c.fed[li][Len(c.fed[li])] \in BoundedRow
      BY <2>1, <2>3
    <3>2. c.fed[li][Len(c.fed[li])].at \in 0 .. MaxChunks - 1
      BY <3>1 DEF BoundedRow
    <3>3. NextPos(c, li) = c.fed[li][Len(c.fed[li])].at + 1
      BY <2>3 DEF NextPos
    <3> DEFINE p == c.fed[li][Len(c.fed[li])].at
    <3>4. p \in 0 .. MaxChunks - 1 /\ NextPos(c, li) = p + 1 /\ MaxChunks \in Nat
      BY <3>2, <3>3 DEF BridgeAssumption
    <3> HIDE DEF p
    <3> QED BY ONLY <3>4
  <2> QED BY <2>2, <2>3
<1>2. P \in SUBSET (0 .. MaxChunks) /\ P # {}
  BY <1>1 DEF HookAssumption, Layers
<1>3. PICK m \in P : \A x \in P : x <= m
  <2> HIDE DEF P
  <2> QED BY <1>2, BoundedSetHasMax DEF BridgeAssumption
<1>4. \E t \in P : \A li \in Layers : NextPos(c, li) <= t
  BY <1>3
<1>5. MaxPos(c) \in P
  BY <1>4 DEF MaxPos
<1> QED BY <1>2, <1>5

\* Publishing touches neither the owner nor the opening time of a capture.
LEMMA FinishedType ==
  ASSUME HookAssumption, BridgeAssumption, NEW c \in BoundedCapture, NEW why \in Reasons
  PROVE  /\ Finished(c, why) \in BoundedCapture
         /\ Finished(c, why).own = c.own
         /\ Finished(c, why).first_t = c.first_t
<1>1. MaxPos(c) \in 0 .. MaxChunks
  BY MaxPosType
<1> QED BY <1>1 DEF Finished, BoundedCapture

\* Pruning only changes the state of directories.
LEMMA PruneType ==
  ASSUME NEW cs \in Seq(BoundedCapture)
  PROVE  /\ Prune(cs) \in Seq(BoundedCapture)
         /\ Len(Prune(cs)) = Len(cs)
         /\ \A i \in 1 .. Len(cs) : /\ Prune(cs)[i].own = cs[i].own
                                    /\ Prune(cs)[i].first_t = cs[i].first_t
<1>1. \A i \in DOMAIN cs : /\ Prune(cs)[i] \in BoundedCapture
                           /\ Prune(cs)[i].own = cs[i].own
                           /\ Prune(cs)[i].first_t = cs[i].first_t
  <2> SUFFICES ASSUME NEW i \in DOMAIN cs
               PROVE  /\ Prune(cs)[i] \in BoundedCapture
                      /\ Prune(cs)[i].own = cs[i].own
                      /\ Prune(cs)[i].first_t = cs[i].first_t
    OBVIOUS
  <2>1. Prune(cs)[i] = cs[i] \/ Prune(cs)[i] = [cs[i] EXCEPT !.state = "gone"]
    BY DEF Prune
  <2>2. cs[i] \in BoundedCapture
    OBVIOUS
  <2> QED BY <2>1, <2>2 DEF BoundedCapture
<1>2. Prune(cs) = [i \in DOMAIN cs |-> Prune(cs)[i]]
  BY DEF Prune
<1>3. Prune(cs) \in Seq(BoundedCapture) /\ Len(Prune(cs)) = Len(cs)
  <2> HIDE DEF Prune
  <2> QED BY <1>1, <1>2, MapIsSeq
<1> QED BY <1>1, <1>3
-----------------------------------------------------------------------------
(* The inductive invariant *)

HookInv ==
  /\ rec \in Nat /\ ran \in 0 .. rec
  /\ q \in Seq(BoundedItem \cup Sentinel)
  /\ hand \in BoundedItem \cup Sentinel \cup {Nothing}
  /\ caps \in Seq(BoundedCapture) /\ req \in 0 .. Len(caps)
  /\ clock \in Nat /\ signal \in 0 .. clock
  /\ quiet \in BOOLEAN /\ faults \in 0 .. MaxFaults
  /\ wpc \in {"stat", "decide", "unlink", "put"} /\ seen \in 0 .. clock
  /\ fire \in {"none", "flush_now", "idle"}
  /\ wpc = "put" => fire # "none"

EngineInv ==
  /\ nreq \in 0 .. MaxReq /\ len \in [Requests -> 0 .. MaxChunks]
  /\ served \in 0 .. nreq /\ at \in 0 .. MaxChunks /\ lay \in Layers

FrontInv ==
  /\ fr \in 0 .. nreq /\ ph \in {"prefill", "grace", "pull"}
  /\ before \in 0 .. Len(caps) /\ chosen \in 0 .. Len(caps)
  /\ fr # 0 /\ ph = "pull" => chosen # 0
  /\ stored \subseteq [rq : Requests, cap : 1 .. Len(caps), B : 0 .. MaxChunks]

TypeInv == HookInv /\ EngineInv /\ FrontInv

\* What no hook step undoes: captures are never forgotten, and keep the prompt
\* that opened them and the time at which it did.
Extends(ds, cs) ==
  /\ ds \in Seq(BoundedCapture) /\ Len(cs) <= Len(ds)
  /\ \A i \in 1 .. Len(cs) : ds[i].own = cs[i].own /\ ds[i].first_t = cs[i].first_t

\* Rewriting one capture without touching its owner and opening time.
LEMMA UpdateExtends ==
  ASSUME NEW cs \in Seq(BoundedCapture), NEW s \in 1 .. Len(cs), NEW c \in BoundedCapture,
         c.own = cs[s].own, c.first_t = cs[s].first_t
  PROVE  /\ Extends([cs EXCEPT ![s] = c], cs)
         /\ Len([cs EXCEPT ![s] = c]) = Len(cs)
<1> DEFINE ds == [cs EXCEPT ![s] = c]
<1>1. ds \in Seq(BoundedCapture) /\ Len(ds) = Len(cs)
  OBVIOUS
<1>2. \A i \in 1 .. Len(cs) : ds[i].own = cs[i].own /\ ds[i].first_t = cs[i].first_t
  OBVIOUS
<1> QED BY <1>1, <1>2 DEF Extends

\* Losing or discarding a capture is a change of its state only.
LEMMA StateType ==
  ASSUME NEW c \in BoundedCapture, NEW st \in {"open", "done", "lost", "gone"}
  PROVE  /\ [c EXCEPT !.state = st] \in BoundedCapture
         /\ [c EXCEPT !.state = st].own = c.own
         /\ [c EXCEPT !.state = st].first_t = c.first_t
  BY DEF BoundedCapture

\* The captures after the item's request is open: at most one is new, the last,
\* and it was opened by the item after everything stamped so far.
LEMMA ReadyType ==
  ASSUME HookInv, Resolved
  PROVE  /\ hand \in BoundedItem
         /\ Extends(Ready, caps)
         /\ Opens => /\ Len(Ready) = Len(caps) + 1
                     /\ Ready[Len(Ready)].own = hand.rq
                     /\ Ready[Len(Ready)].first_t = clock + 1
         /\ ~Opens => Ready = caps /\ req \in 1 .. Len(caps)
<1>1. hand \in BoundedItem
  BY DEF HookInv, Resolved, BoundedItem, Sentinel, Nothing
<1>2. caps \in Seq(BoundedCapture) /\ req \in 0 .. Len(caps) /\ clock \in Nat
  BY DEF HookInv
<1>3. CASE ~Opens
  <2>1. Ready = caps /\ req # 0
    BY <1>3 DEF Ready, Opens
  <2>2. Extends(caps, caps)
    BY <1>2 DEF Extends
  <2> QED BY <1>1, <1>2, <1>3, <2>1, <2>2
<1>4. CASE Opens
  <2> DEFINE closed == IF Closes THEN [caps EXCEPT ![req] = Finished(@, "new-request")] ELSE caps
             new == NewCapture(hand, clock + 1)
  <2>1. Extends(closed, caps) /\ Len(closed) = Len(caps)
    <3>1. CASE Closes
      <4>1. req \in 1 .. Len(caps)
        BY <1>2, <3>1 DEF Closes
      <4>2. /\ Finished(caps[req], "new-request") \in BoundedCapture
            /\ Finished(caps[req], "new-request").own = caps[req].own
            /\ Finished(caps[req], "new-request").first_t = caps[req].first_t
        <5>1. caps[req] \in BoundedCapture /\ "new-request" \in Reasons
          BY <1>2, <4>1 DEF Reasons
        <5> QED BY <5>1, FinishedType, HookAssumption, BridgeAssumption
      <4> QED BY <1>2, <3>1, <4>1, <4>2, UpdateExtends
    <3>2. CASE ~Closes
      BY <1>2, <3>2 DEF Extends
    <3> QED BY <3>1, <3>2
  <2>2. new \in BoundedCapture /\ new.own = hand.rq /\ new.first_t = clock + 1
    BY <1>1, <1>2, NewCaptureType
  <2> DEFINE cs == Append(closed, new)
  <2>3. Ready = Prune(cs)
    BY <1>4 DEF Ready
  <2> HIDE DEF closed, new
  <2>4. /\ cs \in Seq(BoundedCapture) /\ Len(cs) = Len(caps) + 1
        /\ cs[Len(caps) + 1] = new
        /\ \A i \in 1 .. Len(caps) : cs[i].own = caps[i].own /\ cs[i].first_t = caps[i].first_t
    BY <1>2, <2>1, <2>2 DEF Extends
  <2> HIDE DEF cs
  <2>5. /\ Ready \in Seq(BoundedCapture) /\ Len(Ready) = Len(caps) + 1
        /\ \A i \in 1 .. Len(caps) + 1 : Ready[i].own = cs[i].own /\ Ready[i].first_t = cs[i].first_t
    BY <2>3, <2>4, PruneType
  <2> QED BY <1>1, <1>2, <1>4, <2>2, <2>4, <2>5 DEF Extends
<1> QED BY <1>3, <1>4

-----------------------------------------------------------------------------
(* The hook's steps *)

\* What a worker step may do to the captures: rewrite some without adding one,
\* or add one, opened by the item in hand after everything stamped so far.
WorkerEffect ==
  /\ Extends(caps', caps)
  /\ \/ Len(caps') = Len(caps) /\ req' \in {0, req} /\ clock' = clock
     \/ /\ Len(caps') = Len(caps) + 1 /\ req' \in {0, Len(caps')} /\ clock' = clock + 1
        /\ hand \in BoundedItem
        /\ caps'[Len(caps')].own = hand.rq /\ caps'[Len(caps')].first_t = clock + 1

LEMMA WorkerIngestStep ==
  ASSUME HookInv, WorkerIngest
  PROVE  HookInv' /\ WorkerEffect
<1> USE HookAssumption, BridgeAssumption
<1> DEFINE s == IF Opens THEN Len(Ready) ELSE req
<1>1. /\ hand \in BoundedItem /\ Extends(Ready, caps)
      /\ Opens => /\ Len(Ready) = Len(caps) + 1
                  /\ Ready[Len(Ready)].own = hand.rq
                  /\ Ready[Len(Ready)].first_t = clock + 1
      /\ ~Opens => Ready = caps /\ req \in 1 .. Len(caps)
  BY ReadyType DEF WorkerIngest
<1>2. PICK fault \in {"none", "main", "idx"}, guard \in {"pass", "seal", "fail"} :
        LET c == Feed(Ready[s], hand, fault)
            ok == Ingested(Ready[s], hand, fault)
            raised == fault # "none" \/ guard = "fail"
        IN  /\ raised => faults < MaxFaults
            /\ caps' = [Ready EXCEPT ![s] = CASE guard = "pass" -> c
                                              [] guard = "seal" -> Finished(c, "mem-floor-seal")
                                              [] guard = "fail" -> Lost(c)]
            /\ req' = IF guard = "pass" THEN s ELSE 0
            /\ quiet' = IF ok \/ Opens THEN FALSE ELSE quiet
            /\ faults' = IF raised THEN faults + 1 ELSE faults
  BY ZenonT(60) DEF WorkerIngest
<1>3. s \in 1 .. Len(Ready) /\ Ready \in Seq(BoundedCapture) /\ Ready[s] \in BoundedCapture
  <2>1. caps \in Seq(BoundedCapture)
    BY DEF HookInv
  <2>2. Ready \in Seq(BoundedCapture)
    BY <1>1 DEF Extends
  <2> HIDE DEF Ready, Opens
  <2>3. s \in 1 .. Len(Ready)
    BY <1>1, <2>1, <2>2
  <2> QED BY <2>2, <2>3
<1> DEFINE fed == Feed(Ready[s], hand, fault)
           c == CASE guard = "pass" -> fed
                  [] guard = "seal" -> Finished(fed, "mem-floor-seal")
                  [] guard = "fail" -> Lost(fed)
<1>4. c \in BoundedCapture /\ c.own = Ready[s].own /\ c.first_t = Ready[s].first_t
  <2>1. fed \in BoundedCapture /\ fed.own = Ready[s].own /\ fed.first_t = Ready[s].first_t
    BY <1>1, <1>3, FeedType
  <2> HIDE DEF fed, s
  <2>2. CASE guard = "pass"
    BY <2>1, <2>2
  <2>3. CASE guard = "seal"
    <3>1. "mem-floor-seal" \in Reasons
      BY DEF Reasons
    <3> QED BY <2>1, <2>3, <3>1, FinishedType
  <2>4. CASE guard = "fail"
    BY <2>1, <2>4, StateType DEF Lost
  <2> QED BY <2>2, <2>3, <2>4
<1>5. caps' = [Ready EXCEPT ![s] = c]
  BY <1>2
<1>6. Extends(caps', Ready) /\ Len(caps') = Len(Ready)
  <2> HIDE DEF c, s, Ready
  <2> QED BY <1>3, <1>4, <1>5, UpdateExtends
<1>7. req' \in {0, s} /\ clock' = (IF Opens THEN clock + 1 ELSE clock) /\ hand' = Nothing
  BY <1>2 DEF WorkerIngest
<1>8. /\ quiet' \in BOOLEAN /\ faults' \in 0 .. MaxFaults
      /\ UNCHANGED <<rec, ran, q, signal, wpc, seen, fire>>
  <2>1. UNCHANGED <<rec, ran, q, signal, wpc, seen, fire>>
    BY DEF WorkerIngest
  <2>2. quiet' \in BOOLEAN
    BY <1>2 DEF HookInv
  <2>3. faults' \in 0 .. MaxFaults
    <3>1. faults \in 0 .. MaxFaults /\ MaxFaults \in Nat
      BY DEF HookInv, HookAssumption
    <3> DEFINE raised == fault # "none" \/ guard = "fail"
    <3>2. (raised => faults < MaxFaults) /\ faults' = IF raised THEN faults + 1 ELSE faults
      BY <1>2
    <3> HIDE DEF raised
    <3> QED BY ONLY <3>1, <3>2
  <2> QED BY <2>1, <2>2, <2>3
<1> HIDE DEF c, fed, Ready, Opens
<1>9. WorkerEffect
  <2>1. Extends(caps', caps)
    BY <1>1, <1>6 DEF Extends, HookInv
  <2>2. CASE Opens
    BY <1>1, <1>3, <1>6, <1>7, <2>1, <2>2 DEF WorkerEffect, Extends
  <2>3. CASE ~Opens
    BY <1>1, <1>3, <1>6, <1>7, <2>1, <2>3 DEF WorkerEffect, Extends
  <2> QED BY <2>2, <2>3
<1>10. HookInv'
  <2>1. caps' \in Seq(BoundedCapture) /\ req' \in 0 .. Len(caps')
    BY <1>3, <1>6, <1>7 DEF Extends
  <2>2. hand' \in BoundedItem \cup Sentinel \cup {Nothing}
    BY <1>7
  <2>3. clock' \in Nat /\ signal' \in 0 .. clock' /\ seen' \in 0 .. clock'
    BY <1>7, <1>8 DEF HookInv
  <2> QED BY <1>8, <2>1, <2>2, <2>3 DEF HookInv
<1> QED BY <1>9, <1>10

\* One more swallowed exception stays within the bound.
LEMMA OneMoreFault ==
  ASSUME HookInv, faults < MaxFaults, faults' = faults + 1
  PROVE  faults' \in 0 .. MaxFaults
<1>1. MaxFaults \in Nat /\ faults \in 0 .. MaxFaults
  BY HookAssumption DEF HookAssumption, HookInv
<1> QED BY <1>1

\* Every step of the worker keeps the hook's types, and its effect on the
\* captures is one of the two that WorkerEffect allows.
LEMMA WorkerStep ==
  ASSUME HookInv, Worker \/ WorkerFault
  PROVE  HookInv' /\ WorkerEffect
<1> USE HookAssumption, BridgeAssumption
<1>1. caps \in Seq(BoundedCapture) /\ req \in 0 .. Len(caps) /\ Extends(caps, caps)
  BY DEF HookInv, Extends
<1>2. CASE WorkerGet
  <2>1. Head(q) \in BoundedItem \cup Sentinel /\ Tail(q) \in Seq(BoundedItem \cup Sentinel)
    BY <1>2 DEF WorkerGet, HookInv
  <2> QED BY <1>1, <1>2, <2>1 DEF WorkerGet, HookInv, WorkerEffect
<1>3. CASE WorkerIngest
  BY <1>3, WorkerIngestStep
<1>4. CASE WorkerFlush
  <2>1. hand \in Sentinel
    BY <1>4 DEF WorkerFlush, HookInv, BoundedItem, Nothing
  <2>2. hand.reason \in Reasons
    BY <2>1 DEF Sentinel, Reasons
  <2>3. Extends(caps', caps) /\ Len(caps') = Len(caps) /\ faults' \in 0 .. MaxFaults
    <3>1. CASE req = 0
      <4>1. caps' = caps /\ faults' = faults
        BY <1>4, <3>1 DEF WorkerFlush
      <4> QED BY <1>1, <4>1 DEF HookInv
    <3>2. CASE req # 0
      <4>1. req \in 1 .. Len(caps) /\ caps[req] \in BoundedCapture
        BY <1>1, <3>2
      <4>2. CASE caps' = [caps EXCEPT ![req] = Finished(@, hand.reason)] /\ UNCHANGED faults
        <5>1. /\ Finished(caps[req], hand.reason) \in BoundedCapture
              /\ Finished(caps[req], hand.reason).own = caps[req].own
              /\ Finished(caps[req], hand.reason).first_t = caps[req].first_t
          BY <2>2, <4>1, FinishedType
        <5> QED BY <1>1, <4>1, <4>2, <5>1, UpdateExtends DEF HookInv
      <4>3. CASE faults < MaxFaults /\ caps' = [caps EXCEPT ![req] = Lost(@)] /\ faults' = faults + 1
        <5>1. /\ Lost(caps[req]) \in BoundedCapture
              /\ Lost(caps[req]).own = caps[req].own
              /\ Lost(caps[req]).first_t = caps[req].first_t
          BY <4>1, StateType DEF Lost
        <5>2. faults' \in 0 .. MaxFaults
          BY <4>3, OneMoreFault
        <5> QED BY <1>1, <4>1, <4>3, <5>1, <5>2, UpdateExtends
      <4> QED BY <1>4, <3>2, <4>2, <4>3 DEF WorkerFlush
    <3> QED BY <3>1, <3>2
  <2>4. hand' = Nothing /\ req' = 0 /\ UNCHANGED <<rec, ran, q, clock, signal, quiet, wpc, seen, fire>>
    BY <1>4 DEF WorkerFlush
  <2> QED BY <2>3, <2>4 DEF HookInv, WorkerEffect, Extends
<1>5. CASE WorkerDrop
  <2>1. faults' \in 0 .. MaxFaults
    <3>1. faults < MaxFaults /\ faults' = faults + 1
      BY <1>5 DEF WorkerDrop
    <3> QED BY <3>1, OneMoreFault
  <2> QED BY <1>1, <1>5, <2>1 DEF WorkerDrop, HookInv, WorkerEffect
<1>6. CASE WorkerCloseFails
  <2>1. req \in 1 .. Len(caps) /\ caps[req] \in BoundedCapture
    BY <1>1, <1>6 DEF WorkerCloseFails, Closes
  <2>2. /\ Lost(caps[req]) \in BoundedCapture
        /\ Lost(caps[req]).own = caps[req].own
        /\ Lost(caps[req]).first_t = caps[req].first_t
    BY <2>1, StateType DEF Lost
  <2>3. Extends(caps', caps) /\ Len(caps') = Len(caps)
    BY <1>1, <1>6, <2>1, <2>2, UpdateExtends DEF WorkerCloseFails
  <2>4. faults' \in 0 .. MaxFaults
    <3>1. faults < MaxFaults /\ faults' = faults + 1
      BY <1>6 DEF WorkerCloseFails
    <3> QED BY <3>1, OneMoreFault
  <2>5. /\ req' = 0 /\ hand' = Nothing
        /\ UNCHANGED <<rec, ran, q, clock, signal, quiet, wpc, seen, fire>>
    BY <1>6 DEF WorkerCloseFails
  <2>6. caps' \in Seq(BoundedCapture) /\ req' \in 0 .. Len(caps')
    BY <1>1, <2>3, <2>5 DEF Extends
  <2>7. WorkerEffect
    BY <2>3, <2>5 DEF WorkerEffect
  <2> QED BY <2>4, <2>5, <2>6, <2>7 DEF HookInv
<1>7. CASE WorkerDiskFloor
  <2>1. /\ hand \in BoundedItem /\ Extends(Ready, caps) /\ Len(Ready) = Len(caps) + 1
        /\ Ready[Len(Ready)].own = hand.rq /\ Ready[Len(Ready)].first_t = clock + 1
    BY <1>7, ReadyType DEF WorkerDiskFloor
  <2>2. /\ caps' = [Ready EXCEPT ![Len(Ready)] = [@ EXCEPT !.state = "gone"]]
        /\ req' = 0 /\ clock' = clock + 1 /\ quiet' = FALSE /\ hand' = Nothing
        /\ UNCHANGED <<rec, ran, q, signal, wpc, seen, fire>>
    BY <1>7 DEF WorkerDiskFloor
  <2>3. faults' \in 0 .. MaxFaults
    <3>1. faults < MaxFaults /\ faults' = faults + 1
      BY <1>7 DEF WorkerDiskFloor
    <3> QED BY <3>1, OneMoreFault
  <2> HIDE DEF Ready
  <2>4. Ready \in Seq(BoundedCapture) /\ Len(Ready) \in 1 .. Len(Ready)
    BY <1>1, <2>1 DEF Extends
  <2> DEFINE c == [Ready[Len(Ready)] EXCEPT !.state = "gone"]
  <2>5. /\ c \in BoundedCapture /\ c.own = Ready[Len(Ready)].own
        /\ c.first_t = Ready[Len(Ready)].first_t
    <3>1. Ready[Len(Ready)] \in BoundedCapture
      BY <2>4
    <3> QED BY <3>1, StateType
  <2>6. caps' = [Ready EXCEPT ![Len(Ready)] = c]
    BY <2>2
  <2> HIDE DEF c
  <2>7. Extends(caps', Ready) /\ Len(caps') = Len(Ready)
    BY <2>4, <2>5, <2>6, UpdateExtends
  <2>8. Extends(caps', caps)
    BY <1>1, <2>1, <2>7 DEF Extends
  <2>9. caps'[Len(caps')].own = hand.rq /\ caps'[Len(caps')].first_t = clock + 1
    BY <2>1, <2>4, <2>7 DEF Extends
  <2>10. WorkerEffect
    BY <2>1, <2>2, <2>7, <2>8, <2>9 DEF WorkerEffect
  <2>11. signal' \in 0 .. clock' /\ seen' \in 0 .. clock' /\ clock' \in Nat
    <3>1. clock \in Nat /\ signal \in 0 .. clock /\ seen \in 0 .. clock
      BY DEF HookInv
    <3>2. clock' = clock + 1 /\ UNCHANGED <<signal, seen>>
      BY <2>2
    <3> QED BY <3>1, <3>2
  <2>12. caps' \in Seq(BoundedCapture) /\ req' \in 0 .. Len(caps')
    BY <1>1, <2>2, <2>8 DEF Extends
  <2>13. quiet' \in BOOLEAN /\ hand' \in BoundedItem \cup Sentinel \cup {Nothing}
    BY <2>2
  <2> QED BY <2>2, <2>3, <2>10, <2>11, <2>12, <2>13 DEF HookInv
<1> QED BY <1>2, <1>3, <1>4, <1>5, <1>6, <1>7 DEF Worker, WorkerFault

\* The GPU, the watcher and the idle clock leave the captures alone.
LEMMA OtherHookStep ==
  ASSUME HookInv, GpuStep \/ Watcher \/ IdleElapses
  PROVE  HookInv' /\ UNCHANGED <<caps, req, clock, hand>> /\ seen' \in {seen, signal} /\ signal' \in {signal, 0}
<1>1. CASE GpuStep
  BY <1>1 DEF GpuStep, HookInv
<1>2. CASE WatchStat
  BY <1>2 DEF WatchStat, HookInv
<1>3. CASE WatchDecide
  <2>1. wpc' \in {"stat", "unlink", "put"} /\ fire' \in {"none", "flush_now", "idle"}
    BY <1>3 DEF WatchDecide, AfterDecision, Verdict, HookInv
  <2>2. wpc' = "put" => fire' # "none"
    BY <1>3 DEF WatchDecide, AfterDecision, Verdict
  <2>3. UNCHANGED <<rec, ran, q, hand, caps, req, clock, signal, quiet, faults, seen>>
    BY <1>3 DEF WatchDecide
  <2> QED BY <2>1, <2>2, <2>3 DEF HookInv
<1>4. CASE WatchUnlink
  BY <1>4 DEF WatchUnlink, HookInv
<1>5. CASE WatchPut
  <2>1. [kind |-> "flush", reason |-> fire] \in Sentinel
    BY <1>5 DEF WatchPut, HookInv, Sentinel
  <2>2. q' \in Seq(BoundedItem \cup Sentinel)
    BY <1>5, <2>1 DEF WatchPut, HookInv
  <2> QED BY <1>5, <2>2 DEF WatchPut, HookInv
<1>6. CASE IdleElapses
  BY <1>6 DEF IdleElapses, HookInv
<1> QED BY <1>1, <1>2, <1>3, <1>4, <1>5, <1>6 DEF Watcher

-----------------------------------------------------------------------------
(* What the front computes *)

\* The first complete capture is one of them.
LEMMA MinComplete ==
  ASSUME caps \in Seq(BoundedCapture), Complete # {}
  PROVE  Min(Complete) \in Complete /\ Min(Complete) \in 1 .. Len(caps)
<1>1. Complete \in SUBSET Nat /\ Complete \subseteq 1 .. Len(caps)
  BY DEF Complete, Scanned
<1>2. \E m \in Complete : \A x \in Complete : m <= x
  <2> HIDE DEF Complete
  <2> QED BY <1>1, NatSetHasMin
<1> HIDE DEF Complete
<1>3. Min(Complete) \in Complete
  BY <1>2 DEF Min
<1> QED BY <1>1, <1>3

\* There is a longest usable candidate, and a newest of the longest.
LEMMA BestScanned ==
  ASSUME HookAssumption, BridgeAssumption, caps \in Seq(BoundedCapture), Scanned # {}
  PROVE  Best \in Scanned /\ Best \in 1 .. Len(caps)
<1>1. Scanned \subseteq 1 .. Len(caps) /\ Len(caps) \in Nat
  BY DEF Scanned
<1>2. \A s \in Scanned : UsablePrefix(caps[s]) \in 0 .. MaxChunks
  <2> SUFFICES ASSUME NEW s \in Scanned PROVE UsablePrefix(caps[s]) \in 0 .. MaxChunks
    OBVIOUS
  <2>1. caps[s] \in BoundedCapture
    BY <1>1
  <2> QED BY <2>1 DEF UsablePrefix, BoundedCapture, BridgeAssumption
<1> DEFINE U == {UsablePrefix(caps[s]) : s \in Scanned}
<1>3. PICK u \in U : \A x \in U : x <= u
  <2>1. U \in SUBSET (0 .. MaxChunks) /\ U # {} /\ MaxChunks \in Nat
    BY <1>2 DEF BridgeAssumption
  <2> HIDE DEF U
  <2> QED BY <2>1, BoundedSetHasMax
<1> DEFINE C == {s \in Scanned : UsablePrefix(caps[s]) = u}
<1>4. PICK s \in C : \A o \in C : o <= s
  <2>1. C \in SUBSET (0 .. Len(caps)) /\ C # {}
    BY <1>1, <1>3
  <2> HIDE DEF C
  <2> QED BY <1>1, <2>1, BoundedSetHasMax
<1>5. s \in Scanned /\ UsablePrefix(caps[s]) = u
  BY <1>4
<1>6. ASSUME NEW o \in Scanned
      PROVE  \/ UsablePrefix(caps[o]) < UsablePrefix(caps[s])
             \/ UsablePrefix(caps[o]) = UsablePrefix(caps[s]) /\ o <= s
  <2>1. UsablePrefix(caps[o]) \in U
    BY <1>6
  <2>2. UsablePrefix(caps[o]) <= u
    BY <1>3, <2>1
  <2>3. UsablePrefix(caps[o]) \in Nat /\ u \in Nat
    BY <1>2, <1>5, <1>6 DEF BridgeAssumption
  <2>4. CASE UsablePrefix(caps[o]) = u
    <3>1. o \in C
      BY <1>6, <2>4
    <3> QED BY <1>4, <1>5, <2>4, <3>1
  <2>5. CASE UsablePrefix(caps[o]) # u
    BY <1>5, <2>2, <2>3, <2>5
  <2> QED BY <2>4, <2>5
<1>7. Best \in Scanned
  BY <1>5, <1>6 DEF Best
<1> QED BY <1>1, <1>7

\* assemble_and_write stores a prefix of what it was asked for.
LEMMA AssembledType ==
  ASSUME NEW c, NEW n \in Nat
  PROVE  Assembled(c, n) \in 0 .. n
<1> DEFINE G == {b \in 0 .. n : \A li \in Layers :
                   c.fed[li] # <<>> /\ \A k \in 1 .. b : HasKeys(c, li, k)} \cup {0}
<1>1. G \in SUBSET (0 .. n) /\ G # {}
  OBVIOUS
<1>2. Assembled(c, n) = Max(G)
  BY DEF Assembled
<1> HIDE DEF G
<1>3. PICK m \in G : \A x \in G : x <= m
  BY <1>1, BoundedSetHasMax
<1>4. m \in G /\ \A x \in G : m >= x
  BY <1>1, <1>3
<1>5. Max(G) \in G
  BY <1>4 DEF Max
<1> QED BY <1>1, <1>2, <1>5

-----------------------------------------------------------------------------
(* Type correctness *)

\* The front and the engine lose nothing when the hook's captures only grow.
LEMMA HookKeepsRest ==
  ASSUME TypeInv, Extends(caps', caps), UNCHANGED engineVars, UNCHANGED frontVars
  PROVE  EngineInv' /\ FrontInv'
<1>1. Len(caps) \in Nat /\ Len(caps') \in Nat /\ Len(caps) <= Len(caps')
  BY DEF TypeInv, HookInv, Extends
<1>2. stored \subseteq [rq : Requests, cap : 1 .. Len(caps'), B : 0 .. MaxChunks]
  BY <1>1 DEF TypeInv, FrontInv
<1>3. before \in 0 .. Len(caps') /\ chosen \in 0 .. Len(caps')
  BY <1>1 DEF TypeInv, FrontInv
<1>4. EngineInv' /\ fr' \in 0 .. nreq' /\ ph' \in {"prefill", "grace", "pull"}
  BY DEF TypeInv, EngineInv, FrontInv, engineVars, frontVars
<1>5. fr' # 0 /\ ph' = "pull" => chosen' # 0
  BY DEF TypeInv, FrontInv, frontVars
<1> QED BY <1>2, <1>3, <1>4, <1>5 DEF FrontInv, frontVars

\* A post keeps the engine's types.
LEMMA SubmitStep ==
  ASSUME BridgeAssumption, EngineInv, NEW n \in 1 .. MaxChunks, Submit(n)
  PROVE  EngineInv' /\ UNCHANGED hookVars /\ nreq' = nreq + 1 /\ served' = served /\ nreq' \in Requests
  BY DEF BridgeAssumption, EngineInv, Submit

\* A step that leaves the hook alone keeps its types.
LEMMA HookUnchanged ==
  ASSUME HookInv, UNCHANGED hookVars
  PROVE  HookInv' /\ caps' = caps
  BY DEF HookInv, hookVars

LEMMA EngineStep ==
  ASSUME TypeInv, Engine
  PROVE  TypeInv'
<1> USE HookAssumption, BridgeAssumption
<1>1. HookInv /\ EngineInv /\ FrontInv
  BY DEF TypeInv
<1>2. CASE DirectSubmit
  <2>1. PICK n \in 1 .. MaxChunks : Submit(n)
    BY <1>2 DEF DirectSubmit
  <2>2. EngineInv' /\ UNCHANGED hookVars /\ nreq' = nreq + 1 /\ UNCHANGED frontVars
    BY <1>1, <1>2, <2>1, SubmitStep DEF DirectSubmit
  <2>3. HookInv' /\ caps' = caps
    BY <1>1, <2>2, HookUnchanged
  <2>4. FrontInv'
    BY <1>1, <2>2, <2>3 DEF FrontInv, frontVars, EngineInv
  <2> QED BY <2>2, <2>3, <2>4 DEF TypeInv
<1>3. CASE EngineForward
  <2>1. served + 1 \in Requests /\ at \in 0 .. MaxChunks - 1 /\ lay \in Layers
    BY <1>1, <1>3 DEF EngineForward, EngineFree, EngineInv, BridgeAssumption
  <2> DEFINE item == [kind |-> "item", rq |-> served + 1, at |-> at, li |-> lay, ev |-> rec + 1]
  <2>2. /\ rec' = rec + 1 /\ q' = Append(q, item)
        /\ UNCHANGED <<ran, hand, caps, req, clock, signal, quiet, faults, wpc, seen, fire>>
    BY <1>3 DEF EngineForward, Record
  <2>3. item \in BoundedItem
    BY <1>1, <2>1 DEF BoundedItem, HookInv
  <2> HIDE DEF item
  <2>4. HookInv'
    BY <1>1, <2>2, <2>3 DEF HookInv
  <2>5. at' \in 0 .. MaxChunks /\ lay' \in Layers
    BY <1>3, <2>1 DEF EngineForward, Layers, HookAssumption, BridgeAssumption
  <2>6. UNCHANGED <<nreq, len, served>> /\ UNCHANGED frontVars
    BY <1>3 DEF EngineForward
  <2>7. EngineInv'
    BY <1>1, <2>5, <2>6 DEF EngineInv
  <2>8. FrontInv'
    BY <1>1, <2>2, <2>6 DEF FrontInv, frontVars
  <2> QED BY <2>4, <2>7, <2>8 DEF TypeInv
<1>4. CASE EngineReturn
  <2>1. served' = served + 1 /\ at' = 0 /\ UNCHANGED <<nreq, len, lay>> /\ UNCHANGED hookVars /\ UNCHANGED frontVars
    BY <1>4 DEF EngineReturn
  <2>2. served # nreq
    BY <1>4 DEF EngineReturn, EngineFree
  <2>3. EngineInv'
    BY <1>1, <2>1, <2>2 DEF EngineInv, BridgeAssumption
  <2>4. HookInv' /\ caps' = caps
    BY <1>1, <2>1, HookUnchanged
  <2>5. FrontInv'
    BY <1>1, <2>1, <2>4 DEF FrontInv, frontVars
  <2> QED BY <2>3, <2>4, <2>5 DEF TypeInv
<1> QED BY <1>2, <1>3, <1>4 DEF Engine

LEMMA FrontStep ==
  ASSUME TypeInv, Front
  PROVE  TypeInv'
<1> USE HookAssumption, BridgeAssumption
<1>1. HookInv /\ EngineInv /\ FrontInv /\ caps \in Seq(BoundedCapture) /\ Len(caps) \in Nat
  BY DEF TypeInv, HookInv
<1>2. CASE FrontSubmit
  <2>1. PICK n \in 1 .. MaxChunks : Submit(n)
    BY <1>2 DEF FrontSubmit
  <2>2. /\ EngineInv' /\ UNCHANGED hookVars /\ nreq' = nreq + 1 /\ nreq' \in Requests
        /\ fr' = nreq + 1 /\ ph' = "prefill" /\ before' = Len(caps) /\ UNCHANGED <<chosen, stored>>
    BY <1>1, <1>2, <2>1, SubmitStep DEF FrontSubmit
  <2>3. HookInv' /\ caps' = caps
    BY <1>1, <2>2, HookUnchanged
  <2>4. FrontInv'
    BY <1>1, <2>2, <2>3 DEF FrontInv, EngineInv, BridgeAssumption
  <2> QED BY <2>2, <2>3, <2>4 DEF TypeInv
<1>3. CASE FrontChoose
  <2>1. chosen' \in 1 .. Len(caps) /\ ph' = "pull"
    BY <1>1, <1>3, MinComplete DEF FrontChoose
  <2>2. UNCHANGED hookVars /\ UNCHANGED engineVars /\ UNCHANGED <<fr, before, stored>>
    BY <1>3 DEF FrontChoose
  <2>3. HookInv' /\ caps' = caps
    BY <1>1, <2>2, HookUnchanged
  <2>4. EngineInv' /\ FrontInv'
    BY <1>1, <2>1, <2>2, <2>3 DEF EngineInv, FrontInv, engineVars
  <2> QED BY <2>3, <2>4 DEF TypeInv
<1>4. CASE FrontSignal
  <2>1. /\ ph' = "grace"
        /\ UNCHANGED <<rec, ran, q, hand, caps, req, quiet, faults, wpc, seen, fire>>
        /\ UNCHANGED engineVars /\ UNCHANGED <<fr, before, chosen, stored>>
    BY <1>4 DEF FrontSignal
  <2>2. clock' \in Nat /\ signal' \in 0 .. clock' /\ seen' \in 0 .. clock'
    BY <1>1, <1>4 DEF FrontSignal, TouchFlushNow, HookInv
  <2>3. HookInv'
    BY <1>1, <2>1, <2>2 DEF HookInv
  <2>4. EngineInv' /\ FrontInv'
    BY <1>1, <2>1 DEF EngineInv, FrontInv, engineVars
  <2> QED BY <2>3, <2>4 DEF TypeInv
<1>5. CASE FrontGraceOut
  <2>1. UNCHANGED hookVars /\ UNCHANGED engineVars /\ UNCHANGED <<before, stored>>
    BY <1>5 DEF FrontGraceOut
  <2>2. HookInv' /\ caps' = caps
    BY <1>1, <2>1, HookUnchanged
  <2>3. CASE Scanned # {} /\ chosen' = Best /\ ph' = "pull" /\ UNCHANGED fr
    <3>1. chosen' \in 1 .. Len(caps)
      BY <1>1, <2>3, BestScanned
    <3> QED BY <1>1, <2>1, <2>2, <2>3, <3>1 DEF TypeInv, EngineInv, FrontInv, engineVars
  <2>4. CASE fr' = 0 /\ UNCHANGED <<chosen, ph>>
    BY <1>1, <2>1, <2>2, <2>4 DEF TypeInv, EngineInv, FrontInv, engineVars
  <2> QED BY <1>5, <2>3, <2>4 DEF FrontGraceOut
<1>6. CASE FrontGivesUp
  <2>1. fr' = 0 /\ UNCHANGED hookVars /\ UNCHANGED engineVars /\ UNCHANGED <<ph, before, chosen, stored>>
    BY <1>6 DEF FrontGivesUp
  <2>2. HookInv' /\ caps' = caps
    BY <1>1, <2>1, HookUnchanged
  <2> QED BY <1>1, <2>1, <2>2 DEF TypeInv, EngineInv, FrontInv, engineVars
<1>7. CASE FrontPull
  <2> DEFINE n == Min({len[fr], caps[chosen].T})
             new == [rq |-> fr, cap |-> chosen, B |-> Assembled(caps[chosen], n)]
  <2>1. /\ fr # 0 /\ ph = "pull" /\ fr' = 0
        /\ UNCHANGED hookVars /\ UNCHANGED engineVars /\ UNCHANGED <<ph, before, chosen>>
        /\ stored' = stored \/ stored' = stored \cup {new}
    BY <1>7 DEF FrontPull
  <2>2. HookInv' /\ caps' = caps
    BY <1>1, <2>1, HookUnchanged
  <2>3. chosen \in 1 .. Len(caps) /\ fr \in Requests
    BY <1>1, <2>1 DEF FrontInv, EngineInv, BridgeAssumption
  <2>4. n \in 0 .. MaxChunks
    <3>1. len[fr] \in 0 .. MaxChunks
      BY <1>1, <2>3 DEF EngineInv
    <3>2. caps[chosen].T \in 0 .. MaxChunks
      <4>1. caps[chosen] \in BoundedCapture
        BY <1>1, <2>3
      <4> QED BY <4>1 DEF BoundedCapture
    <3> DEFINE S == {len[fr], caps[chosen].T}
    <3>3. S \in SUBSET Nat /\ S # {} /\ S \subseteq 0 .. MaxChunks
      BY <3>1, <3>2 DEF BridgeAssumption
    <3>4. n = Min(S)
      OBVIOUS
    <3> HIDE DEF S, n
    <3>5. \E m \in S : \A x \in S : m <= x
      BY <3>3, NatSetHasMin
    <3>6. Min(S) \in S
      BY <3>5 DEF Min
    <3> QED BY <3>3, <3>4, <3>6
  <2> HIDE DEF n
  <2>5. Assembled(caps[chosen], n) \in 0 .. MaxChunks
    <3>1. n \in Nat
      BY <2>4 DEF BridgeAssumption
    <3>2. Assembled(caps[chosen], n) \in 0 .. n
      BY <3>1, AssembledType
    <3> QED BY <2>4, <3>2 DEF BridgeAssumption
  <2>6. new \in [rq : Requests, cap : 1 .. Len(caps), B : 0 .. MaxChunks]
    BY <2>3, <2>5
  <2> HIDE DEF new
  <2>7. FrontInv' /\ EngineInv'
    BY <1>1, <2>1, <2>2, <2>6 DEF FrontInv, EngineInv, engineVars
  <2> QED BY <2>2, <2>7 DEF TypeInv
<1> QED BY <1>2, <1>3, <1>4, <1>5, <1>6, <1>7 DEF Front

\* Every step keeps the inductive invariant.
LEMMA TypeStep ==
  ASSUME TypeInv, [Next]_vars
  PROVE  TypeInv'
<1>1. HookInv /\ EngineInv /\ FrontInv /\ caps \in Seq(BoundedCapture)
  BY DEF TypeInv, HookInv
<1>2. CASE UNCHANGED vars
  BY <1>1, <1>2 DEF vars, hookVars, engineVars, frontVars, TypeInv, HookInv, EngineInv, FrontInv
<1>3. ASSUME Worker \/ WorkerFault, UNCHANGED engineVars, UNCHANGED frontVars PROVE TypeInv'
  <2>1. HookInv' /\ Extends(caps', caps)
    BY <1>1, <1>3, WorkerStep DEF WorkerEffect
  <2> QED BY <1>3, <2>1, HookKeepsRest DEF TypeInv
<1>4. ASSUME GpuStep \/ Watcher \/ IdleElapses, UNCHANGED engineVars, UNCHANGED frontVars PROVE TypeInv'
  <2>1. HookInv' /\ caps' = caps
    BY <1>1, <1>4, OtherHookStep
  <2>2. Extends(caps', caps)
    BY <1>1, <2>1 DEF Extends
  <2> QED BY <1>4, <2>1, <2>2, HookKeepsRest DEF TypeInv
<1>5. CASE Engine
  BY <1>5, EngineStep
<1>6. CASE Front
  BY <1>6, FrontStep
<1> QED BY <1>2, <1>3, <1>4, <1>5, <1>6 DEF Next, Hook, IdleMayElapse

LEMMA TypeInit ==
  ASSUME Init
  PROVE  TypeInv
<1> USE HookAssumption, BridgeAssumption
<1>1. HookInv
  <2>1. <<>> \in Seq(BoundedItem \cup Sentinel) /\ <<>> \in Seq(BoundedCapture)
    OBVIOUS
  <2>2. 0 \in 0 .. MaxFaults
    BY DEF HookAssumption
  <2>3. q \in Seq(BoundedItem \cup Sentinel) /\ caps \in Seq(BoundedCapture) /\ req \in 0 .. Len(caps)
    BY <2>1 DEF Init, HookInit
  <2> QED BY <2>2, <2>3 DEF Init, HookInit, HookInv
<1>2. EngineInv /\ FrontInv
  BY DEF Init, HookInit, EngineInv, FrontInv, HookAssumption, BridgeAssumption, Layers
<1> QED BY <1>1, <1>2 DEF TypeInv

\* The bounded types are among the module's types.
LEMMA TypeInvGivesTypeOK ==
  ASSUME TypeInv
  PROVE  TypeOK
<1> USE HookAssumption, BridgeAssumption
<1>1. BoundedItem \subseteq Item
  BY DEF BoundedItem, Item, BridgeAssumption
<1>2. BoundedCapture \subseteq Capture
  <2>1. BoundedRow \subseteq Row
    BY DEF BoundedRow, Row, BridgeAssumption
  <2>2. Seq(BoundedRow) \subseteq Seq(Row)
    BY <2>1
  <2> QED BY <2>2 DEF BoundedCapture, Capture, BridgeAssumption
<1>3. q \in Seq(Item \cup Sentinel) /\ hand \in Item \cup Sentinel \cup {Nothing}
  <2>1. BoundedItem \cup Sentinel \subseteq Item \cup Sentinel
    BY <1>1
  <2> QED BY <1>1, <2>1 DEF TypeInv, HookInv
<1>4. caps \in Seq(Capture)
  BY <1>2 DEF TypeInv, HookInv
<1>5. HookTypeOK
  BY <1>3, <1>4 DEF TypeInv, HookInv, HookTypeOK
<1> QED BY <1>5 DEF TypeOK, TypeInv, EngineInv, FrontInv

\* Every variable of the hook, the engine and the front keeps its type, for any
\* number of layers, prompts and blocks and any mix of faults and clients.
THEOREM TypeCorrect == Spec => []TypeOK
<1>1. Init => TypeInv
  BY TypeInit
<1>2. TypeInv /\ [Next]_vars => TypeInv'
  BY TypeStep
<1>3. TypeInv => TypeOK
  BY TypeInvGivesTypeOK
<1> QED BY <1>1, <1>2, <1>3, PTL DEF Spec

-----------------------------------------------------------------------------
(* A flush on demand is about a prompt that is over *)

\* Only prompts that were posted are seen by the hook.
KnownPrompts ==
  /\ \A i \in DOMAIN q : q[i].kind = "item" => q[i].rq <= nreq
  /\ hand.kind = "item" => hand.rq <= nreq
  /\ \A s \in DOMAIN caps : caps[s].own <= nreq

\* A signal t not older than the open capture was touched after it was opened,
\* by a front all of whose prompts, that capture's included, had returned.
SignalIsLate(t) == t # 0 /\ req # 0 /\ t >= caps[req].first_t => caps[req].own <= served

DemandInv ==
  /\ KnownPrompts
  /\ \A s \in DOMAIN caps : caps[s].first_t <= clock
  /\ fr # 0 => fr = nreq
  /\ SignalIsLate(signal) /\ SignalIsLate(seen)

\* Worker steps: what they open is younger than every signal.
LEMMA WorkerKeepsDemand ==
  ASSUME TypeInv, DemandInv, Worker \/ WorkerFault, UNCHANGED engineVars, UNCHANGED frontVars
  PROVE  DemandInv'
<1>1. HookInv /\ HookInv' /\ WorkerEffect /\ caps \in Seq(BoundedCapture) /\ caps' \in Seq(BoundedCapture)
  BY WorkerStep DEF TypeInv, HookInv
<1>2. UNCHANGED <<nreq, served, fr, signal, seen>>
  BY DEF Worker, WorkerFault, WorkerGet, WorkerIngest, WorkerFlush, WorkerDrop, WorkerCloseFails,
         WorkerDiskFloor, engineVars, frontVars
<1>3. /\ \A i \in DOMAIN q' : q'[i].kind = "item" => q'[i].rq <= nreq
      /\ hand'.kind = "item" => hand'.rq <= nreq
  <2>1. CASE WorkerGet
    <3>1. q # <<>> /\ hand' = Head(q) /\ q' = Tail(q)
      BY <2>1 DEF WorkerGet
    <3>2. q \in Seq(BoundedItem \cup Sentinel)
      BY <1>1 DEF HookInv
    <3>3. hand' = q[1] /\ 1 \in DOMAIN q /\ \A i \in DOMAIN q' : q'[i] = q[i + 1] /\ i + 1 \in DOMAIN q
      BY <3>1, <3>2
    <3> QED BY <3>3 DEF DemandInv, KnownPrompts
  <2>2. CASE ~WorkerGet
    <3>1. hand' = Nothing /\ q' = q
      BY <2>2 DEF Worker, WorkerFault, WorkerIngest, WorkerFlush, WorkerDrop, WorkerCloseFails,
                  WorkerDiskFloor
    <3> QED BY <3>1 DEF DemandInv, KnownPrompts, Nothing
  <2> QED BY <2>1, <2>2
<1>4. /\ \A s \in DOMAIN caps' : caps'[s].own <= nreq
      /\ \A s \in DOMAIN caps' : caps'[s].first_t <= clock'
  <2> SUFFICES ASSUME NEW s \in DOMAIN caps' PROVE caps'[s].own <= nreq /\ caps'[s].first_t <= clock'
    OBVIOUS
  <2>1. CASE s <= Len(caps)
    <3>1. s \in DOMAIN caps /\ caps'[s].own = caps[s].own /\ caps'[s].first_t = caps[s].first_t
      BY <1>1, <2>1 DEF WorkerEffect, Extends
    <3>2. caps[s].own <= nreq /\ caps[s].first_t <= clock
      BY <3>1 DEF DemandInv, KnownPrompts
    <3>3. clock \in Nat /\ clock' \in {clock, clock + 1} /\ caps[s] \in BoundedCapture
      BY <1>1, <3>1 DEF WorkerEffect, HookInv
    <3>4. caps[s].first_t \in Nat
      BY <3>3 DEF BoundedCapture
    <3> QED BY <3>1, <3>2, <3>3, <3>4
  <2>2. CASE ~(s <= Len(caps))
    <3>1. /\ s = Len(caps') /\ hand \in BoundedItem /\ clock' = clock + 1
          /\ caps'[s].own = hand.rq /\ caps'[s].first_t = clock + 1
      BY <1>1, <2>2 DEF WorkerEffect
    <3>2. hand.kind = "item"
      BY <3>1 DEF BoundedItem
    <3>3. clock + 1 \in Nat
      BY <1>1 DEF HookInv
    <3> QED BY <3>1, <3>2, <3>3 DEF DemandInv, KnownPrompts
  <2> QED BY <2>1, <2>2
<1>5. ASSUME NEW t \in 0 .. clock, SignalIsLate(t)
      PROVE  t # 0 /\ req' # 0 /\ t >= caps'[req'].first_t => caps'[req'].own <= served
  <2>1. clock \in Nat /\ Len(caps) \in Nat /\ req \in 0 .. Len(caps) /\ t \in Nat /\ t <= clock
    BY <1>1 DEF HookInv
  <2>2. CASE Len(caps') = Len(caps) /\ req' \in {0, req}
    <3>1. CASE req' = 0
      BY <3>1
    <3>2. CASE req' # 0
      <4>1. req' = req /\ req \in 1 .. Len(caps)
        BY <2>1, <2>2, <3>2
      <4>2. caps'[req].own = caps[req].own /\ caps'[req].first_t = caps[req].first_t
        BY <1>1, <4>1 DEF WorkerEffect, Extends
      <4> QED BY <1>5, <4>1, <4>2 DEF SignalIsLate
    <3> QED BY <3>1, <3>2
  <2>3. CASE req' \in {0, Len(caps')} /\ caps'[Len(caps')].first_t = clock + 1
    BY <2>1, <2>3
  <2> QED BY <1>1, <2>2, <2>3 DEF WorkerEffect
<1>6. SignalIsLate(signal)' /\ SignalIsLate(seen)'
  <2>1. signal \in 0 .. clock /\ seen \in 0 .. clock /\ SignalIsLate(signal) /\ SignalIsLate(seen)
    BY <1>1 DEF HookInv, DemandInv
  <2> QED BY <1>2, <1>5, <2>1 DEF SignalIsLate
<1> QED BY <1>2, <1>3, <1>4, <1>6 DEF DemandInv, KnownPrompts

\* GPU, watcher and clock: the watcher can only copy or remove the signal.
LEMMA OtherHookKeepsDemand ==
  ASSUME TypeInv, DemandInv, GpuStep \/ Watcher \/ IdleElapses,
         UNCHANGED engineVars, UNCHANGED frontVars
  PROVE  DemandInv'
<1>1. /\ UNCHANGED <<caps, req, clock, hand>> /\ seen' \in {seen, signal} /\ signal' \in {signal, 0}
      /\ q \in Seq(BoundedItem \cup Sentinel)
  BY OtherHookStep DEF TypeInv, HookInv
<1>2. UNCHANGED <<nreq, served, fr>>
  BY DEF engineVars, frontVars
<1>3. \A i \in DOMAIN q' : q'[i].kind = "item" => q'[i].rq <= nreq
  <2>1. CASE WatchPut
    <3>1. q' = Append(q, [kind |-> "flush", reason |-> fire])
      BY <2>1 DEF WatchPut
    <3>2. ASSUME NEW i \in DOMAIN q', q'[i].kind = "item" PROVE i \in DOMAIN q /\ q'[i] = q[i]
      BY <1>1, <3>1, <3>2
    <3> QED BY <3>2 DEF DemandInv, KnownPrompts
  <2>2. CASE q' = q
    BY <2>2 DEF DemandInv, KnownPrompts
  <2> QED BY <2>1, <2>2 DEF GpuStep, Watcher, WatchStat, WatchDecide, WatchUnlink, IdleElapses
<1> QED BY <1>1, <1>2, <1>3 DEF DemandInv, KnownPrompts, SignalIsLate

LEMMA EngineKeepsDemand ==
  ASSUME TypeInv, DemandInv, EngineForward \/ EngineReturn
  PROVE  DemandInv'
<1>1. HookInv /\ EngineInv /\ FrontInv
  BY DEF TypeInv
<1>2. nreq \in Nat /\ served \in 0 .. nreq
  BY <1>1, BridgeAssumption DEF EngineInv, BridgeAssumption
<1>3. CASE EngineForward
  <2>1. /\ q' = Append(q, [kind |-> "item", rq |-> served + 1, at |-> at, li |-> lay, ev |-> rec + 1])
        /\ UNCHANGED <<hand, caps, req, clock, signal, seen, nreq, served, fr>> /\ served # nreq
    BY <1>3 DEF EngineForward, Record, EngineFree, frontVars
  <2>2. q \in Seq(BoundedItem \cup Sentinel)
    BY <1>1 DEF HookInv
  <2>3. ASSUME NEW i \in DOMAIN q', q'[i].kind = "item" PROVE q'[i].rq <= nreq
    <3>1. CASE i \in DOMAIN q
      <4>1. q'[i] = q[i]
        BY <2>1, <2>2, <3>1
      <4> QED BY <2>3, <3>1, <4>1 DEF DemandInv, KnownPrompts
    <3>2. CASE i \notin DOMAIN q
      <4>1. q'[i].rq = served + 1
        BY <2>1, <2>2, <2>3, <3>2
      <4> QED BY <1>2, <2>1, <4>1
    <3> QED BY <3>1, <3>2
  <2> QED BY <2>1, <2>3 DEF DemandInv, KnownPrompts, SignalIsLate
<1>4. CASE EngineReturn
  <2>1. UNCHANGED <<q, hand, caps, req, clock, signal, seen, nreq, fr>> /\ served' = served + 1
    BY <1>4 DEF EngineReturn, hookVars, frontVars
  <2>2. ASSUME NEW t, SignalIsLate(t) PROVE t # 0 /\ req # 0 /\ t >= caps[req].first_t => caps[req].own <= served + 1
    <3>1. req # 0 => caps[req] \in BoundedCapture
      BY <1>1 DEF HookInv
    <3>2. req # 0 => caps[req].own \in Nat
      BY <3>1, BridgeAssumption DEF BoundedCapture, BridgeAssumption
    <3> QED BY <1>2, <2>2, <3>2 DEF SignalIsLate
  <2>3. SignalIsLate(signal)' /\ SignalIsLate(seen)'
    BY <2>1, <2>2 DEF DemandInv, SignalIsLate
  <2> QED BY <2>1, <2>3 DEF DemandInv, KnownPrompts
<1> QED BY <1>3, <1>4

LEMMA FrontKeepsDemand ==
  ASSUME TypeInv, DemandInv, Front
  PROVE  DemandInv'
<1> USE BridgeAssumption
<1>1. HookInv /\ EngineInv /\ FrontInv /\ nreq \in Nat /\ served \in 0 .. nreq
  BY DEF TypeInv, EngineInv, BridgeAssumption
<1>2. CASE FrontSubmit
  <2>1. PICK n \in 1 .. MaxChunks : Submit(n)
    BY <1>2 DEF FrontSubmit
  <2>2. UNCHANGED <<q, hand, caps, req, clock, signal, seen, served>> /\ nreq' = nreq + 1 /\ fr' = nreq + 1
    BY <1>2, <2>1 DEF FrontSubmit, Submit, hookVars
  <2>3. \A i \in DOMAIN q : q[i].kind = "item" => q[i].rq <= nreq + 1
    <3> SUFFICES ASSUME NEW i \in DOMAIN q, q[i].kind = "item" PROVE q[i].rq <= nreq + 1
      OBVIOUS
    <3>1. q[i] \in BoundedItem \cup Sentinel
      BY <1>1 DEF HookInv
    <3>2. q[i].rq \in Nat
      BY <3>1 DEF BoundedItem, Sentinel, BridgeAssumption
    <3> QED BY <1>1, <3>2 DEF DemandInv, KnownPrompts
  <2>4. hand.kind = "item" => hand.rq <= nreq + 1
    <3> SUFFICES ASSUME hand.kind = "item" PROVE hand.rq <= nreq + 1
      OBVIOUS
    <3>1. hand.rq \in Nat
      BY <1>1 DEF HookInv, BoundedItem, Sentinel, Nothing, BridgeAssumption
    <3> QED BY <1>1, <3>1 DEF DemandInv, KnownPrompts
  <2>5. \A s \in DOMAIN caps : caps[s].own <= nreq + 1
    <3> SUFFICES ASSUME NEW s \in DOMAIN caps PROVE caps[s].own <= nreq + 1
      OBVIOUS
    <3>1. caps[s] \in BoundedCapture
      BY <1>1 DEF HookInv
    <3>2. caps[s].own \in Nat
      BY <3>1 DEF BoundedCapture, BridgeAssumption
    <3> QED BY <1>1, <3>2 DEF DemandInv, KnownPrompts
  <2> QED BY <2>2, <2>3, <2>4, <2>5 DEF DemandInv, KnownPrompts, SignalIsLate
<1>3. CASE FrontSignal
  <2>1. /\ UNCHANGED <<q, hand, caps, req, seen, nreq, served, fr>> /\ fr # 0 /\ fr <= served
        /\ \/ signal' = clock + 1 /\ clock' = clock + 1
           \/ UNCHANGED <<signal, clock>>
    BY <1>3 DEF FrontSignal, TouchFlushNow, EngineOver, engineVars
  <2>2. served = nreq
    BY <1>1, <2>1 DEF DemandInv
  <2>3. \A s \in DOMAIN caps : caps[s].first_t <= clock'
    <3> SUFFICES ASSUME NEW s \in DOMAIN caps PROVE caps[s].first_t <= clock'
      OBVIOUS
    <3>1. caps[s] \in BoundedCapture /\ clock \in Nat
      BY <1>1 DEF HookInv
    <3>2. caps[s].first_t \in Nat
      BY <3>1 DEF BoundedCapture
    <3> QED BY <2>1, <3>1, <3>2 DEF DemandInv
  <2>4. req # 0 => caps[req].own <= served
    BY <1>1, <2>2 DEF HookInv, DemandInv, KnownPrompts
  <2> QED BY <2>1, <2>3, <2>4 DEF DemandInv, KnownPrompts, SignalIsLate
<1>4. CASE FrontChoose \/ FrontGraceOut \/ FrontGivesUp \/ FrontPull
  <2>1. UNCHANGED <<q, hand, caps, req, clock, signal, seen, nreq, served>> /\ fr' \in {0, fr}
    BY <1>4 DEF FrontChoose, FrontGraceOut, FrontGivesUp, FrontPull, hookVars, engineVars
  <2> QED BY <2>1 DEF DemandInv, KnownPrompts, SignalIsLate
<1> QED BY <1>2, <1>3, <1>4 DEF Front

\* The front is the engine's only client here: a direct client's prompt may be
\* open when the front signals for its own.
LEMMA DemandStep ==
  ASSUME ~Direct, TypeInv, DemandInv, [Next]_vars
  PROVE  DemandInv'
<1>1. CASE UNCHANGED vars
  BY <1>1 DEF vars, hookVars, engineVars, frontVars, DemandInv, KnownPrompts, SignalIsLate
<1>2. ASSUME Worker \/ WorkerFault, UNCHANGED engineVars, UNCHANGED frontVars PROVE DemandInv'
  BY <1>2, WorkerKeepsDemand
<1>3. ASSUME GpuStep \/ Watcher \/ IdleElapses, UNCHANGED engineVars, UNCHANGED frontVars PROVE DemandInv'
  BY <1>3, OtherHookKeepsDemand
<1>4. CASE Engine
  BY <1>4, EngineKeepsDemand DEF Engine, DirectSubmit
<1>5. CASE Front
  BY <1>5, FrontKeepsDemand
<1> QED BY <1>1, <1>2, <1>3, <1>4, <1>5 DEF Next, Hook, IdleMayElapse

\* The only step that decides to flush on demand reads a signal at least as old
\* as the open capture.
LEMMA DecisionIsLate ==
  ASSUME TypeInv, DemandInv, [Next]_vars, fire' = "flush_now", fire # "flush_now"
  PROVE  caps[req].own <= served
<1>1. WatchDecide /\ req # 0
  <2>1. ~UNCHANGED fire
    OBVIOUS
  <2>2. WatchDecide
    BY <2>1 DEF Next, Hook, IdleMayElapse, vars, hookVars, Worker, WorkerFault, Watcher, Engine, Front,
       GpuStep, WorkerGet, WorkerIngest, WorkerFlush, WorkerDrop, WorkerCloseFails, WorkerDiskFloor,
       WatchStat, WatchUnlink, WatchPut, IdleElapses, DirectSubmit, Submit, EngineForward, Record,
       EngineReturn, FrontSubmit, FrontChoose, FrontSignal, FrontGraceOut, FrontGivesUp, FrontPull
  <2> QED BY <2>1, <2>2 DEF WatchDecide
<1>2. Demanded(caps[req])
  BY <1>1 DEF WatchDecide, Verdict
<1> QED BY <1>1, <1>2 DEF Demanded, DemandInv, SignalIsLate

\* When the front is the engine's only client, a flush on demand closes a prompt
\* whose engine call has returned, whatever faults, early idle flushes, lost
\* signals, deadlines and leftovers of earlier prompts came before it.
THEOREM DemandCorrect == ASSUME ~Direct PROVE Spec => DemandMeansReturned
<1>1. Init => TypeInv
  BY TypeInit
<1>2. TypeInv /\ [Next]_vars => TypeInv'
  BY TypeStep
<1>3. Init => DemandInv
  BY DEF Init, HookInit, DemandInv, KnownPrompts, SignalIsLate, Nothing
<1>4. TypeInv /\ DemandInv /\ [Next]_vars => DemandInv'
  BY DemandStep
<1>5. TypeInv /\ DemandInv /\ [Next]_vars
        => [fire' = "flush_now" /\ fire # "flush_now" => caps[req].own <= served]_vars
  BY DecisionIsLate
<1> QED BY <1>1, <1>2, <1>3, <1>4, <1>5, PTL DEF Spec, DemandMeansReturned

-----------------------------------------------------------------------------
(* No capture blends two prompts, as long as no exception is swallowed.     *)
(*                                                                          *)
(* The hook recognises a prompt by its first item alone (layer 0, position  *)
(* 0).  The proof is about the order of what it has still to see: the item  *)
(* in the worker's hand, the queue, and the engine's next item.             *)

-----------------------------------------------------------------------------
(* Streams *)

IsItem(x) == x.kind = "item"

\* x is the first item of prompt r
Starts(x, r) == IsItem(x) /\ x.at = 0 /\ x.li = 0 /\ x.rq = r

\* x is a later item of a prompt other than r
Strays(x, r) == IsItem(x) /\ ~(x.at = 0 /\ x.li = 0) /\ x.rq # r

\* From lo on, S[0 .. n] holds no stray of r before the first item of its prompt.
Leads(S, n, r, lo) ==
  \A j \in lo .. n : Strays(S[j], r) => \E k \in lo .. j - 1 : Starts(S[k], S[j].rq)

\* Between two items of different prompts there is the first item of the later one.
Ordered(S, n) == \A i \in 0 .. n : IsItem(S[i]) => Leads(S, n, S[i].rq, i + 1)

\* A queue entry of the prompt that is running, appended behind the stream.
LEMMA LeadsAppend ==
  ASSUME NEW S, NEW T, NEW n \in Nat, NEW r, NEW lo \in 0 .. n + 1,
         \A k \in 0 .. n : T[k] = S[k], IsItem(S[n]), T[n + 1].rq = S[n].rq,
         lo <= n, Leads(S, n, r, lo)
  PROVE  Leads(T, n + 1, r, lo)
<1> SUFFICES ASSUME NEW j \in lo .. n + 1, Strays(T[j], r)
             PROVE  \E k \in lo .. j - 1 : Starts(T[k], T[j].rq)
  BY DEF Leads
<1>1. CASE j <= n
  <2>1. j \in lo .. n /\ T[j] = S[j]
    BY <1>1
  <2>2. PICK k \in lo .. j - 1 : Starts(S[k], S[j].rq)
    BY <2>1 DEF Leads
  <2>3. T[k] = S[k]
    BY <2>1, <2>2
  <2> QED BY <2>1, <2>2, <2>3
<1>2. CASE j = n + 1
  <2>1. S[n].rq # r /\ T[j].rq = S[n].rq /\ n \in lo .. n /\ T[n] = S[n]
    BY <1>2 DEF Strays
  <2>2. CASE Starts(S[n], S[n].rq)
    <3>1. n \in lo .. j - 1
      BY <1>2, <2>1
    <3> QED BY <2>1, <2>2, <3>1
  <2>3. CASE ~Starts(S[n], S[n].rq)
    <3>1. Strays(S[n], r)
      BY <2>1, <2>3 DEF Strays, Starts
    <3>2. PICK k \in lo .. n - 1 : Starts(S[k], S[n].rq)
      BY <2>1, <3>1 DEF Leads
    <3>3. k \in lo .. j - 1 /\ T[k] = S[k]
      BY <1>2, <3>2
    <3> QED BY <2>1, <3>2, <3>3
  <2> QED BY <2>2, <2>3
<1> QED BY <1>1, <1>2

\* The engine appends an item to a stream that keeps its order.
LEMMA OrderedAppend ==
  ASSUME NEW S, NEW T, NEW n \in Nat,
         \A k \in 0 .. n : T[k] = S[k], IsItem(S[n]), T[n + 1].rq = S[n].rq, Ordered(S, n)
  PROVE  Ordered(T, n + 1)
<1> SUFFICES ASSUME NEW i \in 0 .. n + 1, IsItem(T[i])
             PROVE  Leads(T, n + 1, T[i].rq, i + 1)
  BY DEF Ordered
<1>1. CASE i < n
  <2>1. i \in 0 .. n /\ T[i] = S[i] /\ i + 1 \in 0 .. n + 1 /\ i + 1 <= n
    BY <1>1
  <2>2. Leads(S, n, S[i].rq, i + 1)
    BY <2>1 DEF Ordered
  <2> QED BY <2>1, <2>2, LeadsAppend
<1>2. CASE i = n
  <2>1. T[n].rq = T[n + 1].rq
    OBVIOUS
  <2>2. \A j \in n + 1 .. n + 1 : j = n + 1
    OBVIOUS
  <2> QED BY <1>2, <2>1, <2>2 DEF Leads, Strays
<1>3. CASE i = n + 1
  <2>1. i + 1 .. n + 1 = {}
    BY <1>3
  <2> QED BY <2>1 DEF Leads
<1> QED BY <1>1, <1>2, <1>3

\* The head of the queue moves into the worker's empty hand.
LEMMA ShiftStream ==
  ASSUME NEW S, NEW T, NEW n \in Nat, \A k \in 0 .. n : T[k] = S[k + 1],
         ~IsItem(S[0])
  PROVE  /\ Ordered(S, n + 1) => Ordered(T, n)
         /\ \A r : Leads(S, n + 1, r, 0) => Leads(T, n, r, 0)
<1>1. ASSUME NEW r, NEW lo \in 0 .. n + 1, Leads(S, n + 1, r, lo + 1) PROVE Leads(T, n, r, lo)
  <2> SUFFICES ASSUME NEW j \in lo .. n, Strays(T[j], r)
               PROVE  \E k \in lo .. j - 1 : Starts(T[k], T[j].rq)
    BY DEF Leads
  <2>1. j + 1 \in lo + 1 .. n + 1 /\ T[j] = S[j + 1]
    OBVIOUS
  <2>2. PICK k \in lo + 1 .. (j + 1) - 1 : Starts(S[k], S[j + 1].rq)
    BY <1>1, <2>1 DEF Leads
  <2>3. k - 1 \in lo .. j - 1 /\ T[k - 1] = S[k]
    <3>1. k - 1 \in 0 .. n /\ (k - 1) + 1 = k
      BY <2>1, <2>2
    <3> QED BY <2>2, <3>1
  <2> QED BY <2>1, <2>2, <2>3
<1>2. ASSUME Ordered(S, n + 1) PROVE Ordered(T, n)
  <2> SUFFICES ASSUME NEW i \in 0 .. n, IsItem(T[i]) PROVE Leads(T, n, T[i].rq, i + 1)
    BY DEF Ordered
  <2>1. i + 1 \in 0 .. n + 1 /\ T[i] = S[i + 1]
    OBVIOUS
  <2>2. Leads(S, n + 1, S[i + 1].rq, (i + 1) + 1)
    BY <1>2, <2>1 DEF Ordered
  <2> QED BY <1>1, <2>1, <2>2
<1>3. ASSUME NEW r, Leads(S, n + 1, r, 0) PROVE Leads(T, n, r, 0)
  <2>1. Leads(S, n + 1, r, 1)
    <3> SUFFICES ASSUME NEW j \in 1 .. n + 1, Strays(S[j], r)
                 PROVE  \E k \in 1 .. j - 1 : Starts(S[k], S[j].rq)
      BY DEF Leads
    <3>1. PICK k \in 0 .. j - 1 : Starts(S[k], S[j].rq)
      BY <1>3 DEF Leads
    <3>2. k # 0
      BY <3>1 DEF Starts
    <3>3. k \in 1 .. j - 1
      BY <3>1, <3>2
    <3> QED BY <3>1, <3>3
  <2>2. 0 \in 0 .. n + 1 /\ 0 + 1 = 1
    OBVIOUS
  <2> QED BY <1>1, <2>1, <2>2
<1> QED BY <1>2, <1>3

\* A sentinel enters the queue before the engine's next item.
LEMMA InsertSentinel ==
  ASSUME NEW S, NEW T, NEW n \in Nat, \A k \in 0 .. n - 1 : T[k] = S[k],
         ~IsItem(T[n]), T[n + 1] = S[n]
  PROVE  /\ Ordered(S, n) => Ordered(T, n + 1)
         /\ \A r : Leads(S, n, r, 0) => Leads(T, n + 1, r, 0)
<1>1. ASSUME NEW r, NEW lo \in 0 .. n, Leads(S, n, r, lo) PROVE Leads(T, n + 1, r, lo)
  <2> SUFFICES ASSUME NEW j \in lo .. n + 1, Strays(T[j], r)
               PROVE  \E k \in lo .. j - 1 : Starts(T[k], T[j].rq)
    BY DEF Leads
  <2>1. j # n
    BY DEF Strays
  <2> DEFINE i == IF j = n + 1 THEN n ELSE j
  <2>2. i \in lo .. n /\ T[j] = S[i] /\ i <= j
    BY <2>1
  <2> HIDE DEF i
  <2>3. PICK k \in lo .. i - 1 : Starts(S[k], S[i].rq)
    BY <1>1, <2>2 DEF Leads
  <2>4. k \in lo .. j - 1 /\ T[k] = S[k]
    BY <2>2, <2>3
  <2> QED BY <2>2, <2>3, <2>4
<1>2. ASSUME Ordered(S, n) PROVE Ordered(T, n + 1)
  <2> SUFFICES ASSUME NEW i \in 0 .. n + 1, IsItem(T[i]) PROVE Leads(T, n + 1, T[i].rq, i + 1)
    BY DEF Ordered
  <2>1. CASE i = n + 1
    <3>1. i + 1 .. n + 1 = {}
      BY <2>1
    <3> QED BY <3>1 DEF Leads
  <2>2. CASE i # n + 1
    <3>1. i \in 0 .. n - 1 /\ T[i] = S[i] /\ i + 1 \in 0 .. n
      BY <2>2
    <3>2. Leads(S, n, S[i].rq, i + 1)
      BY <1>2, <3>1 DEF Ordered
    <3> QED BY <1>1, <3>1, <3>2
  <2> QED BY <2>1, <2>2
<1> QED BY <1>1, <1>2

\* The worker has done with what was in its hand.
LEMMA EmptyHand ==
  ASSUME NEW S, NEW T, NEW n \in Nat, \A k \in 1 .. n : T[k] = S[k], ~IsItem(T[0])
  PROVE  /\ Ordered(S, n) => Ordered(T, n)
         /\ \A r : Leads(S, n, r, 1) => Leads(T, n, r, 0)
<1>1. ASSUME NEW r, NEW lo \in 1 .. n + 1, Leads(S, n, r, lo) PROVE Leads(T, n, r, lo)
  <2> SUFFICES ASSUME NEW j \in lo .. n, Strays(T[j], r)
               PROVE  \E k \in lo .. j - 1 : Starts(T[k], T[j].rq)
    BY DEF Leads
  <2>1. j \in 1 .. n /\ T[j] = S[j]
    OBVIOUS
  <2>2. PICK k \in lo .. j - 1 : Starts(S[k], S[j].rq)
    BY <1>1, <2>1 DEF Leads
  <2>3. T[k] = S[k]
    BY <2>1, <2>2
  <2> QED BY <2>1, <2>2, <2>3
<1>2. ASSUME Ordered(S, n) PROVE Ordered(T, n)
  <2> SUFFICES ASSUME NEW i \in 0 .. n, IsItem(T[i]) PROVE Leads(T, n, T[i].rq, i + 1)
    BY DEF Ordered
  <2>1. i # 0
    OBVIOUS
  <2>2. i \in 1 .. n /\ T[i] = S[i] /\ i + 1 \in 1 .. n + 1
    BY <2>1
  <2>3. Leads(S, n, S[i].rq, i + 1)
    BY <1>2, <2>2 DEF Ordered
  <2> QED BY <1>1, <2>2, <2>3
<1>3. ASSUME NEW r, Leads(S, n, r, 1) PROVE Leads(T, n, r, 0)
  <2>1. Leads(T, n, r, 1)
    BY <1>1, <1>3
  <2> SUFFICES ASSUME NEW j \in 0 .. n, Strays(T[j], r)
               PROVE  \E k \in 0 .. j - 1 : Starts(T[k], T[j].rq)
    BY DEF Leads
  <2>2. j # 0
    BY DEF Strays
  <2>3. j \in 1 .. n
    BY <2>2
  <2>4. PICK k \in 1 .. j - 1 : Starts(T[k], T[j].rq)
    BY <2>1, <2>3 DEF Leads
  <2> QED BY <2>4
<1> QED BY <1>2, <1>3

\* The engine turns to another prompt, at its first item.
LEMMA NextPrompt ==
  ASSUME NEW S, NEW T, NEW n \in Nat, \A k \in 0 .. n - 1 : T[k] = S[k],
         T[n].at = 0, T[n].li = 0
  PROVE  /\ Ordered(S, n) => Ordered(T, n)
         /\ \A r : Leads(S, n, r, 0) => Leads(T, n, r, 0)
<1>1. ASSUME NEW r, NEW lo \in 0 .. n, Leads(S, n, r, lo) PROVE Leads(T, n, r, lo)
  <2> SUFFICES ASSUME NEW j \in lo .. n, Strays(T[j], r)
               PROVE  \E k \in lo .. j - 1 : Starts(T[k], T[j].rq)
    BY DEF Leads
  <2>1. j # n
    BY DEF Strays
  <2>2. T[j] = S[j]
    BY <2>1
  <2>3. PICK k \in lo .. j - 1 : Starts(S[k], S[j].rq)
    BY <1>1, <2>2 DEF Leads
  <2>4. T[k] = S[k]
    BY <2>3
  <2> QED BY <2>2, <2>3, <2>4
<1>2. ASSUME Ordered(S, n) PROVE Ordered(T, n)
  <2> SUFFICES ASSUME NEW i \in 0 .. n, IsItem(T[i]) PROVE Leads(T, n, T[i].rq, i + 1)
    BY DEF Ordered
  <2>1. CASE i = n
    <3>1. i + 1 .. n = {}
      BY <2>1
    <3> QED BY <3>1 DEF Leads
  <2>2. CASE i # n
    <3>1. i \in 0 .. n - 1 /\ T[i] = S[i] /\ i + 1 \in 0 .. n
      BY <2>2
    <3>2. Leads(S, n, S[i].rq, i + 1)
      BY <1>2, <3>1 DEF Ordered
    <3> QED BY <1>1, <3>1, <3>2
  <2> QED BY <2>1, <2>2
<1> QED BY <1>1, <1>2
-----------------------------------------------------------------------------
(* The invariant *)

\* what the hook has still to see: hand, queue, and the engine's next item
Stream ==
  [k \in 0 .. Len(q) + 1 |->
     IF k = 0 THEN hand
     ELSE IF k <= Len(q) THEN q[k]
     ELSE [kind |-> "item", rq |-> served + 1, at |-> at, li |-> lay, ev |-> rec + 1]]

\* a capture that starts at position 0 holds rows of its owner only
PureCapture(c) ==
  c.part = 0 => \A li \in Layers : \A i \in 1 .. Len(c.fed[li]) : c.fed[li][i].rq = c.own

\* the engine is at the start of a chunk when a prompt ends, and of a prompt when idle
EngineOrder ==
  /\ \A r \in 1 .. nreq : len[r] >= 1
  /\ served = nreq => at = 0 /\ lay = 0
  /\ served < nreq => at <= len[served + 1] /\ (at = len[served + 1] => lay = 0)

\* the open capture, when it starts at position 0, meets a first item before
\* any item of another prompt, and will recognise it
OpenOrder ==
  req # 0 /\ caps[req].part = 0
    => caps[req].calls > 0 /\ Leads(Stream, Len(q) + 1, caps[req].own, 0)

PurityInv ==
  /\ EngineOrder
  /\ Ordered(Stream, Len(q) + 1)
  /\ OpenOrder
  /\ \A s \in DOMAIN caps : PureCapture(caps[s])

-----------------------------------------------------------------------------
(* Captures *)

\* Publishing, losing and pruning change neither the rows nor their owner.
LEMMA FinishedPure ==
  ASSUME HookAssumption, BridgeAssumption, NEW c \in BoundedCapture, NEW why \in Reasons, PureCapture(c)
  PROVE  PureCapture(Finished(c, why))
<1>1. /\ Finished(c, why).part = c.part /\ Finished(c, why).fed = c.fed
      /\ Finished(c, why).own = c.own
  BY DEF Finished, BoundedCapture
<1> QED BY <1>1 DEF PureCapture

\* Pruning leaves every capture pure.
LEMMA PrunePure ==
  ASSUME NEW cs \in Seq(BoundedCapture), \A s \in DOMAIN cs : PureCapture(cs[s])
  PROVE  \A s \in DOMAIN cs : /\ PureCapture(Prune(cs)[s])
                              /\ Prune(cs)[s].part = cs[s].part /\ Prune(cs)[s].fed = cs[s].fed
                              /\ Prune(cs)[s].main = cs[s].main /\ Prune(cs)[s].idx = cs[s].idx
                              /\ Prune(cs)[s].calls = cs[s].calls /\ Prune(cs)[s].own = cs[s].own
<1> SUFFICES ASSUME NEW s \in DOMAIN cs
             PROVE  /\ PureCapture(Prune(cs)[s])
                    /\ Prune(cs)[s].part = cs[s].part /\ Prune(cs)[s].fed = cs[s].fed
                    /\ Prune(cs)[s].main = cs[s].main /\ Prune(cs)[s].idx = cs[s].idx
                    /\ Prune(cs)[s].calls = cs[s].calls /\ Prune(cs)[s].own = cs[s].own
  OBVIOUS
<1>1. Prune(cs)[s] = cs[s] \/ Prune(cs)[s] = [cs[s] EXCEPT !.state = "gone"]
  BY DEF Prune
<1>2. cs[s] \in BoundedCapture /\ PureCapture(cs[s])
  OBVIOUS
<1>3. /\ Prune(cs)[s].part = cs[s].part /\ Prune(cs)[s].fed = cs[s].fed
      /\ Prune(cs)[s].main = cs[s].main /\ Prune(cs)[s].idx = cs[s].idx
      /\ Prune(cs)[s].calls = cs[s].calls /\ Prune(cs)[s].own = cs[s].own
  BY <1>1, <1>2 DEF BoundedCapture
<1> QED BY <1>2, <1>3 DEF PureCapture

\* An item of the capture's own prompt keeps it pure, and is counted unless a
\* feed refuses it.
LEMMA FeedPure ==
  ASSUME NEW c \in BoundedCapture, NEW item \in BoundedItem, NEW fault,
         PureCapture(c), c.part = 0 => item.rq = c.own
  PROVE  /\ PureCapture(Feed(c, item, fault))
         /\ Feed(c, item, fault).part = c.part
         /\ Feed(c, item, fault).calls = IF Ingested(c, item, fault) THEN c.calls + 1 ELSE c.calls
<1> DEFINE d == Feed(c, item, fault)
           row == [rq |-> item.rq, at |-> item.at]
<1>1. /\ d.part = c.part /\ d.own = c.own
      /\ d.calls = IF Ingested(c, item, fault) THEN c.calls + 1 ELSE c.calls
      /\ d.fed = [c.fed EXCEPT ![item.li] = Append(@, row)]
  BY DEF Feed, BoundedCapture
<1>2. PureCapture(d)
  <2> SUFFICES ASSUME c.part = 0, NEW li \in Layers, NEW i \in 1 .. Len(d.fed[li])
               PROVE  d.fed[li][i].rq = c.own
    BY <1>1 DEF PureCapture
  <2>1. c.fed \in [Layers -> Seq(BoundedRow)] /\ item.li \in Layers
    BY DEF BoundedCapture, BoundedItem
  <2>2. c.fed[li] \in Seq(BoundedRow)
    BY <2>1
  <2>3. \A k \in 1 .. Len(c.fed[li]) : c.fed[li][k].rq = c.own
    BY DEF PureCapture
  <2>4. CASE li # item.li
    <3>1. d.fed[li] = c.fed[li]
      BY <1>1, <2>1, <2>4
    <3> QED BY <2>3, <3>1
  <2>5. CASE li = item.li
    <3>1. d.fed[li] = Append(c.fed[li], row)
      BY <1>1, <2>1, <2>5
    <3> HIDE DEF d
    <3>2. CASE i <= Len(c.fed[li])
      BY <2>2, <2>3, <3>1, <3>2
    <3>3. CASE i = Len(c.fed[li]) + 1
      <4>1. d.fed[li][i] = row
        BY <2>2, <3>1, <3>3
      <4> QED BY <4>1
    <3>4. i <= Len(c.fed[li]) \/ i = Len(c.fed[li]) + 1
      BY <2>2, <3>1
    <3> QED BY <3>2, <3>3, <3>4
  <2> QED BY <2>4, <2>5
<1> QED BY <1>1, <1>2

\* A request opened at position 0 takes its first item, whatever the layer.
LEMMA FirstItemCounts ==
  ASSUME HookAssumption, NEW c \in BoundedCapture, NEW item \in BoundedItem, item.at = 0,
         c.main[item.li] = 0, c.idx[item.li] = 0
  PROVE  Ingested(c, item, "none")
<1>1. Kind[item.li] \in Kinds
  BY DEF HookAssumption, BoundedItem
<1> QED BY <1>1 DEF Ingested, TakesMain, TakesIdx, Kinds

\* Once the item's request is open, every capture is pure and the item belongs
\* to the request that takes it.
LEMMA ReadyPure ==
  ASSUME HookInv, PurityInv, Resolved
  PROVE  /\ \A i \in 1 .. Len(Ready) : PureCapture(Ready[i])
         /\ Opens => LET new == Ready[Len(Ready)] IN
              /\ new.part = hand.at /\ new.own = hand.rq
              /\ \A li \in Layers : new.main[li] = 0 /\ new.idx[li] = 0
         /\ ~Opens /\ caps[req].part = 0 => hand.rq = caps[req].own
<1> USE HookAssumption, BridgeAssumption
<1>1. hand \in BoundedItem /\ hand.kind = "item"
  BY DEF HookInv, Resolved, BoundedItem, Sentinel, Nothing
<1>2. caps \in Seq(BoundedCapture) /\ req \in 0 .. Len(caps) /\ clock \in Nat /\ q \in Seq(BoundedItem \cup Sentinel)
  BY DEF HookInv
<1>3. \A i \in 1 .. Len(caps) : PureCapture(caps[i])
  BY <1>2 DEF PurityInv
<1>4. CASE ~Opens
  <2>1. Ready = caps /\ req # 0 /\ ~IsNewRequest(caps[req], hand)
    BY <1>4 DEF Ready, Opens, Closes
  <2>2. ASSUME caps[req].part = 0, hand.rq # caps[req].own PROVE FALSE
    <3>1. caps[req].calls > 0 /\ Leads(Stream, Len(q) + 1, caps[req].own, 0)
      BY <2>1, <2>2 DEF PurityInv, OpenOrder
    <3>2. ~(hand.at = 0 /\ hand.li = 0)
      BY <2>1, <3>1 DEF IsNewRequest
    <3>3. 0 \in 0 .. Len(q) + 1 /\ Stream[0] = hand
      BY <1>2 DEF Stream
    <3>4. Strays(Stream[0], caps[req].own)
      BY <1>1, <2>2, <3>2, <3>3 DEF Strays, IsItem
    <3>5. \E k \in 0 .. 0 - 1 : Starts(Stream[k], Stream[0].rq)
      BY <3>1, <3>3, <3>4 DEF Leads
    <3> QED BY <3>5
  <2> QED BY <1>3, <1>4, <2>1, <2>2
<1>5. CASE Opens
  <2> DEFINE closed == IF Closes THEN [caps EXCEPT ![req] = Finished(@, "new-request")] ELSE caps
             new == NewCapture(hand, clock + 1)
             cs == Append(closed, new)
  <2>1. /\ closed \in Seq(BoundedCapture) /\ Len(closed) = Len(caps)
        /\ \A i \in 1 .. Len(caps) : PureCapture(closed[i])
    <3>1. CASE Closes
      <4>1. req \in 1 .. Len(caps) /\ caps[req] \in BoundedCapture /\ "new-request" \in Reasons
        BY <1>2, <3>1 DEF Closes, Reasons
      <4>2. /\ Finished(caps[req], "new-request") \in BoundedCapture
            /\ PureCapture(Finished(caps[req], "new-request"))
        BY <1>3, <4>1, FinishedType, FinishedPure
      <4> DEFINE d == Finished(caps[req], "new-request")
      <4>3. closed = [caps EXCEPT ![req] = d]
        BY <3>1
      <4> HIDE DEF d, closed
      <4> QED BY <1>2, <1>3, <4>1, <4>2, <4>3 DEF d
    <3>2. CASE ~Closes
      BY <1>2, <1>3, <3>2
    <3> QED BY <3>1, <3>2
  <2>2. new \in BoundedCapture
    BY <1>1, <1>2, NewCaptureType
  <2>3. /\ new.part = hand.at /\ new.own = hand.rq
        /\ \A li \in Layers : new.main[li] = 0 /\ new.idx[li] = 0 /\ new.fed[li] = <<>>
    BY DEF NewCapture
  <2>4. PureCapture(new)
    BY <2>3 DEF PureCapture
  <2>5. Ready = Prune(cs)
    BY <1>5 DEF Ready
  <2> HIDE DEF closed, new
  <2>6. /\ cs \in Seq(BoundedCapture) /\ Len(cs) = Len(caps) + 1 /\ cs[Len(cs)] = new
        /\ \A i \in DOMAIN cs : PureCapture(cs[i])
    <3>1. cs \in Seq(BoundedCapture) /\ Len(cs) = Len(caps) + 1 /\ cs[Len(cs)] = new
      BY <1>2, <2>1, <2>2
    <3>2. \A i \in 1 .. Len(caps) : cs[i] = closed[i]
      BY <2>1, <2>2
    <3>3. \A i \in DOMAIN cs : i \in 1 .. Len(caps) \/ i = Len(cs)
      BY <1>2, <3>1
    <3> HIDE DEF cs
    <3> QED BY <2>1, <2>4, <3>1, <3>2, <3>3
  <2> HIDE DEF cs
  <2>7. Len(Ready) = Len(cs) /\ Len(cs) \in DOMAIN cs /\ DOMAIN cs = 1 .. Len(cs)
    BY <1>2, <2>5, <2>6, PruneType
  <2>8. \A i \in DOMAIN cs : /\ PureCapture(Ready[i])
                             /\ Ready[i].part = cs[i].part /\ Ready[i].own = cs[i].own
                             /\ Ready[i].main = cs[i].main /\ Ready[i].idx = cs[i].idx
    BY <2>5, <2>6, PrunePure
  <2> QED BY <1>5, <2>3, <2>6, <2>7, <2>8
<1> QED BY <1>4, <1>5

-----------------------------------------------------------------------------
(* The worker's steps *)

\* The worker empties its hand: what it has still to see loses its head.
LEMMA HandEmptied ==
  ASSUME HookInv, hand' = Nothing, UNCHANGED <<rec, q>>, UNCHANGED engineVars
  PROVE  /\ Ordered(Stream, Len(q) + 1) => Ordered(Stream', Len(q') + 1)
         /\ \A r : Leads(Stream, Len(q) + 1, r, 1) => Leads(Stream', Len(q') + 1, r, 0)
<1>1. Len(q) + 1 \in Nat /\ Len(q') + 1 = Len(q) + 1
  BY DEF HookInv
<1>2. \A k \in 1 .. Len(q) + 1 : Stream'[k] = Stream[k]
  BY DEF Stream, engineVars, HookInv
<1>3. ~IsItem(Stream'[0])
  BY <1>1 DEF Stream, IsItem, Nothing
<1> DEFINE S == Stream
           T == Stream'
           n == Len(q) + 1
<1>4. \A k \in 1 .. n : T[k] = S[k]
  BY <1>2
<1>5. n \in Nat /\ ~IsItem(T[0]) /\ Len(q') + 1 = n
  BY <1>1, <1>3
<1> HIDE DEF S, T, n
<1>6. (Ordered(S, n) => Ordered(T, n)) /\ \A r : Leads(S, n, r, 1) => Leads(T, n, r, 0)
  BY <1>4, <1>5, EmptyHand
<1> QED BY <1>5, <1>6 DEF S, T, n

\* An ingest feeds an item to its own prompt, or opens a capture for it.
LEMMA IngestKeepsPurity ==
  ASSUME faults' = 0, TypeInv, PurityInv, WorkerIngest, UNCHANGED engineVars
  PROVE  PurityInv'
<1> USE HookAssumption, BridgeAssumption
<1> DEFINE s == IF Opens THEN Len(Ready) ELSE req
<1>1. HookInv /\ Resolved /\ faults \in Nat
  BY DEF TypeInv, HookInv, WorkerIngest, HookAssumption
<1>2. /\ hand \in BoundedItem /\ hand.kind = "item" /\ Ready \in Seq(BoundedCapture)
      /\ Opens => Len(Ready) = Len(caps) + 1
      /\ ~Opens => Ready = caps /\ req \in 1 .. Len(caps)
      /\ Len(caps) \in Nat
  BY <1>1, ReadyType DEF Extends, BoundedItem, HookInv
<1>3. /\ \A i \in 1 .. Len(Ready) : PureCapture(Ready[i])
      /\ Opens => LET new == Ready[Len(Ready)] IN
           /\ new.part = hand.at /\ new.own = hand.rq
           /\ \A li \in Layers : new.main[li] = 0 /\ new.idx[li] = 0
      /\ ~Opens /\ caps[req].part = 0 => hand.rq = caps[req].own
  BY <1>1, ReadyPure
<1>4. PICK fault \in {"none", "main", "idx"}, guard \in {"pass", "seal", "fail"} :
        LET c == Feed(Ready[s], hand, fault)
            raised == fault # "none" \/ guard = "fail"
        IN  /\ faults' = IF raised THEN faults + 1 ELSE faults
            /\ caps' = [Ready EXCEPT ![s] = CASE guard = "pass" -> c
                                              [] guard = "seal" -> Finished(c, "mem-floor-seal")
                                              [] guard = "fail" -> Lost(c)]
            /\ req' = IF guard = "pass" THEN s ELSE 0
  BY DEF WorkerIngest
<1>5. fault = "none" /\ guard \in {"pass", "seal"}
  BY <1>1, <1>4
<1> DEFINE old == Ready[s]
           fed == Feed(old, hand, "none")
           c == IF guard = "pass" THEN fed ELSE Finished(fed, "mem-floor-seal")
<1>6. s \in 1 .. Len(Ready) /\ old \in BoundedCapture /\ PureCapture(old)
  <2> HIDE DEF Ready, Opens
  <2>1. s \in 1 .. Len(Ready)
    BY <1>2
  <2> QED BY <1>2, <1>3, <2>1
<1>7. old.part = 0 => hand.rq = old.own
  <2> HIDE DEF Ready, Opens
  <2> QED BY <1>2, <1>3
<1>8. caps' = [Ready EXCEPT ![s] = c] /\ req' = IF guard = "pass" THEN s ELSE 0
  BY <1>4, <1>5
<1>9. Opens /\ old.part = 0 => Ingested(old, hand, "none")
  <2> SUFFICES ASSUME Opens, old.part = 0 PROVE Ingested(old, hand, "none")
    OBVIOUS
  <2>1. hand.at = 0 /\ hand.li \in Layers
    BY <1>2, <1>3 DEF BoundedItem
  <2>2. old.main[hand.li] = 0 /\ old.idx[hand.li] = 0
    BY <1>3, <2>1
  <2> HIDE DEF old
  <2> QED BY <1>2, <1>6, <2>1, <2>2, FirstItemCounts
<1> HIDE DEF old, s
<1>10. /\ fed \in BoundedCapture /\ PureCapture(fed) /\ fed.own = old.own /\ fed.part = old.part
       /\ fed.calls = IF Ingested(old, hand, "none") THEN old.calls + 1 ELSE old.calls
  BY <1>2, <1>6, <1>7, FeedType, FeedPure
<1> HIDE DEF fed
<1>11. PureCapture(c)
  <2>1. "mem-floor-seal" \in Reasons
    BY DEF Reasons
  <2> QED BY <1>10, <2>1, FinishedPure
<1>12. \A i \in DOMAIN caps' : PureCapture(caps'[i])
  <2> DEFINE R == Ready
  <2>1. R \in Seq(BoundedCapture) /\ s \in 1 .. Len(R) /\ caps' = [R EXCEPT ![s] = c]
    BY <1>2, <1>6, <1>8
  <2>2. \A i \in 1 .. Len(R) : PureCapture(R[i])
    BY <1>3
  <2> HIDE DEF c, R
  <2>3. DOMAIN caps' = 1 .. Len(R) /\ \A i \in 1 .. Len(R) : caps'[i] = IF i = s THEN c ELSE R[i]
    BY <2>1
  <2> QED BY <1>11, <2>2, <2>3
<1>13. hand' = Nothing /\ UNCHANGED <<rec, q>>
  BY DEF WorkerIngest
<1>14. Ordered(Stream', Len(q') + 1)
  BY <1>1, <1>13, HandEmptied DEF PurityInv
<1>15. EngineOrder'
  BY DEF PurityInv, EngineOrder, engineVars
<1>16. OpenOrder'
  <2> SUFFICES ASSUME req' # 0, caps'[req'].part = 0
               PROVE  caps'[req'].calls > 0 /\ Leads(Stream', Len(q') + 1, caps'[req'].own, 0)
    BY DEF OpenOrder
  <2>1. guard = "pass" /\ req' = s /\ caps'[req'] = fed
    <3>1. guard = "pass" /\ req' = s
      BY <1>8
    <3> HIDE DEF Ready
    <3> QED BY <1>6, <1>8, <3>1, <1>2
  <2>2. old.part = 0 /\ old.calls \in Nat
    BY <1>6, <1>10, <2>1 DEF BoundedCapture
  <2>3. Leads(Stream, Len(q) + 1, old.own, 1)
    <3>1. q \in Seq(BoundedItem \cup Sentinel) /\ Stream[0] = hand /\ Len(q) + 1 \in Nat /\ 0 \in 0 .. Len(q) + 1
      BY <1>1 DEF HookInv, Stream
    <3>2. Ordered(Stream, Len(q) + 1) /\ IsItem(Stream[0])
      BY <1>2, <3>1 DEF PurityInv, IsItem
    <3>3. Leads(Stream, Len(q) + 1, Stream[0].rq, 0 + 1)
      BY <3>1, <3>2 DEF Ordered
    <3> QED BY <1>7, <2>2, <3>1, <3>3
  <2>4. Leads(Stream', Len(q') + 1, old.own, 0)
    BY <1>1, <1>13, <2>3, HandEmptied
  <2>5. fed.calls > 0
    <3>1. CASE Opens
      BY <1>9, <1>10, <2>2, <3>1
    <3>2. CASE ~Opens
      <4>1. old = caps[req] /\ req # 0
        BY <1>2, <3>2 DEF old, s
      <4>2. old.calls > 0
        BY <2>2, <4>1 DEF PurityInv, OpenOrder
      <4> QED BY <1>10, <2>2, <4>2
    <3> QED BY <3>1, <3>2
  <2> QED BY <1>10, <2>1, <2>4, <2>5
<1> QED BY <1>12, <1>14, <1>15, <1>16 DEF PurityInv

\* Taking the head of the queue in hand changes no order.
LEMMA GetKeepsPurity ==
  ASSUME TypeInv, PurityInv, WorkerGet, UNCHANGED engineVars
  PROVE  PurityInv'
<1> DEFINE S == Stream
           T == Stream'
           n == Len(q)
<1>1. /\ q \in Seq(BoundedItem \cup Sentinel) /\ q # <<>> /\ hand = Nothing
      /\ hand' = Head(q) /\ q' = Tail(q) /\ UNCHANGED <<rec, caps, req>>
  BY DEF TypeInv, HookInv, WorkerGet
<1>2. n \in Nat /\ n >= 1 /\ Len(q') = n - 1 /\ \A k \in 1 .. n - 1 : q'[k] = q[k + 1]
  BY <1>1
<1>3. \A k \in 0 .. n : T[k] = S[k + 1]
  <2> SUFFICES ASSUME NEW k \in 0 .. n PROVE T[k] = S[k + 1]
    OBVIOUS
  <2>1. CASE k = 0
    BY <1>1, <1>2, <2>1 DEF Stream
  <2>2. CASE k \in 1 .. n - 1
    BY <1>1, <1>2, <2>2 DEF Stream
  <2>3. CASE k = n
    BY <1>1, <1>2, <2>3 DEF Stream, engineVars
  <2> QED BY <1>2, <2>1, <2>2, <2>3
<1>4. ~IsItem(S[0])
  BY <1>1, <1>2 DEF Stream, IsItem, Nothing
<1>5. Len(q) + 1 = n + 1 /\ Len(q') + 1 = n
  BY <1>2
<1> HIDE DEF S, T, n
<1>6. /\ Ordered(S, n + 1) => Ordered(T, n)
      /\ \A r : Leads(S, n + 1, r, 0) => Leads(T, n, r, 0)
  BY <1>2, <1>3, <1>4, ShiftStream
<1>7. /\ Ordered(Stream, Len(q) + 1) => Ordered(Stream', Len(q') + 1)
      /\ \A r : Leads(Stream, Len(q) + 1, r, 0) => Leads(Stream', Len(q') + 1, r, 0)
  BY <1>5, <1>6 DEF S, T
<1>8. UNCHANGED <<caps, req>> /\ EngineOrder'
  BY <1>1 DEF PurityInv, EngineOrder, engineVars
<1> QED BY <1>7, <1>8 DEF PurityInv, OpenOrder

\* A flush closes the open capture.
LEMMA FlushKeepsPurity ==
  ASSUME faults' = 0, TypeInv, PurityInv, WorkerFlush, UNCHANGED engineVars
  PROVE  PurityInv'
<1> USE HookAssumption, BridgeAssumption
<1>1. /\ HookInv /\ faults \in Nat /\ caps \in Seq(BoundedCapture) /\ req \in 0 .. Len(caps)
      /\ hand' = Nothing /\ req' = 0 /\ UNCHANGED <<rec, q>>
  BY DEF TypeInv, HookInv, WorkerFlush, HookAssumption
<1>2. caps' = IF req = 0 THEN caps ELSE [caps EXCEPT ![req] = Finished(@, hand.reason)]
  BY <1>1 DEF WorkerFlush
<1>3. \A i \in DOMAIN caps' : PureCapture(caps'[i])
  <2>1. CASE req = 0
    BY <1>2, <2>1 DEF PurityInv
  <2>2. CASE req # 0
    <3>1. hand \in Sentinel
      BY DEF WorkerFlush, TypeInv, HookInv, BoundedItem, Nothing
    <3>2. hand.reason \in Reasons
      BY <3>1 DEF Sentinel, Reasons
    <3>3. req \in DOMAIN caps /\ caps[req] \in BoundedCapture /\ PureCapture(caps[req])
      BY <1>1, <2>2 DEF PurityInv
    <3> DEFINE d == Finished(caps[req], hand.reason)
    <3>4. PureCapture(d)
      BY <3>2, <3>3, FinishedPure
    <3>5. caps' = [caps EXCEPT ![req] = d]
      BY <1>2, <2>2
    <3> HIDE DEF d
    <3> QED BY <1>1, <3>3, <3>4, <3>5 DEF PurityInv
  <2> QED BY <2>1, <2>2
<1>4. Ordered(Stream', Len(q') + 1)
  BY <1>1, HandEmptied DEF PurityInv
<1>5. EngineOrder' /\ OpenOrder'
  BY <1>1 DEF PurityInv, EngineOrder, OpenOrder, engineVars
<1> QED BY <1>3, <1>4, <1>5 DEF PurityInv

\* The worker, as long as it meets no exception.
LEMMA WorkerKeepsPurity ==
  ASSUME faults' = 0, TypeInv, PurityInv, Worker \/ WorkerFault, UNCHANGED engineVars
  PROVE  PurityInv'
<1>1. ~WorkerFault
  <2>1. faults' # faults + 1
    BY HookAssumption DEF TypeInv, HookInv, HookAssumption
  <2> QED BY <2>1 DEF WorkerFault, WorkerDrop, WorkerCloseFails, WorkerDiskFloor
<1> QED BY <1>1, GetKeepsPurity, IngestKeepsPurity, FlushKeepsPurity DEF Worker

-----------------------------------------------------------------------------
(* The other steps *)

\* A step that leaves captures and stream alone.
LEMMA StreamUnchanged ==
  ASSUME PurityInv, EngineOrder', UNCHANGED <<rec, q, hand, caps, req, served, at, lay>>
  PROVE  PurityInv'
<1>1. Stream' = Stream /\ Len(q') = Len(q)
  BY DEF Stream
<1> QED BY <1>1 DEF PurityInv, OpenOrder

\* The GPU, the watcher and the idle timer.
LEMMA OtherHookKeepsPurity ==
  ASSUME TypeInv, PurityInv, GpuStep \/ Watcher \/ IdleElapses, UNCHANGED engineVars
  PROVE  PurityInv'
<1>1. EngineOrder' /\ UNCHANGED <<served, at, lay>>
  BY DEF PurityInv, EngineOrder, engineVars
<1>2. CASE GpuStep \/ WatchStat \/ WatchDecide \/ WatchUnlink \/ IdleElapses
  <2>1. UNCHANGED <<rec, q, hand, caps, req>>
    BY <1>2 DEF GpuStep, WatchStat, WatchDecide, WatchUnlink, IdleElapses
  <2> QED BY <1>1, <2>1, StreamUnchanged
<1>3. CASE WatchPut
  <2> DEFINE S == Stream
             T == Stream'
             n == Len(q) + 1
             mark == [kind |-> "flush", reason |-> fire]
  <2>1. q \in Seq(BoundedItem \cup Sentinel) /\ q' = Append(q, mark) /\ UNCHANGED <<rec, hand, caps, req>>
    BY <1>3 DEF TypeInv, HookInv, WatchPut
  <2>2. /\ n \in Nat /\ n >= 1 /\ Len(q') = n /\ q'[n] = mark
        /\ \A k \in 1 .. n - 1 : q'[k] = q[k]
    BY <2>1
  <2>3. \A k \in 0 .. n - 1 : T[k] = S[k]
    BY <2>1, <2>2 DEF Stream
  <2>4. ~IsItem(T[n])
    <3>1. T[n] = q'[n]
      BY <2>2 DEF Stream
    <3> QED BY <2>2, <3>1 DEF IsItem
  <2>5. T[n + 1] = S[n]
    BY <1>1, <2>1, <2>2 DEF Stream
  <2> HIDE DEF S, T, n, mark
  <2>6. /\ Ordered(S, n) => Ordered(T, n + 1)
        /\ \A r : Leads(S, n, r, 0) => Leads(T, n + 1, r, 0)
    BY <2>2, <2>3, <2>4, <2>5, InsertSentinel
  <2>7. /\ Ordered(Stream, Len(q) + 1) => Ordered(Stream', Len(q') + 1)
        /\ \A r : Leads(Stream, Len(q) + 1, r, 0) => Leads(Stream', Len(q') + 1, r, 0)
    BY <2>2, <2>6 DEF S, T, n
  <2> QED BY <1>1, <2>1, <2>7 DEF PurityInv, OpenOrder
<1> QED BY <1>2, <1>3 DEF Watcher

\* A post comes behind the prompts that have not been served.
LEMMA SubmitKeepsOrder ==
  ASSUME TypeInv, PurityInv, NEW n \in 1 .. MaxChunks, Submit(n)
  PROVE  EngineOrder' /\ UNCHANGED <<rec, q, hand, caps, req, served, at, lay>>
<1> USE BridgeAssumption
<1>1. UNCHANGED <<rec, q, hand, caps, req, served, at, lay>>
  BY DEF Submit, hookVars
<1>2. /\ nreq' = nreq + 1 /\ nreq + 1 \in Requests /\ nreq \in Nat /\ served \in 0 .. nreq
      /\ len \in [Requests -> 0 .. MaxChunks] /\ len' = [len EXCEPT ![nreq + 1] = n]
  BY DEF Submit, TypeInv, EngineInv, BridgeAssumption
<1>3. len'[nreq + 1] = n /\ \A r \in 1 .. nreq : len'[r] = len[r]
  BY <1>2 DEF BridgeAssumption
<1>4. n >= 1
  OBVIOUS
<1>5. \A r \in 1 .. nreq' : len'[r] >= 1
  <2>1. \A r \in 1 .. nreq' : r \in 1 .. nreq \/ r = nreq + 1
    BY <1>2
  <2> QED BY <1>3, <1>4, <2>1 DEF PurityInv, EngineOrder
<1>6. served < nreq' /\ at <= len'[served + 1] /\ (at = len'[served + 1] => lay = 0)
  <2>1. CASE served = nreq
    BY <1>2, <1>3, <1>4, <2>1 DEF PurityInv, EngineOrder
  <2>2. CASE served # nreq
    <3>1. served + 1 \in 1 .. nreq /\ served < nreq
      BY <1>2, <2>2
    <3> QED BY <1>2, <1>3, <3>1 DEF PurityInv, EngineOrder
  <2> QED BY <2>1, <2>2
<1>7. EngineOrder'
  <2>1. served' = served /\ at' = at /\ lay' = lay /\ served # nreq'
    BY <1>1, <1>2
  <2> QED BY <1>5, <1>6, <2>1 DEF EngineOrder
<1> QED BY <1>1, <1>7

\* The engine runs the items of a prompt in order, and prompts one by one.
LEMMA EngineKeepsPurity ==
  ASSUME TypeInv, PurityInv, Engine
  PROVE  PurityInv'
<1> USE HookAssumption, BridgeAssumption
<1> DEFINE S == Stream
           T == Stream'
<1>1. CASE DirectSubmit
  <2>1. PICK n \in 1 .. MaxChunks : Submit(n)
    BY <1>1 DEF DirectSubmit
  <2> QED BY <2>1, SubmitKeepsOrder, StreamUnchanged
<1>2. CASE EngineForward
  <2> DEFINE n == Len(q) + 1
             item == [kind |-> "item", rq |-> served + 1, at |-> at, li |-> lay, ev |-> rec + 1]
  <2>1. /\ q \in Seq(BoundedItem \cup Sentinel) /\ q' = Append(q, item)
        /\ UNCHANGED <<hand, caps, req, served, nreq, len>>
    BY <1>2 DEF TypeInv, HookInv, EngineForward, Record
  <2>2. n \in Nat /\ n >= 1 /\ Len(q') = n /\ q'[n] = item /\ \A k \in 1 .. n - 1 : q'[k] = q[k]
    BY <2>1
  <2>3. S[n] = item
    BY <2>2 DEF Stream
  <2>4. \A k \in 0 .. n : T[k] = S[k]
    <3> SUFFICES ASSUME NEW k \in 0 .. n PROVE T[k] = S[k]
      OBVIOUS
    <3>1. CASE k = n
      <4>1. T[n] = q'[n]
        BY <2>2 DEF Stream
      <4> QED BY <2>2, <2>3, <3>1, <4>1
    <3>2. CASE k # n
      BY <2>1, <2>2, <3>2 DEF Stream
    <3> QED BY <3>1, <3>2
  <2>5. IsItem(S[n]) /\ T[n + 1].rq = S[n].rq
    <3>1. T[n + 1].rq = served' + 1
      BY <2>2 DEF Stream
    <3>2. item.rq = served + 1 /\ IsItem(item)
      BY DEF IsItem
    <3> QED BY <2>1, <2>3, <3>1, <3>2
  <2> HIDE DEF S, T, n, item
  <2>6. Ordered(S, n) => Ordered(T, n + 1)
    BY <2>2, <2>4, <2>5, OrderedAppend
  <2>7. \A r : Leads(S, n, r, 0) => Leads(T, n + 1, r, 0)
    <3>1. 0 \in 0 .. n + 1 /\ 0 <= n
      BY <2>2
    <3> QED BY <2>2, <2>4, <2>5, <3>1, LeadsAppend
  <2>8. /\ Ordered(Stream', Len(q') + 1)
        /\ \A r : Leads(Stream, Len(q) + 1, r, 0) => Leads(Stream', Len(q') + 1, r, 0)
    BY <2>2, <2>6, <2>7 DEF S, T, n, PurityInv
  <2>9. EngineOrder'
    <3>1. /\ served \in 0 .. nreq /\ served # nreq /\ at < len[served + 1] /\ at \in Nat
          /\ \/ at' = at + 1 /\ lay' = 0
             \/ at' = at
      BY <1>2 DEF TypeInv, EngineInv, EngineForward, EngineFree, BridgeAssumption
    <3>2. nreq \in Nat /\ served + 1 \in Requests /\ len[served + 1] \in Nat
      BY <3>1 DEF TypeInv, EngineInv, BridgeAssumption
    <3>3. at' <= len[served + 1] /\ (at' = len[served + 1] => lay' = 0)
      BY <3>1, <3>2
    <3> QED BY <2>1, <3>1, <3>3 DEF PurityInv, EngineOrder
  <2> QED BY <2>1, <2>8, <2>9 DEF PurityInv, OpenOrder
<1>3. CASE EngineReturn
  <2> DEFINE n == Len(q) + 1
  <2>1. /\ q \in Seq(BoundedItem \cup Sentinel) /\ UNCHANGED <<q, hand, caps, req, len, nreq, lay>>
        /\ served' = served + 1 /\ at' = 0 /\ at = len[served + 1] /\ served # nreq
        /\ served \in 0 .. nreq /\ nreq \in Nat
    BY <1>3 DEF TypeInv, HookInv, EngineInv, EngineReturn, EngineFree, hookVars, BridgeAssumption
  <2>2. served < nreq /\ lay = 0 /\ lay' = 0
    BY <2>1 DEF PurityInv, EngineOrder
  <2>3. n \in Nat /\ n >= 1 /\ Len(q') + 1 = n /\ \A k \in 0 .. n - 1 : T[k] = S[k]
    BY <2>1 DEF Stream
  <2>4. T[n].at = 0 /\ T[n].li = 0
    BY <2>1, <2>2, <2>3 DEF Stream
  <2> HIDE DEF S, T, n
  <2>5. (Ordered(S, n) => Ordered(T, n)) /\ \A r : Leads(S, n, r, 0) => Leads(T, n, r, 0)
    BY <2>3, <2>4, NextPrompt
  <2>6. /\ Ordered(Stream', Len(q') + 1)
        /\ \A r : Leads(Stream, Len(q) + 1, r, 0) => Leads(Stream', Len(q') + 1, r, 0)
    BY <2>3, <2>5 DEF S, T, n, PurityInv
  <2>7. EngineOrder'
    <3>1. served' < nreq => served' + 1 \in 1 .. nreq /\ 0 # len[served' + 1] /\ 0 <= len[served' + 1]
      <4> SUFFICES ASSUME served' < nreq
                   PROVE  served' + 1 \in 1 .. nreq /\ 0 # len[served' + 1] /\ 0 <= len[served' + 1]
        OBVIOUS
      <4>1. served' + 1 \in 1 .. nreq
        BY <2>1
      <4>2. len[served' + 1] >= 1 /\ len[served' + 1] \in Nat
        <5>1. served' + 1 \in Requests
          BY <4>1 DEF TypeInv, EngineInv, BridgeAssumption
        <5> QED BY <4>1, <5>1 DEF PurityInv, EngineOrder, TypeInv, EngineInv, BridgeAssumption
      <4> QED BY <4>1, <4>2
    <3> QED BY <2>1, <2>2, <3>1 DEF PurityInv, EngineOrder
  <2> QED BY <2>1, <2>6, <2>7 DEF PurityInv, OpenOrder
<1> QED BY <1>1, <1>2, <1>3 DEF Engine

\* The front may post a prompt; it touches no item.
LEMMA FrontKeepsPurity ==
  ASSUME TypeInv, PurityInv, Front
  PROVE  PurityInv'
<1>1. CASE FrontSubmit
  <2>1. PICK n \in 1 .. MaxChunks : Submit(n)
    BY <1>1 DEF FrontSubmit
  <2> QED BY <2>1, SubmitKeepsOrder, StreamUnchanged
<1>2. CASE ~FrontSubmit
  <2>1. UNCHANGED <<rec, q, hand, caps, req>> /\ UNCHANGED engineVars
    BY <1>2 DEF Front, FrontChoose, FrontSignal, FrontGraceOut, FrontGivesUp, FrontPull, hookVars
  <2>2. EngineOrder' /\ UNCHANGED <<served, at, lay>>
    BY <2>1 DEF PurityInv, EngineOrder, engineVars
  <2> QED BY <2>1, <2>2, StreamUnchanged
<1> QED BY <1>1, <1>2

\* Every step that swallows no exception.
LEMMA PurityStep ==
  ASSUME faults' = 0, TypeInv, PurityInv, [Next]_vars
  PROVE  PurityInv'
<1>1. CASE UNCHANGED vars
  <2>1. EngineOrder' /\ UNCHANGED <<rec, q, hand, caps, req, served, at, lay>>
    BY <1>1 DEF vars, hookVars, engineVars, PurityInv, EngineOrder
  <2> QED BY <2>1, StreamUnchanged
<1>2. ASSUME Worker \/ WorkerFault, UNCHANGED engineVars PROVE PurityInv'
  BY <1>2, WorkerKeepsPurity
<1>3. ASSUME GpuStep \/ Watcher \/ IdleElapses, UNCHANGED engineVars PROVE PurityInv'
  BY <1>3, OtherHookKeepsPurity
<1>4. CASE Engine
  BY <1>4, EngineKeepsPurity
<1>5. CASE Front
  BY <1>5, FrontKeepsPurity
<1> QED BY <1>1, <1>2, <1>3, <1>4, <1>5 DEF Next, Hook, IdleMayElapse

\* At the start nothing is captured and nothing is on its way.
LEMMA PurityInit ==
  ASSUME Init
  PROVE  PurityInv
<1>1. EngineOrder /\ OpenOrder /\ \A s \in DOMAIN caps : PureCapture(caps[s])
  BY DEF Init, HookInit, EngineOrder, OpenOrder
<1>2. Len(q) + 1 = 1 /\ hand = Nothing
  BY DEF Init, HookInit
<1>3. Ordered(Stream, 1)
  <2>1. ~IsItem(Stream[0])
    BY <1>2 DEF Stream, IsItem, Nothing
  <2> SUFFICES ASSUME NEW i \in 0 .. 1, IsItem(Stream[i]) PROVE Leads(Stream, 1, Stream[i].rq, i + 1)
    BY DEF Ordered
  <2>2. i = 1
    BY <2>1
  <2>3. i + 1 .. 1 = {}
    BY <2>2
  <2> QED BY <2>3 DEF Leads
<1> QED BY <1>1, <1>2, <1>3 DEF PurityInv

\* As long as no exception is swallowed, a published capture whose manifest
\* promises a usable prefix holds rows of one prompt only: for any layers,
\* prompts and clients, however late the worker and the watcher are, and
\* wherever the idle backstop or the memory guard cuts.
THEOREM PurityCorrect == ASSUME MaxFaults = 0 PROVE Spec => []UsableIsPure
<1>1. Init => TypeInv /\ PurityInv
  BY TypeInit, PurityInit
<1>2. TypeInv /\ PurityInv /\ [Next]_vars => TypeInv' /\ PurityInv'
  <2> SUFFICES ASSUME TypeInv, PurityInv, [Next]_vars PROVE TypeInv' /\ PurityInv'
    OBVIOUS
  <2>1. TypeInv'
    BY TypeStep
  <2>2. faults' = 0
    BY <2>1 DEF TypeInv, HookInv
  <2> QED BY <2>1, <2>2, PurityStep
<1>3. PurityInv => UsableIsPure
  BY DEF PurityInv, PureCapture, UsableIsPure, UsablePrefix
<1> QED BY <1>1, <1>2, <1>3, PTL DEF Spec

=============================================================================
