---------------------------- MODULE RowBridgeProofs ----------------------------
(***************************************************************************)
(* Proofs about RowBridge: the types (RowTypeOK), what a streamed request  *)
(* ships (NothingIsLost), the blocks the decode box stores (BlocksAreTrue) *)
(* and the capture it keeps as a parent (KeptIsWhole).  The invariants are *)
(* stated of a request and a list of directories, because one call of the  *)
(* hook closes a request, opens another, feeds it, ships its segments and  *)
(* may close it again: each of these steps has a lemma of its own.         *)
(***************************************************************************)
EXTENDS RowBridge, RowLemmas

(* What holds whatever the rows are *)

RunFields == {"ids", "pos", "end", "li", "step"}
IsRun(q) == q = [x \in RunFields |-> q[x]]

\* None stands for no request and for no prompt in the engine: it is neither
NoneIsApart == ~IsReq(None) /\ ~IsRun(None)

DirOK(x, i) ==
  /\ IsDir(x) /\ x.state \in {"open", "done", "gone"}
  /\ \A b \in DOMAIN x.segs : b \in Nat /\ b > 0 /\ b % Block = 0
  /\ x.state = "done" => x.kvstate.stamp = i

\* the open request r and the directories d
PairOK(r, d) ==
  /\ IsSeq(d)
  /\ \A i \in DOMAIN d : DirOK(d[i], i) /\ (d[i].state = "open" => r # None /\ r.id = i)
  /\ r # None => Held(r) /\ r.id \in DOMAIN d /\ d[r.id].state = "open"

RunOK(q) ==
  q # None =>
    /\ IsRun(q) /\ q.ids \in Prompts /\ q.pos \in Nat /\ q.end \in Nat /\ q.pos < q.end /\ q.end <= Len(q.ids)
    /\ q.li \in Layers /\ q.step \in Nat \ {0}

KeptOK(k, d) == k # None => k.stamp \in DOMAIN d /\ k.T = Len(k.of) /\ k.kvstate.stamp = k.stamp

FrontFields == {"phase", "ids", "before", "eng", "stamp", "next", "man"}
FrontOK(f, d) ==
  /\ f = [x \in FrontFields |-> f[x]]
  /\ f.before \in Nat
  /\ f.eng = "queued" => f.ids \in Prompts
  /\ f.phase \in {"pull", "seal"} => f.stamp \in DOMAIN d

\* the inductive invariant of the types
TypesInv ==
  /\ PairOK(req, disk) /\ (req # None => DOMAIN req.layers # {})
  /\ RunOK(run) /\ FrontOK(front, disk) /\ KeptOK(kept, disk)
  /\ \A s \in copies : s.stamp \in DOMAIN disk
  /\ marker \in {"none", "fresh", "old"}
  /\ faults \in 0 .. MaxFaults /\ others \in 0 .. MaxOthers /\ turn \in 0 .. Len(Turns)

LEMMA TypesAreTypes ==
  TypesInv => RowTypeOK
<1> SUFFICES ASSUME TypesInv PROVE RowTypeOK
  OBVIOUS
<1>1. \A i \in DOMAIN disk : disk[i].state \in {"open", "done", "gone"} /\ \A b \in DOMAIN disk[i].segs : b > 0 /\ b % Block = 0
  BY DEF TypesInv, PairOK, DirOK
<1>2. req # None => disk[req.id].state = "open" /\ req.partial >= req.resume
  BY DEF TypesInv, PairOK, Held
<1>3. run # None => run.pos < run.end /\ run.end <= Len(run.ids) /\ run.li \in Layers
  BY DEF TypesInv, RunOK
<1>4. kept # None => kept.stamp \in DOMAIN disk /\ kept.T = Len(kept.of)
  BY DEF TypesInv, KeptOK
<1> QED BY <1>1, <1>2, <1>3, <1>4 DEF TypesInv, RowTypeOK

\* Closing a request.
LEMMA FinishPair ==
  ASSUME NEW r, NEW d, PairOK(r, d), r # None, DOMAIN r.layers # {}
  PROVE  PairOK(None, Finished(r, d)) /\ DOMAIN Finished(r, d) = DOMAIN d
<1> DEFINE f == Finished(r, d)
           p == Published(d[r.id], LastOut(r).req, LastOut(r).segs, Max(Reach(r)), Streams(r))
<1>1. Held(r) /\ IsSeq(d) /\ r.id \in DOMAIN d /\ DirOK(d[r.id], r.id) /\ IsDir(d[r.id])
  BY DEF PairOK, DirOK
<1>2. /\ IsSeq(f) /\ Size(f) = Size(d) /\ DOMAIN f = DOMAIN d
      /\ \A i \in DOMAIN d : i # r.id => f[i] = d[i]
      /\ IsDir(f[r.id]) /\ f[r.id].state \in {"gone", "done"}
      /\ f[r.id].state = "gone" => f[r.id].segs = Empty
      /\ f[r.id].state = "done" => f[r.id] = p
  BY <1>1, FinishedDirs
<1>3. p.segs = Updated(d[r.id].segs, LastOut(r).segs) /\ p.kvstate.stamp = r.id
  <2>1. p.segs = Updated(d[r.id].segs, LastOut(r).segs) /\ p.kvstate = EndState(LastOut(r).req, Max(Reach(r)))
    BY <1>1, PublishedIs
  <2>2. LastOut(r).req.id = r.id
    BY <1>1, LastHeld
  <2> QED BY <2>1, <2>2 DEF EndState
<1>4. \A b \in DOMAIN p.segs : b \in Nat /\ b > 0 /\ b % Block = 0
  <2>1. DOMAIN p.segs = DOMAIN d[r.id].segs \cup DOMAIN LastOut(r).segs
    BY <1>3 DEF Updated
  <2> HIDE DEF p
  <2> QED BY <1>1, <2>1, LastHeld DEF DirOK
<1> HIDE DEF f, p
<1>5. DirOK(f[r.id], r.id) /\ f[r.id].state # "open"
  <2>1. \A b \in DOMAIN f[r.id].segs : b \in Nat /\ b > 0 /\ b % Block = 0
    BY <1>2, <1>4 DEF Empty
  <2> QED BY <1>2, <1>3, <2>1 DEF DirOK
<1>6. \A i \in DOMAIN f : DirOK(f[i], i) /\ f[i].state # "open"
  BY <1>2, <1>5 DEF PairOK
<1> QED BY <1>2, <1>6 DEF PairOK, f

\* Opening one.
LEMMA EnterPair ==
  ASSUME NoneIsApart, NEW d, PairOK(None, d), NEW of, NEW start \in Nat
  PROVE  LET at == EntersIn(d, of, start)
         IN  PairOK(at.req, at.disk) /\ at.req # None /\ DOMAIN d \subseteq DOMAIN at.disk
<1>0. PICK n : n = Size(d) + 1
  OBVIOUS
<1> DEFINE r == NewReq(n, of, start, d, copies)
           at == Enters(r, d)
<1>1. EntersIn(d, of, start) = at
  BY <1>0 DEF EntersIn, Size
<1>2. Held(r) /\ r.id = Size(d) + 1
  BY <1>0, NewReqIs
<1>3. IsSeq(d) /\ \A i \in DOMAIN d : IsDir(d[i])
  BY DEF PairOK, DirOK
<1> HIDE DEF r
<1>4. /\ at.req = r /\ IsSeq(at.disk) /\ DOMAIN at.disk = DOMAIN d \cup {r.id} /\ r.id \notin DOMAIN d
      /\ \A i \in DOMAIN d : at.disk[i] = d[i] \/ IsGone(at.disk[i], d[i])
      /\ at.disk[r.id] = NewDir(r)
  BY <1>2, <1>3, EntersDirs
<1>5. DirOK(NewDir(r), r.id) /\ NewDir(r).state = "open"
  BY DEF DirOK, NewDir, IsDir, DirFields, Empty
<1>6. \A i \in DOMAIN d : DirOK(d[i], i) /\ d[i].state # "open"
  BY DEF PairOK
<1>7. \A i \in DOMAIN d : IsGone(at.disk[i], d[i]) => DirOK(at.disk[i], i) /\ at.disk[i].state # "open"
  BY DEF IsGone, DirOK, Empty
<1>8. r # None
  BY <1>2 DEF Held, NoneIsApart
<1> HIDE DEF at
<1>9. \A i \in DOMAIN at.disk : DirOK(at.disk[i], i) /\ (at.disk[i].state = "open" => r.id = i)
  BY <1>4, <1>5, <1>6, <1>7
<1> QED BY <1>1, <1>2, <1>4, <1>5, <1>8, <1>9 DEF PairOK

\* Going on with the request that is open, or with a new one.
Put(d, i, x) == [d EXCEPT ![i] = x]

LEMMA PutIs ==
  ASSUME NEW d, IsSeq(d), NEW i \in DOMAIN d, NEW x
  PROVE  LET e == Put(d, i, x)
         IN  IsSeq(e) /\ Size(e) = Size(d) /\ DOMAIN e = DOMAIN d /\ e[i] = x /\ \A j \in DOMAIN d : j # i => e[j] = d[j]
<1> DEFINE e == Put(d, i, x)
<1>1. Size(d) \in Nat /\ DOMAIN d = 1 .. Size(d)
  BY SizeIs
<1>2. DOMAIN e = DOMAIN d /\ e[i] = x /\ \A j \in DOMAIN d : j # i => e[j] = d[j]
  BY DEF Put
<1>3. e = [j \in 1 .. Size(d) |-> e[j]]
  BY <1>1 DEF Put
<1> HIDE DEF e
<1>4. IsSeq(e) /\ Size(e) = Size(d)
  BY <1>1, <1>3, TableIs
<1> QED BY <1>2, <1>4 DEF e

\* The request and its directory go on under a prompt of which more rows are known.
LEMMA RenamedIs ==
  ASSUME NEW r, IsReq(r), NEW of
  PROVE  LET q == [r EXCEPT !.of = of]
         IN  /\ IsReq(q) /\ q.of = of /\ q.id = r.id /\ q.stream = r.stream /\ q.partial = r.partial /\ q.layers = r.layers
             /\ q.calls = r.calls /\ q.resume = r.resume /\ q.parent = r.parent /\ q.seeds = r.seeds
             /\ q.emitted = r.emitted /\ q.error = r.error
<1>1. DOMAIN r = ReqFields
  BY DEF IsReq
<1> QED BY <1>1 DEF IsReq, ReqFields

LEMMA DirRenamedIs ==
  ASSUME NEW x, IsDir(x), NEW of
  PROVE  LET y == [x EXCEPT !.of = of]
         IN  /\ IsDir(y) /\ y.of = of /\ y.state = x.state /\ y.asked = x.asked /\ y.segs = x.segs /\ y.files = x.files
             /\ y.man = x.man /\ y.kvstate = x.kvstate
<1>1. DOMAIN x = DirFields
  BY DEF IsDir
<1> QED BY <1>1 DEF IsDir, DirFields

\* the rows of the open request once it goes on, and what it and its directory become
NowOf(of, start) == Onto(req.of, of, start)
GoesOn(of, start) == [req |-> [req EXCEPT !.of = NowOf(of, start)],
                      disk |-> Put(disk, req.id, [disk[req.id] EXCEPT !.of = Onto(disk[req.id].of, of, start)])]

LEMMA OpenIs ==
  ASSUME NEW li, NEW of, NEW start
  PROVE  /\ req = None => WithOpen(li, of, start) = EntersIn(disk, of, start)
         /\ req # None /\ Closes(li, start) => WithOpen(li, of, start) = EntersIn(Finished(req, disk), of, start)
         /\ ~Opens(li, start) => WithOpen(li, of, start) = GoesOn(of, start)
<1>1. CASE req = None
  BY <1>1 DEF WithOpen, Opens, Closes
<1>2. CASE req # None /\ Closes(li, start)
  BY <1>2 DEF WithOpen, Opens
<1>3. CASE req # None /\ ~Closes(li, start)
  <2>1. WithOpen(li, of, start) = [req |-> [req EXCEPT !.of = Onto(@, of, start)],
                                   disk |-> [disk EXCEPT ![req.id].of = Onto(@, of, start)]]
    BY <1>3 DEF WithOpen, Opens
  <2>2. [disk EXCEPT ![req.id].of = Onto(@, of, start)]
          = [disk EXCEPT ![req.id] = [disk[req.id] EXCEPT !.of = Onto(disk[req.id].of, of, start)]]
    OBVIOUS
  <2> QED BY <1>3, <2>1, <2>2 DEF GoesOn, NowOf, Opens, Put
<1> QED BY <1>1, <1>2, <1>3

LEMMA OpenPair ==
  ASSUME NoneIsApart, PairOK(req, disk), req # None => DOMAIN req.layers # {}, NEW li, NEW of, NEW start \in Nat
  PROVE  LET at == WithOpen(li, of, start)
         IN  PairOK(at.req, at.disk) /\ at.req # None /\ DOMAIN disk \subseteq DOMAIN at.disk
<1> DEFINE at == WithOpen(li, of, start)
<1>1. CASE req = None
  <2>1. at = EntersIn(disk, of, start)
    BY <1>1, OpenIs
  <2> QED BY <1>1, <2>1, EnterPair
<1>2. CASE req # None /\ Closes(li, start)
  <2>1. at = EntersIn(Finished(req, disk), of, start)
    BY <1>2, OpenIs
  <2>2. PairOK(None, Finished(req, disk)) /\ DOMAIN Finished(req, disk) = DOMAIN disk
    BY <1>2, FinishPair
  <2>3. PICK d : d = Finished(req, disk)
    OBVIOUS
  <2> QED BY <2>1, <2>2, <2>3, EnterPair
<1>3. CASE ~Opens(li, start)
  <2> DEFINE q == [req EXCEPT !.of = NowOf(of, start)]
             y == [disk[req.id] EXCEPT !.of = Onto(disk[req.id].of, of, start)]
             e == Put(disk, req.id, y)
  <2>0. req # None
    BY <1>3 DEF Opens
  <2>1. at = [req |-> q, disk |-> e]
    BY <1>3, OpenIs DEF GoesOn
  <2>2. Held(req) /\ IsReq(req) /\ req.id \in DOMAIN disk /\ IsSeq(disk) /\ DirOK(disk[req.id], req.id) /\ disk[req.id].state = "open"
    BY <2>0 DEF PairOK, Held
  <2>3. /\ IsReq(q) /\ q.id = req.id /\ q.stream = req.stream /\ q.partial = req.partial /\ q.layers = req.layers
        /\ q.calls = req.calls /\ q.resume = req.resume /\ q.emitted = req.emitted /\ q.error = req.error
    BY <2>2, RenamedIs
  <2>4. /\ IsDir(y) /\ y.state = disk[req.id].state /\ y.segs = disk[req.id].segs /\ y.kvstate = disk[req.id].kvstate
    BY <2>2, DirRenamedIs DEF DirOK
  <2> HIDE DEF q, y
  <2>5. IsSeq(e) /\ DOMAIN e = DOMAIN disk /\ e[req.id] = y /\ \A j \in DOMAIN disk : j # req.id => e[j] = disk[j]
    BY <2>2, PutIs
  <2> HIDE DEF e
  <2>6. Held(q)
    BY <2>2, <2>3 DEF Held
  <2>7. DirOK(y, req.id) /\ y.state = "open"
    BY <2>2, <2>4 DEF DirOK
  <2>8. \A i \in DOMAIN e : DirOK(e[i], i) /\ (e[i].state = "open" => q.id = i)
    BY <2>0, <2>3, <2>5, <2>7 DEF PairOK
  <2>9. q # None
    BY <2>3 DEF NoneIsApart
  <2>10. PairOK(q, e)
    BY <2>2, <2>3, <2>5, <2>6, <2>7, <2>8, <2>9 DEF PairOK
  <2> QED BY <2>1, <2>5, <2>9, <2>10
<1> QED BY <1>1, <1>2, <1>3 DEF Opens

\* Feeding it.
LEMMA FedPair ==
  ASSUME NEW r, NEW d, PairOK(r, d), NoneIsApart, r # None, NEW li \in Layers, NEW x, IsSeq(x), NEW start \in Nat
  PROVE  LET f == Fed(r, li, x, start)
         IN  PairOK(f, d) /\ f # None /\ DOMAIN f.layers # {}
<1> DEFINE f == Fed(r, li, x, start)
<1>1. Held(r) /\ IsReq(r)
  BY DEF PairOK, Held
<1>2. Held(f) /\ DOMAIN f.layers # {}
  BY <1>1, FedHeld
<1>3. f.id = r.id
  BY <1>1, FedFields
<1> HIDE DEF f
<1>4. f # None
  BY <1>2 DEF Held, NoneIsApart
<1> QED BY <1>2, <1>3, <1>4 DEF PairOK, f

\* a directory with more segments, and the list with it
MoreSegs(x, segs) == [x EXCEPT !.segs = Updated(@, segs)]
WithSegs(d, i, segs) == [d EXCEPT ![i] = MoreSegs(d[i], segs)]

LEMMA MoreSegsIs ==
  ASSUME NEW x, IsDir(x), NEW segs
  PROVE  LET y == MoreSegs(x, segs)
         IN  /\ IsDir(y) /\ y.segs = Updated(x.segs, segs) /\ y.of = x.of /\ y.state = x.state /\ y.asked = x.asked
             /\ y.files = x.files /\ y.man = x.man /\ y.kvstate = x.kvstate
<1>1. DOMAIN x = DirFields
  BY DEF IsDir
<1> QED BY <1>1 DEF IsDir, DirFields, MoreSegs

LEMMA ShipsIs ==
  ASSUME NEW out, NEW d, NEW counted, NEW low
  PROVE  Ships(out, d, counted, low) <=> Leaves(out.req, WithSegs(d, out.req.id, out.segs), counted /\ Seals(out.req, low))
<1>1. [d EXCEPT ![out.req.id].segs = Updated(@, out.segs)] = WithSegs(d, out.req.id, out.segs)
  BY DEF WithSegs, MoreSegs
<1> QED BY <1>1 DEF Ships

\* Shipping its segments.
LEMMA StreamedIs ==
  ASSUME NEW r, NEW counted, NEW w
  PROVE  LET out == Streamed(r, counted, w)
         IN  \/ counted /\ StreamsNow(r) /\ out = Emitted(r, Min(Reach(r)), w)
             \/ ~(counted /\ StreamsNow(r)) /\ out = [req |-> r, segs |-> Empty]
BY DEF Streamed

LEMMA ShipPair ==
  ASSUME NoneIsApart, NEW r, NEW d, PairOK(r, d), r # None, DOMAIN r.layers # {}, NEW counted, NEW w
  PROVE  LET out == Streamed(r, counted, w)
             e == WithSegs(d, out.req.id, out.segs)
         IN  PairOK(out.req, e) /\ out.req # None /\ DOMAIN out.req.layers # {} /\ DOMAIN e = DOMAIN d
<1> DEFINE out == Streamed(r, counted, w)
           e == WithSegs(d, out.req.id, out.segs)
<1>1. Held(r) /\ IsSeq(d) /\ r.id \in DOMAIN d /\ DirOK(d[r.id], r.id) /\ d[r.id].state = "open"
  BY DEF PairOK
<1>2. /\ Held(out.req) /\ out.req.id = r.id /\ DOMAIN out.req.layers # {}
      /\ \A b \in DOMAIN out.segs : b \in Nat /\ b > 0 /\ b % Block = 0
  <2>1. CASE out = Emitted(r, Min(Reach(r)), w)
    <3>1. PICK E \in Nat : E = Min(Reach(r))
      BY <1>1, ReachIs
    <3>2. DOMAIN Emitted(r, E, w).segs \subseteq Boundaries(r.emitted, E) /\ Emitted(r, E, w).req.id = r.id
          /\ DOMAIN Emitted(r, E, w).req.layers = DOMAIN r.layers
      BY <1>1, EmittedFields
    <3>3. Held(Emitted(r, E, w).req)
      BY <1>1, EmittedHeld
    <3>4. r.emitted \in Nat
      BY <1>1 DEF Held
    <3> HIDE DEF out
    <3> QED BY <2>1, <3>1, <3>2, <3>3, <3>4, BoundaryIs
  <2>2. CASE out = [req |-> r, segs |-> Empty]
    BY <1>1, <2>2 DEF Empty
  <2> QED BY <2>1, <2>2, StreamedIs
<1> HIDE DEF out
<1>3. DirOK(MoreSegs(d[r.id], out.segs), r.id) /\ MoreSegs(d[r.id], out.segs).state = "open"
  <2>1. IsDir(d[r.id])
    BY <1>1 DEF DirOK
  <2>2. DOMAIN Updated(d[r.id].segs, out.segs) = DOMAIN d[r.id].segs \cup DOMAIN out.segs
    BY DEF Updated
  <2>3. \A b \in DOMAIN d[r.id].segs : b \in Nat /\ b > 0 /\ b % Block = 0
    BY <1>1 DEF DirOK
  <2>4. /\ IsDir(MoreSegs(d[r.id], out.segs)) /\ MoreSegs(d[r.id], out.segs).segs = Updated(d[r.id].segs, out.segs)
        /\ MoreSegs(d[r.id], out.segs).state = "open"
    BY <1>1, <2>1, MoreSegsIs
  <2> QED BY <1>2, <2>2, <2>3, <2>4 DEF DirOK
<1>4. IsSeq(e) /\ DOMAIN e = DOMAIN d /\ e[r.id] = MoreSegs(d[r.id], out.segs) /\ \A j \in DOMAIN d : j # r.id => e[j] = d[j]
  <2>1. e = Put(d, r.id, MoreSegs(d[r.id], out.segs))
    BY <1>2 DEF WithSegs, Put
  <2> HIDE DEF e
  <2> QED BY <1>1, <2>1, PutIs
<1> HIDE DEF e
<1>5. out.req # None
  BY <1>2 DEF Held, NoneIsApart
<1>6. \A i \in DOMAIN e : DirOK(e[i], i) /\ (e[i].state = "open" => out.req.id = i)
  BY <1>2, <1>3, <1>4 DEF PairOK
<1>7. PairOK(out.req, e)
  BY <1>1, <1>2, <1>3, <1>4, <1>5, <1>6 DEF PairOK
<1> QED BY <1>2, <1>4, <1>5, <1>7 DEF e, out

LEMMA LeavePair ==
  ASSUME NEW r, NEW d, PairOK(r, d), r # None, DOMAIN r.layers # {}, NEW seals, Leaves(r, d, seals)
  PROVE  PairOK(req', disk') /\ (req' # None => DOMAIN req'.layers # {}) /\ DOMAIN disk' = DOMAIN d
<1>1. PairOK(None, Finished(r, d)) /\ DOMAIN Finished(r, d) = DOMAIN d
  BY FinishPair
<1> QED BY <1>1 DEF Leaves

\* The whole of ingest.
LEMMA IngestPair ==
  ASSUME NoneIsApart, PairOK(req, disk), req # None => DOMAIN req.layers # {},
         NEW li \in Layers, NEW x, IsSeq(x), NEW start \in Nat, NEW of, NEW low, NEW w, Ingest(li, x, start, of, low, w)
  PROVE  PairOK(req', disk') /\ (req' # None => DOMAIN req'.layers # {}) /\ DOMAIN disk \subseteq DOMAIN disk'
<1> DEFINE at == WithOpen(li, of, start)
           fed == Fed(at.req, li, x, start)
           counted == Counted(at.req, fed)
           out == Streamed(fed, counted, w)
           e == WithSegs(at.disk, out.req.id, out.segs)
<1>1. Ships(out, at.disk, counted, low)
  BY DEF Ingest
<1>2. PairOK(at.req, at.disk) /\ at.req # None /\ DOMAIN disk \subseteq DOMAIN at.disk
  BY OpenPair
<1> HIDE DEF at
<1>3. PairOK(fed, at.disk) /\ fed # None /\ DOMAIN fed.layers # {}
  BY <1>2, FedPair
<1> HIDE DEF fed, counted
<1>4. PairOK(out.req, e) /\ out.req # None /\ DOMAIN out.req.layers # {} /\ DOMAIN e = DOMAIN at.disk
  BY <1>3, ShipPair
<1>5. Leaves(out.req, e, counted /\ Seals(out.req, low))
  BY <1>1, ShipsIs
<1> HIDE DEF out, e
<1> QED BY <1>2, <1>4, <1>5, LeavePair

-----------------------------------------------------------------------------
(* The engine *)

\* A prompt is a sequence with at least one row.
LEMMA PromptIs ==
  \A p \in Prompts : p \in Seq(Nat) /\ IsSeq(p) /\ Len(p) \in Nat /\ Len(p) >= 1 /\ Size(p) = Len(p)
<1> TAKE p \in Prompts
<1>1. p \in Seq(Nat) /\ p # <<>>
  BY RowsAssumption
<1> QED BY <1>1, SeqIs, EmptySeq DEF Size

LEMMA EndIs ==
  ASSUME NEW p \in Prompts, NEW pos \in Nat, pos < Len(p), NEW step \in Nat \ {0}
  PROVE  ChunkEnd(p, pos, step) \in Nat /\ pos < ChunkEnd(p, pos, step) /\ ChunkEnd(p, pos, step) <= Len(p)
BY PromptIs DEF ChunkEnd

\* A prompt that enters the engine.
LEMMA PostRun ==
  ASSUME NEW p \in Prompts, Post(p)
  PROVE  RunOK(run') /\ run'.ids = p /\ run'.li = 0
<1>1. PICK S \in Hits(p), step \in Steps : run' = [ids |-> p, pos |-> S, end |-> ChunkEnd(p, S, step), li |-> 0, step |-> step]
  BY DEF Post
<1>2. S \in Nat /\ S < Len(p)
  <2>1. Len(p) \in Nat /\ Len(p) >= 1
    BY PromptIs
  <2>2. CASE S = 0
    BY <2>1, <2>2
  <2>3. CASE S # 0
    <3> DEFINE From(c) == {s \in 0 .. Len(p) - 1 : s <= Shared(p, c) /\ (s % EngineBlock = 0 \/ s = Len(p) - 1)}
           all == UNION {From(c) : c \in cached}
    <3>0. Hits(p) = {0} \cup all
      BY DEF Hits
    <3> HIDE DEF all
    <3>3. S \in all
      BY <1>1, <2>3, <3>0
    <3> HIDE DEF From
    <3>1. PICK c \in cached : S \in From(c)
      BY <3>3 DEF all
    <3>2. S \in 0 .. Len(p) - 1
      BY <3>1 DEF From
    <3> QED BY <2>1, <3>2
  <2> QED BY <2>2, <2>3
<1>3. step \in Nat \ {0}
  BY RowBridgeAssumption
<1>4. ChunkEnd(p, S, step) \in Nat /\ S < ChunkEnd(p, S, step) /\ ChunkEnd(p, S, step) <= Len(p)
  BY <1>2, <1>3, EndIs
<1>5. 0 \in Layers
  BY RowsAssumption DEF Layers
<1> HIDE DEF RunOK
<1>6. run'.ids = p /\ run'.pos = S /\ run'.end = ChunkEnd(p, S, step) /\ run'.li = 0 /\ run'.step = step
  BY <1>1
<1>7. IsRun(run')
  BY <1>1 DEF IsRun, RunFields
<1> QED BY <1>2, <1>3, <1>4, <1>5, <1>6, <1>7 DEF RunOK

\* the prompt, a layer or a chunk further
LEMMA RunStepIs ==
  ASSUME NoneIsApart, run # None, RunOK(run)
  PROVE  /\ RunOK(Advanced) /\ (~Answered => Advanced # None)
         /\ \/ Answered /\ Advanced = None
            \/ ~Answered /\ run.li = NL - 1 /\ Advanced.ids = run.ids /\ Advanced.pos = run.end /\ Advanced.li = 0
            \/ ~Answered /\ run.li # NL - 1 /\ Advanced.ids = run.ids /\ Advanced.pos = run.pos
                 /\ Advanced.end = run.end /\ Advanced.li = run.li + 1
<1>1. /\ IsRun(run) /\ run.ids \in Prompts /\ run.pos \in Nat /\ run.end \in Nat /\ run.pos < run.end
      /\ run.end <= Len(run.ids) /\ run.li \in Layers /\ run.step \in Nat \ {0}
  BY DEF RunOK
<1>2. DOMAIN run = RunFields
  BY <1>1 DEF IsRun
<1>3. CASE Answered
  BY <1>3 DEF Advanced, RunOK
<1>4. CASE ~Answered /\ run.li = NL - 1
  <2> DEFINE a == [run EXCEPT !.pos = run.end, !.end = ChunkEnd(run.ids, run.end, run.step), !.li = 0]
  <2>1. Advanced = a
    BY <1>4 DEF Advanced
  <2>2. run.end < Len(run.ids)
    <3>1. Len(run.ids) \in Nat
      BY <1>1, PromptIs
    <3> QED BY <1>1, <1>4, <3>1 DEF Answered
  <2>3. ChunkEnd(run.ids, run.end, run.step) \in Nat /\ run.end < ChunkEnd(run.ids, run.end, run.step)
        /\ ChunkEnd(run.ids, run.end, run.step) <= Len(run.ids)
    BY <1>1, <2>2, EndIs
  <2>4. a.ids = run.ids /\ a.pos = run.end /\ a.end = ChunkEnd(run.ids, run.end, run.step) /\ a.li = 0 /\ a.step = run.step
    BY <1>2 DEF RunFields
  <2>5. IsRun(a)
    BY <1>2 DEF IsRun
  <2>6. 0 \in Layers
    BY RowsAssumption DEF Layers
  <2> HIDE DEF a
  <2>7. RunOK(a)
    BY <1>1, <2>3, <2>4, <2>5, <2>6 DEF RunOK
  <2> QED BY <1>4, <2>1, <2>4, <2>5, <2>7 DEF NoneIsApart
<1>5. CASE ~Answered /\ run.li # NL - 1
  <2> DEFINE a == [run EXCEPT !.li = @ + 1]
  <2>1. Advanced = a
    BY <1>5 DEF Advanced
  <2>2. a.ids = run.ids /\ a.pos = run.pos /\ a.end = run.end /\ a.li = run.li + 1 /\ a.step = run.step
    BY <1>2 DEF RunFields
  <2>3. IsRun(a)
    BY <1>2 DEF IsRun
  <2>4. run.li + 1 \in Layers
    <3>1. NL \in Nat /\ NL >= 1
      BY RowsAssumption
    <3> QED BY <1>1, <1>5, <3>1 DEF Layers
  <2> HIDE DEF a
  <2>5. RunOK(a)
    BY <1>1, <2>2, <2>3, <2>4 DEF RunOK
  <2> QED BY <1>5, <2>1, <2>2, <2>3, <2>5 DEF NoneIsApart
<1> QED BY <1>3, <1>4, <1>5

\* The rows of the chunk.
LEMMA ChunkIs ==
  ASSUME run # None, RunOK(run)
  PROVE  /\ IsSeq(Slice(run.ids, run.pos, run.end)) /\ Size(Slice(run.ids, run.pos, run.end)) = run.end - run.pos
         /\ run.li \in Layers /\ run.pos \in Nat
<1>1. run.ids \in Prompts /\ run.pos \in Nat /\ run.end \in Nat /\ run.pos <= run.end /\ run.end <= Len(run.ids) /\ run.li \in Layers
  BY DEF RunOK
<1>2. IsSeq(run.ids) /\ Size(run.ids) = Len(run.ids)
  BY <1>1, PromptIs
<1> QED BY <1>1, <1>2, SliceIs

\* what ingest does in a step of the engine
Fill(low, cannot) == Ingest(run.li, Slice(run.ids, run.pos, run.end), run.pos, run.ids, low, cannot - 1)

-----------------------------------------------------------------------------
(* The types: initially, and after every action *)

LEMMA TypesInit ==
  RowInit => TypesInv
<1> SUFFICES ASSUME RowInit PROVE TypesInv
  OBVIOUS
<1>1. PairOK(req, disk) /\ (req # None => DOMAIN req.layers # {})
  <2>1. IsSeq(<<>>) /\ DOMAIN <<>> = {}
    BY DEF IsSeq
  <2> QED BY <2>1 DEF RowInit, HookInit, PairOK
<1>2. RunOK(run) /\ KeptOK(kept, disk) /\ \A s \in copies : s.stamp \in DOMAIN disk
  BY DEF RowInit, HookInit, RunOK, KeptOK
<1>3. FrontOK(front, disk)
  BY DEF RowInit, Idle, FrontOK, FrontFields
<1>4. /\ marker \in {"none", "fresh", "old"} /\ faults \in 0 .. MaxFaults
      /\ others \in 0 .. MaxOthers /\ turn \in 0 .. Len(Turns)
  <2>1. Len(Turns) \in Nat /\ MaxFaults \in Nat /\ MaxOthers \in Nat
    BY RowBridgeAssumption
  <2> QED BY <2>1 DEF RowInit, HookInit
<1> QED BY <1>1, <1>2, <1>3, <1>4 DEF TypesInv

LEMMA FailingIs ==
  TypesInv /\ (Failing \/ UNCHANGED faults) => faults' \in 0 .. MaxFaults
BY RowBridgeAssumption DEF TypesInv, Failing

\* What is said of the front and of the kept capture stays, as the directories are only added to.
LEMMA MoreDirs ==
  ASSUME DOMAIN disk \subseteq DOMAIN disk'
  PROVE  /\ FrontOK(front, disk) /\ front' = front => FrontOK(front', disk')
         /\ KeptOK(kept, disk) /\ kept' = kept => KeptOK(kept', disk')
         /\ (\A s \in copies : s.stamp \in DOMAIN disk) /\ copies' = copies => \A s \in copies' : s.stamp \in DOMAIN disk'
BY DEF FrontOK, KeptOK

\* The front with another answer from the engine, and the front at another phase.
LEMMA FrontEng ==
  ASSUME NEW f, NEW d, FrontOK(f, d), NEW e, e # "queued"
  PROVE  FrontOK([f EXCEPT !.eng = e], d)
<1>1. DOMAIN f = FrontFields
  BY DEF FrontOK
<1> QED BY <1>1 DEF FrontOK, FrontFields

LEMMA FrontTo ==
  \A ph, i : FrontOK(front, disk) /\ i \in DOMAIN disk /\ To(ph, i) => FrontOK(front', disk)
<1> SUFFICES ASSUME NEW ph, NEW i, FrontOK(front, disk), i \in DOMAIN disk, To(ph, i) PROVE FrontOK(front', disk)
  OBVIOUS
<1>1. DOMAIN front = FrontFields /\ front' = [front EXCEPT !.phase = ph, !.stamp = i]
  BY DEF FrontOK, To
<1> QED BY <1>1 DEF FrontOK, FrontFields

LEMMA FrontIdle ==
  \A d : FrontOK(Idle, d)
BY DEF FrontOK, FrontFields, Idle

LEMMA WorkTypes ==
  ASSUME NoneIsApart, TypesInv, Work
  PROVE  TypesInv'
<1>1. PICK low \in BOOLEAN, cannot \in Boundaries(0, run.end) \cup {run.end + 1} :
         (Failing \/ UNCHANGED faults) /\ Fill(low, cannot)
  BY DEF Work, Fill
<1>2. RunOK(run) /\ run # None
  BY DEF TypesInv, Work
<1>3. IsSeq(Slice(run.ids, run.pos, run.end)) /\ run.li \in Layers /\ run.pos \in Nat
  BY <1>2, ChunkIs
<1>4. PairOK(req', disk') /\ (req' # None => DOMAIN req'.layers # {}) /\ DOMAIN disk \subseteq DOMAIN disk'
  <2>1. PairOK(req, disk) /\ (req # None => DOMAIN req.layers # {})
    BY DEF TypesInv
  <2> QED BY <1>1, <1>3, <2>1, IngestPair DEF Fill
<1>5. marker' \in {"none", "fresh", "old"} /\ copies' = copies
  BY <1>1 DEF Fill, Ingest, TypesInv
<1>6. RunOK(run')
  BY <1>2, RunStepIs DEF Work
<1>7. FrontOK(front', disk')
  <2>1. FrontOK(front, disk) /\ (front' = front \/ front' = [front EXCEPT !.eng = "answered"])
    BY DEF Work, TypesInv
  <2>2. FrontOK(front, disk')
    BY <1>4, <2>1 DEF FrontOK
  <2> QED BY <2>1, <2>2, FrontEng
<1>8. KeptOK(kept', disk') /\ (\A s \in copies' : s.stamp \in DOMAIN disk')
  BY <1>4, <1>5, MoreDirs DEF Work, TypesInv
<1>9. faults' \in 0 .. MaxFaults /\ others' = others /\ turn' = turn
  BY <1>1, FailingIs DEF Work
<1> QED BY <1>4, <1>5, <1>6, <1>7, <1>8, <1>9 DEF TypesInv

LEMMA WatchTypes ==
  ASSUME NoneIsApart, TypesInv, Watch
  PROVE  TypesInv'
<1>1. PairOK(req, disk) /\ req # None /\ DOMAIN req.layers # {} /\ disk' = Finished(req, disk) /\ req' = None
  BY DEF TypesInv, Watch, Flush, Settled
<1>2. PairOK(req', disk') /\ DOMAIN disk' = DOMAIN disk
  BY <1>1, FinishPair
<1>3. copies' = copies /\ marker' = marker /\ run' = run /\ front' = front /\ kept' = kept /\ turn' = turn /\ others' = others
  BY DEF Watch, Flush
<1>4. faults' \in 0 .. MaxFaults
  BY FailingIs DEF Watch
<1>5. FrontOK(front', disk') /\ KeptOK(kept', disk') /\ (\A s \in copies' : s.stamp \in DOMAIN disk')
  BY <1>2, <1>3, MoreDirs DEF TypesInv
<1> QED BY <1>1, <1>2, <1>3, <1>4, <1>5 DEF TypesInv

\* the hook and the parent are as they were
Same == UNCHANGED <<req, disk, kept, copies, marker>>

\* What is left to show when the hook and the parent do not change.
LEMMA RestTypes ==
  ASSUME TypesInv, Same, RunOK(run'), FrontOK(front', disk), Failing \/ UNCHANGED faults,
         others' \in 0 .. MaxOthers, turn' \in 0 .. Len(Turns)
  PROVE  TypesInv'
<1>1. faults' \in 0 .. MaxFaults
  BY FailingIs
<1>2. FrontOK(front', disk')
  BY DEF Same
<1> QED BY <1>1, <1>2 DEF TypesInv, Same

LEMMA EngineTypes ==
  ASSUME TypesInv, EngineTakes \/ EngineFails \/ OtherClient
  PROVE  TypesInv'
<1>1. FrontOK(front, disk) /\ RunOK(run) /\ others \in 0 .. MaxOthers /\ turn \in 0 .. Len(Turns)
  BY DEF TypesInv
<1>2. CASE EngineTakes
  <2>1. RunOK(run')
    BY <1>1, <1>2, PostRun DEF EngineTakes, FrontOK
  <2>2. FrontOK(front', disk)
    <3>1. front' = [front EXCEPT !.eng = "running"]
      BY <1>2 DEF EngineTakes
    <3>2. FrontOK([front EXCEPT !.eng = "running"], disk)
      BY <1>1, FrontEng
    <3> QED BY <3>1, <3>2
  <2> QED BY <1>1, <1>2, <2>1, <2>2, RestTypes DEF EngineTakes, Same, hookVars
<1>3. CASE EngineFails
  <2>1. RunOK(run')
    BY <1>1, <1>3 DEF EngineFails, RunOK
  <2>2. FrontOK(front', disk)
    BY <1>1, <1>3, FrontEng DEF EngineFails
  <2> QED BY <1>1, <1>3, <2>1, <2>2, RestTypes DEF EngineFails, Same, hookVars
<1>4. CASE OtherClient
  <2>1. RunOK(run')
    BY <1>4, PostRun, RowBridgeAssumption DEF OtherClient
  <2>2. others' \in 0 .. MaxOthers
    BY <1>1, <1>4, RowBridgeAssumption DEF OtherClient
  <2> QED BY <1>1, <1>4, <2>1, <2>2, RestTypes DEF OtherClient, Same, hookVars
<1> QED BY <1>2, <1>3, <1>4

LEMMA MarkerTypes ==
  ASSUME TypesInv, MarkerAges
  PROVE  TypesInv'
<1>1. faults' \in 0 .. MaxFaults
  BY FailingIs DEF MarkerAges
<1> QED BY <1>1 DEF TypesInv, MarkerAges

\* A turn begins, and the state of the parent may be pushed.
LEMMA AskTypes ==
  ASSUME TypesInv, AskPooled \/ AskStream
  PROVE  TypesInv'
<1>1. PICK phase \in {"scan", "pick"} : Asks(phase)
  BY DEF AskPooled, AskStream
<1>2. /\ turn < Len(Turns) /\ turn' = turn + 1 /\ front' = Began(phase)
      /\ UNCHANGED <<req, disk, run, kept, others, faults>>
  BY <1>1 DEF Asks
<1>3. turn \in Nat /\ turn + 1 \in 1 .. Len(Turns) /\ Turns[turn + 1] \in Prompts /\ turn' \in 0 .. Len(Turns)
  <2>1. turn \in Nat /\ Len(Turns) \in Nat /\ Turns \in Seq(Prompts)
    BY RowBridgeAssumption DEF TypesInv
  <2>2. turn + 1 \in 1 .. Len(Turns)
    BY <1>2, <2>1
  <2> QED BY <1>2, <2>1, <2>2
<1>4. FrontOK(front', disk')
  <2>1. Len(disk) \in Nat
    BY DEF TypesInv, PairOK, IsSeq
  <2> QED BY <1>2, <1>3, <2>1 DEF Began, Idle, FrontOK, FrontFields
<1>5. \A s \in copies' : s.stamp \in DOMAIN disk
  BY DEF AskPooled, AskStream, PushState, TypesInv, KeptOK
<1>6. marker' \in {"none", "fresh", "old"}
  BY DEF AskPooled, AskStream, TypesInv
<1> QED BY <1>2, <1>3, <1>4, <1>5, <1>6 DEF TypesInv

LEMMA FoundIs ==
  ASSUME TypesInv, NEW S, S \subseteq New, S # {}
  PROVE  Min(S) \in S /\ Max(S) \in S /\ (\A x \in S : x <= Max(S)) /\ Min(S) \in DOMAIN disk /\ Max(S) \in DOMAIN disk
<1>1. Size(disk) \in Nat /\ DOMAIN disk = 1 .. Size(disk)
  BY SizeIs DEF TypesInv, PairOK
<1>2. S \in SUBSET Nat /\ (\A x \in S : x <= Size(disk)) /\ S \subseteq DOMAIN disk
  BY <1>1 DEF New
<1> QED BY <1>1, <1>2, MinOf, MaxOf

\* The polls of the front.
LEMMA ScanTypes ==
  ASSUME TypesInv, Scan
  PROVE  TypesInv'
<1> DEFINE up(i) == Usable(disk[i].man)
           best == {i \in DoneNow : up(i) > 0 /\ \A j \in DoneNow : up(j) <= up(i) /\ (up(j) = up(i) => j <= i)}
<1>1. FrontOK(front, disk)
  BY DEF TypesInv
<1>2. best \subseteq New /\ CompleteNow \subseteq New
  BY DEF DoneNow, CompleteNow
<1>3. \/ CompleteNow # {} /\ To("pull", Min(CompleteNow))
      \/ best # {} /\ To("pull", Min(best))
      \/ GivesUp
  BY DEF Scan
<1> HIDE DEF best
<1>4. FrontOK(front', disk)
  <2>1. \A S : S \subseteq New /\ S # {} => Min(S) \in DOMAIN disk
    BY FoundIs
  <2>2. \A S : S \subseteq New /\ S # {} /\ To("pull", Min(S)) => FrontOK(front', disk)
    BY <1>1, <2>1, FrontTo
  <2> QED BY <1>2, <1>3, <2>2, FrontIdle DEF GivesUp
<1> QED BY <1>4, RestTypes DEF Scan, Same, hookVars, TypesInv

LEMMA PickTypes ==
  ASSUME TypesInv, Pick
  PROVE  TypesInv'
<1> DEFINE there == {i \in New : Names(i)}
<1>1. FrontOK(front, disk)
  BY DEF TypesInv
<1>2. \/ there # {} /\ \E ph \in {"segments", "seal"} : To(ph, Max(there))
      \/ GivesUp
  BY DEF Pick
<1> HIDE DEF there
<1>3. FrontOK(front', disk)
  <2>1. there # {} => Max(there) \in DOMAIN disk
    BY FoundIs DEF there
  <2> QED BY <1>1, <1>2, <2>1, FrontTo, FrontIdle DEF GivesUp
<1> QED BY <1>3, RestTypes DEF Pick, Same, hookVars, TypesInv

LEMMA SegmentTypes ==
  ASSUME TypesInv, PullSegment \/ SeeDone \/ StreamEnds
  PROVE  TypesInv'
<1>1. FrontOK(front, disk) /\ DOMAIN front = FrontFields
  BY DEF TypesInv, FrontOK
<1>2. CASE PullSegment
  <2>1. FrontOK(front', disk)
    BY <1>1, <1>2 DEF PullSegment, FrontOK, FrontFields
  <2> QED BY <1>2, <2>1, RestTypes DEF PullSegment, Same, hookVars, TypesInv
<1>3. CASE SeeDone
  <2>1. FrontOK(front', disk)
    BY <1>1, <1>3 DEF SeeDone, FrontOK, FrontFields
  <2> QED BY <1>3, <2>1, RestTypes DEF SeeDone, Same, hookVars, TypesInv
<1>4. CASE StreamEnds
  <2>1. FrontOK(front', disk)
    BY <1>4, FrontIdle DEF StreamEnds, GivesUp
  <2> QED BY <1>4, <2>1, RestTypes DEF StreamEnds, Same, hookVars, TypesInv
<1> QED BY <1>2, <1>3, <1>4

LEMMA WaitTypes ==
  ASSUME TypesInv, WaitDone
  PROVE  TypesInv'
<1>1. FrontOK(front, disk)
  BY DEF TypesInv
<1>2. front.phase = "seal" /\ (GivesUp \/ To("pull", front.stamp))
  BY DEF WaitDone
<1>3. front.stamp \in DOMAIN disk
  BY <1>1, <1>2 DEF FrontOK
<1>4. FrontOK(front', disk)
  BY <1>1, <1>2, <1>3, FrontTo, FrontIdle DEF GivesUp
<1> QED BY <1>4, RestTypes DEF WaitDone, Same, hookVars, TypesInv

LEMMA PullTypes ==
  ASSUME TypesInv, PullAndAssemble
  PROVE  TypesInv'
<1> DEFINE dir == disk[front.stamp]
           now == Remembered(front.stamp, front.ids, FilesFor(dir), dir.kvstate)
<1>1. front.stamp \in DOMAIN disk
  BY DEF PullAndAssemble, TypesInv, FrontOK
<1>2. /\ \/ kept' = kept /\ faults' = faults
         \/ dir.state = "done" /\ kept' \in {kept, now} /\ (Failing \/ UNCHANGED faults)
      /\ UNCHANGED <<hookVars, run, cached, turn, others>> /\ front' = Idle
  BY DEF PullAndAssemble, Stores
<1>3. dir.state = "done" => KeptOK(now, disk)
  <2>1. dir.state = "done" => dir.kvstate.stamp = front.stamp
    BY <1>1 DEF TypesInv, PairOK, DirOK
  <2> QED BY <1>1, <2>1 DEF KeptOK, Remembered
<1> HIDE DEF dir, now
<1>4. KeptOK(kept', disk)
  BY <1>2, <1>3 DEF TypesInv
<1>5. faults' \in 0 .. MaxFaults
  BY <1>2, FailingIs
<1>6. FrontOK(front', disk)
  BY <1>2, FrontIdle
<1> QED BY <1>2, <1>4, <1>5, <1>6 DEF TypesInv, hookVars

LEMMA TypesNext ==
  ASSUME NoneIsApart, TypesInv, [RowNext]_rowVars
  PROVE  TypesInv'
<1>1. CASE FrontDoor
  BY <1>1, AskTypes, ScanTypes, PickTypes, SegmentTypes, WaitTypes, PullTypes DEF FrontDoor
<1>2. CASE Pair
  BY <1>2, WorkTypes, EngineTypes, WatchTypes, MarkerTypes DEF Pair
<1>3. CASE UNCHANGED rowVars
  BY <1>3 DEF rowVars, hookVars, bridgeVars, TypesInv
<1> QED BY <1>1, <1>2, <1>3 DEF RowNext

LEMMA TypesAlways ==
  ASSUME NoneIsApart
  PROVE  RowSpec => []TypesInv
BY TypesInit, TypesNext, PTL DEF RowSpec

\* The types of the conversation: whatever prompts, faults and interleavings, directories and their segments are what the
\* fronts expect, the open request is the one of the open directory, the engine is at a chunk of its prompt, a pushed state
\* and the kept parent name a directory, and the counts stay in their bounds (RowTypeOK).
THEOREM RowTypes ==
  ASSUME NoneIsApart
  PROVE  RowSpec => []RowTypeOK
BY TypesAlways, TypesAreTypes, PTL

-----------------------------------------------------------------------------
(* What a streamed request ships *)

\* a directory whose segments are the true ones
SegsOK(x) == IsSeq(x.of) /\ \A b \in DOMAIN x.segs : b <= Size(x.of) /\ x.segs[b] = TrueSegment(x.of, b)

\* the open request r and its directory x: what is not in the segments is in the layers
HeldOK(r, x) ==
  /\ x.of = r.of /\ IsSeq(r.of) /\ r.error = FALSE
  /\ \A b \in DOMAIN x.segs : b <= r.emitted
  /\ r.partial # 0 \/ DOMAIN r.layers # Layers => r.emitted = 0
  /\ r.partial = 0 => Fresh(r)
LostOK(r, d) == (\A i \in DOMAIN d : SegsOK(d[i])) /\ (r # None => HeldOK(r, d[r.id]))

\* where the layers of a fresh request stand when n of them have had the chunk of q, and between two chunks
Lock(r, q, n) ==
  /\ DOMAIN r.layers = IF q.pos = 0 THEN 0 .. n - 1 ELSE Layers
  /\ \A li \in DOMAIN r.layers : r.layers[li].kv.next = IF li < n THEN q.end ELSE q.pos
  /\ Size(r.of) = Size(q.ids) /\ \A i \in Nat : q.pos < i /\ i <= Size(q.ids) => r.of[i] = q.ids[i]
Even(r) == DOMAIN r.layers = Layers /\ \A li \in Layers : r.layers[li].kv.next = r.layers[0].kv.next

\* the inductive invariant of the segments
LostInv ==
  /\ LostOK(req, disk)
  /\ req # None /\ req.partial = 0 =>
       req.calls > 0 /\ IF run # None /\ run.li > 0 THEN Lock(req, run, run.li) ELSE Even(req)
  /\ run # None /\ run.pos = 0 /\ run.li > 0 => req # None /\ req.calls <= run.li

LEMMA LostIsLost ==
  LostInv => NothingIsLost
<1> SUFFICES ASSUME LostInv PROVE NothingIsLost
  OBVIOUS
<1>1. \A i \in DOMAIN disk : SegmentsAreTrue(disk[i])
  BY DEF LostInv, LostOK, SegsOK, SegmentsAreTrue, TrueSegment
<1>2. ASSUME req # None, req.stream, req.partial = 0, NEW li \in DOMAIN req.layers, NEW k \in PoolsOf(li)
      PROVE  LET st == req.layers[li].pools[k]
                 all == TruePooled(Kind[li], req.of, st.next \div Ratio(Kind[li]))
             IN  st.shipped = req.emitted \div Ratio(Kind[li]) /\ st.pooled = Slice(all, st.shipped, Len(all))
  <2>1. Fresh(req)
    BY <1>2 DEF LostInv, LostOK, HeldOK
  <2>2. PICK n \in Nat : req.layers[li] = TrueLayer(li, req.of, req.emitted, req.emitted, 0, n)
    BY <1>2, <2>1 DEF Fresh
  <2>3. req.layers[li].pools[k] = TruePool(Kind[li], req.of, req.emitted, req.emitted, 0, n)
    BY <1>2, <2>2 DEF TrueLayer
  <2>4. n \div Ratio(Kind[li]) \in Nat
    BY RatioIs, DivMod
  <2>5. Len(TruePooled(Kind[li], req.of, n \div Ratio(Kind[li]))) = n \div Ratio(Kind[li])
    BY <2>4, PooledIs DEF Size
  <2>6. /\ TruePool(Kind[li], req.of, req.emitted, req.emitted, 0, n).next = n
        /\ TruePool(Kind[li], req.of, req.emitted, req.emitted, 0, n).shipped = req.emitted \div Ratio(Kind[li])
        /\ TruePool(Kind[li], req.of, req.emitted, req.emitted, 0, n).pooled = PooledFrom(Kind[li], req.of, req.emitted, n)
    BY DEF TruePool
  <2> QED BY <2>3, <2>5, <2>6 DEF PooledFrom
<1> QED BY <1>1, <1>2 DEF NothingIsLost

\* Closing a request writes true segments only.
LEMMA FinishLost ==
  ASSUME NEW r, NEW d, PairOK(r, d), r # None, DOMAIN r.layers # {}, \A i \in DOMAIN d : SegsOK(d[i]), d[r.id].of = r.of,
         Streams(r) /\ ~r.error => Fresh(r) /\ DOMAIN r.layers = Layers
  PROVE  \A i \in DOMAIN Finished(r, d) : SegsOK(Finished(r, d)[i])
<1> DEFINE f == Finished(r, d)
           last == LastOut(r)
           p == Published(d[r.id], last.req, last.segs, Max(Reach(r)), Streams(r))
<1>1. Held(r) /\ IsSeq(d) /\ r.id \in DOMAIN d /\ IsDir(d[r.id]) /\ SegsOK(d[r.id])
  BY DEF PairOK, DirOK
<1>2. /\ DOMAIN f = DOMAIN d /\ \A i \in DOMAIN d : i # r.id => f[i] = d[i]
      /\ f[r.id].of = d[r.id].of /\ f[r.id].state \in {"gone", "done"}
      /\ f[r.id].state = "gone" => f[r.id].segs = Empty
      /\ f[r.id].state = "done" => f[r.id] = p
  BY <1>1, FinishedDirs
<1>3. \A b \in DOMAIN last.segs : b <= Size(r.of) /\ last.segs[b] = TrueSegment(r.of, b)
  <2>1. CASE Streams(r) /\ ~r.error
    <3>1. PICK E \in Nat : E = Min(Reach(r)) /\ \A li \in Layers : E <= r.layers[li].kv.next /\ r.layers[li].kv.next \in Nat
      <4>1. Min(Reach(r)) \in Nat /\ Max(Reach(r)) \in Nat
            /\ \A li \in DOMAIN r.layers : r.layers[li].kv.next \in Min(Reach(r)) .. Max(Reach(r))
        BY <1>1, ReachIs
      <4> QED BY <2>1, <4>1
    <3>2. 0 \in Layers /\ r.layers[0].kv.next <= Size(r.of) /\ Size(r.of) \in Nat
      <4>1. 0 \in Layers
        BY RowsAssumption DEF Layers
      <4> QED BY <2>1, <4>1, SizeIs DEF Fresh
    <3>3. last = Emitted(r, E, Max(Reach(r)))
      BY <2>1, <3>1 DEF LastOut
    <3>4. r.error = FALSE
      BY <1>1, <2>1 DEF Held
    <3>5. \A b \in DOMAIN last.segs : last.segs[b] = TrueSegment(r.of, b) /\ b \in Nat /\ b <= E
      <4>1. PICK w : w = Max(Reach(r))
        OBVIOUS
      <4>2. Fresh(r) /\ DOMAIN r.layers = Layers
        BY <2>1
      <4> HIDE DEF last
      <4>3. \A b \in DOMAIN Emitted(r, E, w).segs : Emitted(r, E, w).segs[b] = TrueSegment(r.of, b) /\ b \in Nat /\ b <= E
        <5>1. E \in Nat /\ Held(r) /\ \A li \in Layers : E <= r.layers[li].kv.next
          BY <1>1, <3>1
        <5> QED BY ONLY <5>1, <3>4, <4>2, EmittedTrue
      <4> QED BY <3>3, <4>1, <4>3
    <3>6. E <= Size(r.of)
      BY <3>1, <3>2
    <3> HIDE DEF last
    <3> QED BY <3>2, <3>5, <3>6
  <2>2. CASE ~(Streams(r) /\ ~r.error)
    BY <2>2 DEF LastOut, Empty
  <2> QED BY <2>1, <2>2
<1>4. p.of = d[r.id].of /\ p.segs = Updated(d[r.id].segs, last.segs)
  BY <1>1, PublishedIs
<1> HIDE DEF f, p, last
<1>5. SegsOK(p)
  BY <1>1, <1>3, <1>4 DEF SegsOK, Updated
<1>6. SegsOK(f[r.id])
  <2>1. f[r.id].state = "gone" => SegsOK(f[r.id])
    BY <1>1, <1>2 DEF SegsOK, Empty
  <2> QED BY <1>2, <1>5, <2>1
<1> QED BY <1>2, <1>6 DEF f

\* A request that opens holds nothing yet.
LEMMA EnterLost ==
  ASSUME NoneIsApart, NEW d, PairOK(None, d), \A i \in DOMAIN d : SegsOK(d[i]), NEW of, IsSeq(of), NEW start \in Nat
  PROVE  LET at == EntersIn(d, of, start)
         IN  LostOK(at.req, at.disk) /\ at.req.layers = Empty /\ at.req.calls = 0 /\ at.req.partial = start /\ at.req.of = of
<1>0. PICK n : n = Size(d) + 1
  OBVIOUS
<1> DEFINE r == NewReq(n, of, start, d, copies)
           at == Enters(r, d)
<1>1. EntersIn(d, of, start) = at
  BY <1>0 DEF EntersIn, Size
<1>2. /\ Held(r) /\ r.id = Size(d) + 1 /\ r.of = of /\ r.partial = start /\ r.layers = Empty /\ r.calls = 0 /\ r.emitted = 0
      /\ r.error = FALSE /\ (start = 0 => r.seeds = Empty)
  <2>1. LET s == Newest(Covering(d, copies, start))
        IN  /\ Held(r) /\ r.id = n /\ r.of = of /\ r.partial = start /\ r.layers = Empty /\ r.calls = 0 /\ r.emitted = 0
            /\ r.error = FALSE /\ (r.seeds = Empty \/ start # 0)
    <3> HIDE DEF r
    <3> QED BY NewReqIs DEF r
  <2> QED BY <1>0, <2>1
<1>3. IsSeq(d) /\ \A i \in DOMAIN d : IsDir(d[i])
  BY DEF PairOK, DirOK
<1> HIDE DEF r
<1>4. /\ at.req = r /\ DOMAIN at.disk = DOMAIN d \cup {r.id}
      /\ \A i \in DOMAIN d : at.disk[i] = d[i] \/ IsGone(at.disk[i], d[i])
      /\ at.disk[r.id] = NewDir(r)
  BY <1>2, <1>3, EntersDirs
<1> HIDE DEF at
<1>5. NewDir(r).of = of /\ NewDir(r).segs = Empty /\ DOMAIN Empty = {}
  BY <1>2 DEF NewDir, Empty
<1>6. \A i \in DOMAIN at.disk : SegsOK(at.disk[i])
  BY <1>4, <1>5 DEF SegsOK, IsGone
<1>7. start = 0 => Fresh(r)
  <2>1. 0 % Block = 0
    <3>1. PICK m \in Nat : m = Block /\ m >= 1
      BY Sizes
    <3>2. 0 = 0 * m + 0
      BY Z3
    <3>3. 0 % m = 0
      BY <3>1, <3>2, DivOnly
    <3> QED BY <3>1, <3>3
  <2> QED BY <1>2, <1>5, <2>1 DEF Fresh
<1>8. HeldOK(r, NewDir(r))
  BY <1>2, <1>5, <1>7 DEF HeldOK
<1> QED BY <1>1, <1>2, <1>4, <1>6, <1>8 DEF LostOK

\* Going on with rows that agree with those at hand.
LEMMA RenameLost ==
  ASSUME NEW r, Held(r), DOMAIN r.layers # {}, NEW x, DirOK(x, r.id), HeldOK(r, x), SegsOK(x), NEW of, IsSeq(of),
         r.partial = 0 => \A li \in DOMAIN r.layers : r.layers[li].kv.next <= Size(of) /\ Agree(of, r.of, r.layers[li].kv.next)
  PROVE  HeldOK([r EXCEPT !.of = of], [x EXCEPT !.of = of]) /\ SegsOK([x EXCEPT !.of = of])
<1> DEFINE q == [r EXCEPT !.of = of]
           y == [x EXCEPT !.of = of]
<1>1. /\ IsReq(q) /\ q.of = of /\ q.id = r.id /\ q.stream = r.stream /\ q.partial = r.partial /\ q.layers = r.layers
      /\ q.seeds = r.seeds /\ q.emitted = r.emitted /\ q.error = r.error
  BY RenamedIs DEF Held
<1>2. IsDir(y) /\ y.of = of /\ y.segs = x.segs
  BY DirRenamedIs DEF DirOK
<1> HIDE DEF q, y
<1>3. r.emitted \in Nat /\ \A b \in DOMAIN x.segs : b \in Nat /\ b > 0 /\ b % Block = 0 /\ b <= r.emitted
  BY DEF Held, DirOK, HeldOK
<1>4. CASE r.partial # 0
  <2>1. DOMAIN x.segs = {}
    <3>1. r.emitted = 0
      BY <1>4 DEF HeldOK
    <3> QED BY <1>3, <3>1
  <2> QED BY <1>1, <1>2, <1>4, <2>1 DEF HeldOK, SegsOK, q, y
<1>5. CASE r.partial = 0
  <2>1. Fresh(r)
    BY <1>5 DEF HeldOK
  <2>2. ASSUME NEW li \in DOMAIN r.layers
        PROVE  LET n == r.layers[li].kv.next
               IN  n \in Nat /\ r.emitted <= n /\ n <= Size(of) /\ Agree(of, r.of, n) /\ n <= Size(r.of)
                   /\ r.layers[li] = TrueLayer(li, of, r.emitted, r.emitted, 0, n)
    <3>1. PICK n \in Nat : n = r.layers[li].kv.next /\ r.emitted <= n /\ n <= Size(r.of)
                           /\ r.layers[li] = TrueLayer(li, r.of, r.emitted, r.emitted, 0, n)
      BY <2>1 DEF Fresh
    <3>2. n <= Size(of) /\ Agree(of, r.of, n)
      BY <1>5, <3>1
    <3>3. li \in Layers /\ IsSeq(r.of)
      BY <2>1 DEF Held, Fresh
    <3>4. 0 <= n + Keep /\ 0 \in Nat
      BY Sizes
    <3>5. PICK w, was : w = r.emitted /\ was = r.of
      OBVIOUS
    <3>6. TrueLayer(li, of, w, w, 0, n) = TrueLayer(li, was, w, w, 0, n)
      <4>1. w \in Nat /\ IsSeq(was) /\ n <= Size(of) /\ n <= Size(was) /\ Agree(of, was, n) /\ li \in Layers /\ w <= n
        BY <1>3, <3>1, <3>2, <3>3, <3>5
      <4> QED BY ONLY IsSeq(of), <4>1, <3>4, n \in Nat, AgreeLayer
    <3>7. r.layers[li] = TrueLayer(li, of, r.emitted, r.emitted, 0, n)
      BY <3>1, <3>5, <3>6
    <3> QED BY <3>1, <3>2, <3>7
  <2>3. Fresh(q)
    BY <1>1, <2>1, <2>2 DEF Fresh
  <2>4. \A b \in DOMAIN x.segs : b <= Size(of) /\ x.segs[b] = TrueSegment(of, b)
    <3> TAKE b \in DOMAIN x.segs
    <3>1. PICK li \in DOMAIN r.layers : TRUE
      OBVIOUS
    <3>2. PICK n \in Nat : r.emitted <= n /\ n <= Size(of) /\ Agree(of, r.of, n) /\ n <= Size(r.of)
      BY <2>2
    <3>3. b \in Nat /\ 0 < b /\ b % Block = 0 /\ b <= n /\ Size(of) \in Nat
      BY <1>3, <3>2, SizeIs
    <3>4. IsSeq(r.of)
      BY <2>1 DEF Fresh
    <3>5. TrueSegment(of, b) = TrueSegment(r.of, b)
      BY ONLY IsSeq(of), <3>2, <3>3, <3>4, AgreeSegment
    <3>6. x.segs[b] = TrueSegment(r.of, b)
      BY DEF SegsOK, HeldOK
    <3> QED BY <3>2, <3>3, <3>5, <3>6
  <2> QED BY <1>1, <1>2, <1>5, <2>3, <2>4 DEF HeldOK, SegsOK, q, y
<1> QED BY <1>4, <1>5

LEMMA OntoSame ==
  ASSUME NEW rows, NEW of, IsSeq(rows), IsSeq(of), NEW start \in Nat, start <= Size(of), Size(rows) = Size(of),
         \A i \in Nat : start < i /\ i <= Size(of) => rows[i] = of[i]
  PROVE  Onto(rows, of, start) = rows
<1>1. /\ IsSeq(Onto(rows, of, start)) /\ Size(Onto(rows, of, start)) = Size(of) /\ Agree(Onto(rows, of, start), rows, start)
      /\ \A i \in Nat : start < i /\ i <= Size(of) => Onto(rows, of, start)[i] = of[i]
  BY OntoIs
<1>2. \A i \in Nat : 1 <= i /\ i <= Size(rows) => Onto(rows, of, start)[i] = rows[i]
  <2> TAKE i \in Nat
  <2> HAVE 1 <= i /\ i <= Size(rows)
  <2>1. i <= start => Onto(rows, of, start)[i] = rows[i]
    BY <1>1 DEF Agree
  <2> QED BY <1>1, <2>1
<1> QED BY <1>1, <1>2, SameRows

\* The request that takes a chunk, before it does: it stands where the chunk starts, and its rows are those of the prompt.
Calls(r, q, n) == q.pos = 0 => r.calls <= n

LEMMA OpenLost ==
  ASSUME NoneIsApart, TypesInv, LostInv, run # None
  PROVE  LET at == WithOpen(run.li, run.ids, run.pos)
         IN  LostOK(at.req, at.disk) /\ (at.req.partial = 0 => Lock(at.req, run, run.li)) /\ Calls(at.req, run, run.li)
<1> DEFINE at == WithOpen(run.li, run.ids, run.pos)
<1>1. /\ PairOK(req, disk) /\ (req # None => DOMAIN req.layers # {}) /\ RunOK(run) /\ LostOK(req, disk)
      /\ IsSeq(run.ids) /\ run.pos \in Nat /\ run.li \in Nat /\ run.li \in Layers /\ run.pos <= Size(run.ids) /\ Size(run.ids) \in Nat
  <2>1. RunOK(run) /\ run.ids \in Prompts
    BY DEF TypesInv, RunOK
  <2>2. IsSeq(run.ids) /\ Size(run.ids) = Len(run.ids) /\ Size(run.ids) \in Nat
    BY <2>1, PromptIs
  <2>3. run.pos \in Nat /\ run.pos <= Size(run.ids) /\ run.li \in Layers
    BY <2>1, <2>2 DEF RunOK
  <2>4. run.li \in Nat
    BY <2>3 DEF Layers
  <2> QED BY <2>1, <2>2, <2>3, <2>4 DEF TypesInv, LostInv
<1>2. ASSUME NEW d, PairOK(None, d), \A i \in DOMAIN d : SegsOK(d[i]), at = EntersIn(d, run.ids, run.pos), run.pos = 0 => run.li = 0
      PROVE  LostOK(at.req, at.disk) /\ (at.req.partial = 0 => Lock(at.req, run, run.li)) /\ Calls(at.req, run, run.li)
  <2> HIDE DEF at
  <2>1. /\ LostOK(at.req, at.disk) /\ at.req.layers = Empty /\ at.req.calls = 0 /\ at.req.partial = run.pos /\ at.req.of = run.ids
    BY <1>1, <1>2, EnterLost
  <2>2. at.req.partial = 0 => Lock(at.req, run, run.li)
    <3> HAVE at.req.partial = 0
    <3>1. run.pos = 0 /\ run.li = 0 /\ DOMAIN at.req.layers = {} /\ 0 .. 0 - 1 = {}
      BY <1>2, <2>1 DEF Empty
    <3> QED BY <2>1, <3>1 DEF Lock
  <2>3. Calls(at.req, run, run.li)
    BY <1>1, <2>1 DEF Calls
  <2> QED BY <2>1, <2>2, <2>3
<1>3. CASE req = None
  <2>1. at = EntersIn(disk, run.ids, run.pos)
    BY <1>3, OpenIs
  <2>2. run.pos = 0 => run.li = 0
    BY <1>1, <1>3 DEF LostInv
  <2> QED BY <1>1, <1>2, <1>3, <2>1, <2>2 DEF LostOK
<1>4. CASE req # None /\ Closes(run.li, run.pos)
  <2>1. at = EntersIn(Finished(req, disk), run.ids, run.pos) /\ run.li = 0
    BY <1>4, OpenIs DEF Closes
  <2>2. PairOK(None, Finished(req, disk))
    BY <1>1, <1>4, FinishPair
  <2>3. Streams(req) /\ ~req.error => Fresh(req) /\ DOMAIN req.layers = Layers
    BY <1>1, <1>4, <2>1 DEF Streams, LostInv, LostOK, HeldOK, Even
  <2>4. \A i \in DOMAIN Finished(req, disk) : SegsOK(Finished(req, disk)[i])
    BY <1>1, <1>4, <2>3, FinishLost DEF LostOK, HeldOK
  <2>5. PICK d : d = Finished(req, disk)
    OBVIOUS
  <2>6. /\ PairOK(None, d) /\ (\A i \in DOMAIN d : SegsOK(d[i])) /\ at = EntersIn(d, run.ids, run.pos)
        /\ (run.pos = 0 => run.li = 0)
    BY <2>1, <2>2, <2>4, <2>5
  <2> QED BY <1>2, <2>6
<1>5. CASE ~Opens(run.li, run.pos)
  <2>1. at = GoesOn(run.ids, run.pos) /\ req # None /\ ~Closes(run.li, run.pos)
    BY <1>5, OpenIs DEF Opens
  <2> DEFINE of == Onto(req.of, run.ids, run.pos)
             q == [req EXCEPT !.of = of]
             y == [disk[req.id] EXCEPT !.of = of]
             e == Put(disk, req.id, y)
  <2>2. /\ Held(req) /\ req.id \in DOMAIN disk /\ IsSeq(disk) /\ DirOK(disk[req.id], req.id) /\ HeldOK(req, disk[req.id])
        /\ SegsOK(disk[req.id]) /\ IsSeq(req.of) /\ disk[req.id].of = req.of
    BY <1>1, <2>1 DEF PairOK, LostOK, HeldOK
  <2>3. at.req = q /\ at.disk = e
    BY <2>1, <2>2 DEF GoesOn, NowOf
  <2>4. req.partial = 0 => run.pos # 0 \/ run.li # 0
    <3> SUFFICES ASSUME req.partial = 0, run.pos = 0, run.li = 0 PROVE FALSE
      OBVIOUS
    <3>1. req.calls > 0
      BY <2>1 DEF LostInv
    <3> QED BY <2>1, <3>1 DEF Closes
  <2>5. ASSUME req.partial = 0, run.li = 0
        PROVE  DOMAIN req.layers = Layers /\ run.pos # 0 /\ \A li \in Layers : req.layers[li].kv.next = run.pos
    <3>1. Even(req) /\ req.calls > 0
      BY <2>1, <2>5 DEF LostInv
    <3>2. 0 \in Layers
      BY RowsAssumption DEF Layers
    <3>3. run.pos = req.layers[0].kv.next
      BY <2>1, <2>4, <2>5, <3>1, <3>2 DEF Closes, Even
    <3> QED BY <2>4, <2>5, <3>1, <3>3 DEF Even
  <2>6. ASSUME req.partial = 0, run.li # 0 PROVE Lock(req, run, run.li)
    <3>1. run.li > 0
      BY <1>1, <2>6
    <3> QED BY <2>1, <2>6, <3>1 DEF LostInv
  <2>7. ASSUME req.partial = 0 PROVE run.pos <= Size(req.of) /\ Fresh(req)
    <3>1. Fresh(req)
      BY <2>2, <2>7 DEF HeldOK
    <3>2. CASE run.li = 0
      <4>1. 0 \in Layers
        BY RowsAssumption DEF Layers
      <4> QED BY <2>5, <2>7, <3>1, <3>2, <4>1 DEF Fresh
    <3>3. CASE run.li # 0
      BY <1>1, <2>6, <2>7, <3>1, <3>3 DEF Lock
    <3> QED BY <3>1, <3>2, <3>3
  <2>8. IsSeq(of)
    BY <1>1, <2>2, OntoIs
  <2>9. ASSUME req.partial = 0
        PROVE  /\ Size(of) = Size(run.ids) /\ (\A i \in Nat : run.pos < i /\ i <= Size(run.ids) => of[i] = run.ids[i])
               /\ run.li # 0 => of = req.of
               /\ \A li \in DOMAIN req.layers : req.layers[li].kv.next <= Size(of) /\ Agree(of, req.of, req.layers[li].kv.next)
    <3>1. /\ Size(of) = Size(run.ids) /\ Agree(of, req.of, run.pos)
          /\ \A i \in Nat : run.pos < i /\ i <= Size(run.ids) => of[i] = run.ids[i]
      <4>1. IsSeq(req.of) /\ IsSeq(run.ids) /\ run.pos \in Nat /\ run.pos <= Size(run.ids) /\ run.pos <= Size(req.of)
        BY <1>1, <2>2, <2>7, <2>9
      <4>2. PICK was, new, n : was = req.of /\ new = run.ids /\ n = run.pos
        OBVIOUS
      <4>3. n \in Nat /\ IsSeq(was) /\ IsSeq(new) /\ n <= Size(new) /\ n <= Size(was)
        BY <4>1, <4>2
      <4>4. /\ Size(Onto(was, new, n)) = Size(new) /\ Agree(Onto(was, new, n), was, n)
            /\ \A i \in Nat : n < i /\ i <= Size(new) => Onto(was, new, n)[i] = new[i]
        BY ONLY <4>3, OntoIs
      <4> QED BY <4>2, <4>4
    <3>2. run.li # 0 => of = req.of
      BY <1>1, <2>2, <2>6, <2>9, OntoSame DEF Lock
    <3> HIDE DEF of
    <3>3. CASE run.li = 0
      BY <1>1, <2>5, <2>9, <3>1, <3>2, <3>3
    <3>4. CASE run.li # 0
      BY <2>7, <2>9, <3>1, <3>2, <3>4 DEF Fresh, Agree
    <3> QED BY <3>1, <3>2, <3>3, <3>4
  <2> HIDE DEF of
  <2>10. HeldOK(q, y) /\ SegsOK(y)
    BY <1>1, <2>1, <2>2, <2>8, <2>9, RenameLost
  <2>11. DOMAIN e = DOMAIN disk /\ e[req.id] = y /\ \A j \in DOMAIN disk : j # req.id => e[j] = disk[j]
    BY <2>2, PutIs
  <2>12. q.id = req.id /\ q.of = of /\ q.partial = req.partial /\ q.layers = req.layers /\ q.calls = req.calls
    BY <2>2, RenamedIs DEF Held
  <2> HIDE DEF q, y, e, at
  <2>13. LostOK(q, e)
    BY <1>1, <2>10, <2>11, <2>12 DEF LostOK
  <2>14. q.partial = 0 => Lock(q, run, run.li)
    <3> SUFFICES ASSUME q.partial = 0 PROVE Lock(q, run, run.li)
      OBVIOUS
    <3>1. req.partial = 0
      BY <2>12
    <3>2. CASE run.li = 0
      <4>1. /\ DOMAIN q.layers = Layers /\ run.pos # 0 /\ \A li \in Layers : q.layers[li].kv.next = run.pos
        BY <2>5, <2>12, <3>1, <3>2
      <4>2. \A li \in Layers : ~(li < 0)
        BY DEF Layers
      <4> QED BY <2>9, <2>12, <3>1, <3>2, <4>1, <4>2 DEF Lock
    <3>3. CASE run.li # 0
      <4>1. Lock(req, run, run.li) /\ q.of = req.of
        BY <2>6, <2>9, <2>12, <3>1, <3>3
      <4> QED BY <2>12, <4>1 DEF Lock
    <3> QED BY <3>2, <3>3
  <2>15. Calls(q, run, run.li)
    <3> SUFFICES ASSUME run.pos = 0 PROVE req.calls <= run.li
      BY <2>12 DEF Calls
    <3>1. CASE run.li = 0
      <4>1. ~(req.calls > 0) /\ req.calls \in Nat
        BY <2>1, <2>2, <3>1 DEF Closes, Held
      <4> QED BY <3>1, <4>1
    <3>2. CASE run.li # 0
      <4>1. run.li > 0
        BY <1>1, <3>2
      <4> QED BY <2>1, <4>1 DEF LostInv
    <3> QED BY <3>1, <3>2
  <2> QED BY <2>3, <2>13, <2>14, <2>15 DEF at
<1> QED BY <1>3, <1>4, <1>5 DEF Opens

\* Feeding it: a fresh request holds the chunk as well, in one layer more.
LEMMA FedLost ==
  ASSUME NoneIsApart, NEW q, RunOK(q), q # None, NEW r, NEW d, PairOK(r, d), r # None, LostOK(r, d),
         r.partial = 0 => Lock(r, q, q.li), Calls(r, q, q.li)
  PROVE  LET f == Fed(r, q.li, Slice(q.ids, q.pos, q.end), q.pos)
         IN  /\ LostOK(f, d) /\ f.partial = r.partial /\ Calls(f, q, q.li + 1)
             /\ Counted(r, f) => f.calls > 0
             /\ r.partial = 0 => f.calls > 0 /\ Lock(f, q, q.li + 1)
<1> DEFINE x == Slice(q.ids, q.pos, q.end)
           f == Fed(r, q.li, x, q.pos)
<1>1. /\ Held(r) /\ IsReq(r) /\ HeldOK(r, d[r.id]) /\ r.calls \in Nat
      /\ q.li \in Layers /\ q.li \in Nat /\ q.pos \in Nat /\ q.end \in Nat /\ q.pos <= q.end /\ IsSeq(q.ids) /\ q.end <= Size(q.ids)
  <2>1. q.ids \in Prompts /\ q.pos \in Nat /\ q.end \in Nat /\ q.pos < q.end /\ q.end <= Len(q.ids) /\ q.li \in Layers
    BY DEF RunOK
  <2>2. IsSeq(q.ids) /\ Size(q.ids) = Len(q.ids)
    BY <2>1, PromptIs
  <2>3. Held(r) /\ HeldOK(r, d[r.id])
    BY DEF PairOK, LostOK
  <2>4. IsReq(r) /\ r.calls \in Nat
    BY <2>3 DEF Held
  <2>5. q.li \in Nat /\ q.pos <= q.end
    BY <2>1 DEF Layers
  <2> QED BY <2>1, <2>2, <2>3, <2>4, <2>5
<1>2. /\ IsReq(f) /\ f.id = r.id /\ f.of = r.of /\ f.stream = r.stream /\ f.partial = r.partial
      /\ f.emitted = r.emitted /\ f.error = r.error /\ f.seeds = Without(r.seeds, q.li)
      /\ f.calls = IF Takes(r, q.li, q.pos) = PoolsOf(q.li) THEN r.calls + 1 ELSE r.calls
      /\ IsFun(f.layers) /\ DOMAIN f.layers = DOMAIN r.layers \cup {q.li}
      /\ f.layers[q.li] = FedLayer(r, q.li, x, q.pos)
      /\ \A l \in DOMAIN r.layers : l # q.li => f.layers[l] = r.layers[l]
  BY <1>1, FedFields, FedLayers
<1>3. Calls(f, q, q.li + 1) /\ (Counted(r, f) => f.calls > 0)
  BY <1>1, <1>2 DEF Calls, Counted
<1>4. CASE r.partial # 0
  <2>1. HeldOK(f, d[r.id])
    <3>1. r.emitted = 0
      BY <1>1, <1>4 DEF HeldOK
    <3> HIDE DEF f
    <3> QED BY <1>1, <1>2, <1>4, <3>1 DEF HeldOK
  <2> HIDE DEF f
  <2>2. LostOK(f, d)
    BY <1>2, <2>1 DEF LostOK
  <2> QED BY <1>2, <1>3, <1>4, <2>2 DEF f
<1>5. CASE r.partial = 0
  <2> HIDE DEF f
  <2>1. Fresh(r) /\ Lock(r, q, q.li)
    BY <1>1, <1>5 DEF HeldOK
  <2>2. PICK p, w, n, m : p = r.of /\ w = r.emitted /\ n = q.pos /\ m = q.end
    OBVIOUS
  <2>3. /\ IsSeq(p) /\ w \in Nat /\ n \in Nat /\ m \in Nat /\ n <= m /\ m <= Size(p) /\ Size(p) = Size(q.ids)
        /\ DOMAIN r.seeds = {}
    BY <1>1, <2>1, <2>2 DEF Fresh, Lock
  <2>4. x = Slice(p, n, m)
    <3>1. \A i \in Nat : n + 1 <= i /\ i <= m => q.ids[i] = p[i]
      <4>1. Size(q.ids) \in Nat /\ \A i \in Nat : n < i /\ i <= Size(q.ids) => p[i] = q.ids[i]
        BY <1>1, <2>1, <2>2, SizeIs DEF Lock
      <4>2. m <= Size(q.ids)
        BY <1>1, <2>2
      <4> QED BY <2>3, <4>1, <4>2
    <3> QED BY <1>1, <2>2, <2>3, <3>1, SliceAgree
  <2>5. /\ w <= n /\ KvOf(r, q.li, SeedOf(r, q.li)) = TrueKv(p, w, 0, n)
        /\ \A k \in PoolsOf(q.li) : PoolOf(r, q.li, k, SeedOf(r, q.li), n) = TruePool(Kind[q.li], p, w, w, 0, n)
    <3>1. CASE q.li \in DOMAIN r.layers
      <4>1. r.layers[q.li].kv.next = n
        BY <1>1, <2>1, <2>2, <3>1 DEF Lock
      <4>2. w <= n /\ r.layers[q.li] = TrueLayer(q.li, p, w, w, 0, n)
        BY <2>1, <2>2, <3>1, <4>1 DEF Fresh
      <4> QED BY <1>1, <3>1, <4>2, FoundTrue
    <3>2. CASE q.li \notin DOMAIN r.layers
      <4>1. n = 0
        BY <1>1, <2>1, <2>2, <3>2 DEF Lock
      <4>2. w = 0
        BY <1>1, <2>2, <3>2 DEF HeldOK
      <4> QED BY <1>1, <2>3, <3>2, <4>1, <4>2, NewTrue
    <3> QED BY <3>1, <3>2
  <2>6. Takes(r, q.li, n) = PoolsOf(q.li) /\ FedLayer(r, q.li, Slice(p, n, m), n) = TrueLayer(q.li, p, w, w, 0, m)
    <3>1. 0 \in Nat /\ 0 <= w + Keep /\ q.li \in Layers
      BY <1>1, <2>3, Sizes
    <3> QED BY ONLY <2>3, <2>5, <3>1, FedTrue
  <2>7. f.calls > 0 /\ f.calls = r.calls + 1 /\ f.layers[q.li] = TrueLayer(q.li, p, w, w, 0, m)
    BY <1>1, <1>2, <2>2, <2>4, <2>6
  <2>8. f.layers[q.li].kv.next = m
    BY <2>7 DEF TrueLayer, TrueKv
  <2>9. Fresh(f)
    <3>1. DOMAIN f.seeds = {}
      BY <1>2, <2>3 DEF Without
    <3>2. ASSUME NEW l \in DOMAIN f.layers
          PROVE  LET k == f.layers[l].kv.next
                 IN  k \in Nat /\ w <= k /\ k <= Size(p) /\ f.layers[l] = TrueLayer(l, p, w, w, 0, k)
      <4>1. CASE l = q.li
        BY <2>3, <2>5, <2>7, <2>8, <4>1
      <4>2. CASE l # q.li
        BY <1>2, <2>1, <2>2, <3>2, <4>2 DEF Fresh
      <4> QED BY <4>1, <4>2
    <3>3. f.emitted % Block = 0 /\ f.of = p /\ f.emitted = w
      BY <1>2, <2>1, <2>2 DEF Fresh
    <3> QED BY <2>3, <3>1, <3>2, <3>3 DEF Fresh
  <2>10. Lock(f, q, q.li + 1)
    <3>1. DOMAIN f.layers = IF q.pos = 0 THEN 0 .. (q.li + 1) - 1 ELSE Layers
      <4>1. DOMAIN f.layers = (IF q.pos = 0 THEN 0 .. q.li - 1 ELSE Layers) \cup {q.li}
        BY <1>2, <2>1 DEF Lock
      <4>2. 0 .. (q.li + 1) - 1 = (0 .. q.li - 1) \cup {q.li}
        BY <1>1
      <4> QED BY <1>1, <4>1, <4>2
    <3>2. \A l \in DOMAIN f.layers : f.layers[l].kv.next = IF l < q.li + 1 THEN q.end ELSE q.pos
      <4> TAKE l \in DOMAIN f.layers
      <4>1. CASE l = q.li
        BY <1>1, <2>2, <2>8, <4>1
      <4>2. CASE l # q.li
        <5>1. l \in DOMAIN r.layers /\ f.layers[l] = r.layers[l]
          BY <1>2, <4>2
        <5>2. l \in Nat
          BY <1>1, <5>1 DEF Held, Layers
        <5>3. l < q.li + 1 <=> l < q.li
          BY <1>1, <4>2, <5>2
        <5> QED BY <2>1, <5>1, <5>3 DEF Lock
      <4> QED BY <4>1, <4>2
    <3> QED BY <1>2, <2>1, <3>1, <3>2 DEF Lock
  <2>11. HeldOK(f, d[r.id])
    <3>1. DOMAIN f.layers # Layers => r.emitted = 0
      <4>1. DOMAIN r.layers = Layers => DOMAIN f.layers = Layers
        BY <1>1, <1>2
      <4> QED BY <1>1, <4>1 DEF HeldOK
    <3> QED BY <1>1, <1>2, <1>5, <2>9, <3>1 DEF HeldOK
  <2>12. LostOK(f, d)
    BY <1>2, <2>11 DEF LostOK
  <2> QED BY <1>2, <1>3, <2>7, <2>10, <2>12 DEF f
<1> QED BY <1>4, <1>5

\* Shipping its segments: what goes is true, and what stays follows it, unless the stream failed.
LEMMA ShipLost ==
  ASSUME NoneIsApart, NEW r, NEW d, PairOK(r, d), r # None, DOMAIN r.layers # {}, LostOK(r, d), NEW counted, NEW w
  PROVE  LET out == Streamed(r, counted, w)
             e == WithSegs(d, out.req.id, out.segs)
         IN  /\ \A i \in DOMAIN e : SegsOK(e[i])
             /\ e[out.req.id].of = out.req.of
             /\ ~out.req.error => LostOK(out.req, e)
             /\ out.req.error => counted /\ StreamsNow(r)
             /\ out.req.of = r.of /\ out.req.calls = r.calls /\ out.req.partial = r.partial /\ out.req.stream = r.stream
             /\ DOMAIN out.req.layers = DOMAIN r.layers
             /\ \A li \in DOMAIN r.layers : out.req.layers[li].kv.next = r.layers[li].kv.next
<1> DEFINE out == Streamed(r, counted, w)
           e == WithSegs(d, out.req.id, out.segs)
<1>1. /\ Held(r) /\ IsSeq(d) /\ r.id \in DOMAIN d /\ IsDir(d[r.id]) /\ SegsOK(d[r.id]) /\ HeldOK(r, d[r.id])
      /\ d[r.id].of = r.of /\ r.error = FALSE
  BY DEF PairOK, DirOK, LostOK, HeldOK
<1>2. /\ out.req.id = r.id /\ out.req.of = r.of /\ out.req.calls = r.calls /\ out.req.partial = r.partial
      /\ out.req.stream = r.stream /\ DOMAIN out.req.layers = DOMAIN r.layers
      /\ \A li \in DOMAIN r.layers : out.req.layers[li].kv.next = r.layers[li].kv.next
      /\ \A b \in DOMAIN out.segs : b <= Size(r.of) /\ out.segs[b] = TrueSegment(r.of, b) /\ b <= out.req.emitted
      /\ out.req.emitted \in Nat /\ r.emitted <= out.req.emitted /\ r.emitted \in Nat
      /\ out.req.error => counted /\ StreamsNow(r)
      /\ out.req.error \in BOOLEAN
      /\ ~out.req.error /\ r.partial = 0 => Fresh(out.req)
      /\ r.partial # 0 \/ DOMAIN r.layers # Layers => out.req.emitted = 0
  <2>1. CASE counted /\ StreamsNow(r) /\ out = Emitted(r, Min(Reach(r)), w)
    <3>1. DOMAIN r.layers = Layers /\ r.partial = 0 /\ Fresh(r)
      BY <1>1, <2>1 DEF StreamsNow, HeldOK
    <3>2. PICK E \in Nat : E = Min(Reach(r)) /\ \A li \in Layers : E <= r.layers[li].kv.next /\ r.layers[li].kv.next \in Nat
      <4>1. Min(Reach(r)) \in Nat /\ Max(Reach(r)) \in Nat
            /\ \A li \in DOMAIN r.layers : r.layers[li].kv.next \in Min(Reach(r)) .. Max(Reach(r))
        BY <1>1, ReachIs
      <4> QED BY <3>1, <4>1
    <3>3. E <= Size(r.of)
      <4>1. 0 \in Layers /\ Size(r.of) \in Nat
        BY <3>1, RowsAssumption, SizeIs DEF Layers, Fresh
      <4>2. r.layers[0].kv.next <= Size(r.of)
        BY <3>1, <4>1 DEF Fresh
      <4> QED BY <3>2, <4>1, <4>2
    <3> DEFINE em == Emitted(r, E, w)
    <3>4. out = em
      BY <2>1, <3>2
    <3>5. /\ em.req.id = r.id /\ em.req.of = r.of /\ em.req.stream = r.stream /\ em.req.partial = r.partial
          /\ em.req.calls = r.calls /\ em.req.emitted \in Nat /\ em.req.emitted >= r.emitted
          /\ \A b \in DOMAIN em.segs : b <= em.req.emitted
          /\ DOMAIN em.req.layers = DOMAIN r.layers
          /\ \A li \in DOMAIN r.layers : em.req.layers[li].kv = Trimmed(r.layers[li].kv, em.req.emitted)
      <4> HIDE DEF em
      <4> QED BY <1>1, EmittedFields DEF em
    <3>6. \A b \in DOMAIN em.segs : em.segs[b] = TrueSegment(r.of, b) /\ b \in Nat /\ b <= E
      <4>1. Held(r) /\ r.error = FALSE /\ E \in Nat /\ \A li \in Layers : E <= r.layers[li].kv.next
        BY <1>1, <3>2
      <4> QED BY ONLY <3>1, <4>1, EmittedTrue
    <3>7. em.req.error = FALSE => Fresh(em.req)
      <4>1. Held(r) /\ r.error = FALSE /\ E \in Nat /\ \A li \in Layers : E <= r.layers[li].kv.next
        BY <1>1, <3>2
      <4> QED BY ONLY <3>1, <4>1, EmittedTrue
    <3>8. em.req.error \in BOOLEAN
      BY <1>1, EmittedHeld DEF Held
    <3>9. \A li \in DOMAIN r.layers : em.req.layers[li].kv.next = r.layers[li].kv.next
      <4>1. \A li \in DOMAIN r.layers : IsKv(r.layers[li].kv)
        BY <1>1 DEF Held
      <4>2. \A li \in DOMAIN r.layers : \A b : Trimmed(r.layers[li].kv, b).next = r.layers[li].kv.next
        BY <4>1, TrimmedIs
      <4> HIDE DEF em
      <4> QED BY <3>5, <4>2
    <3>10. Size(r.of) \in Nat /\ \A b \in DOMAIN em.segs : b <= Size(r.of)
      <4>1. Size(r.of) \in Nat
        BY <3>1, SizeIs DEF Fresh
      <4> HIDE DEF em
      <4> QED BY <3>3, <3>6, <4>1
    <3>11. r.emitted \in Nat
      BY <1>1 DEF Held
    <3> HIDE DEF em, out
    <3> QED BY <2>1, <3>1, <3>4, <3>5, <3>6, <3>7, <3>8, <3>9, <3>10, <3>11
  <2>2. CASE out = [req |-> r, segs |-> Empty]
    <3>1. out.req = r /\ DOMAIN out.segs = {} /\ r.emitted \in Nat
      BY <1>1, <2>2 DEF Empty, Held
    <3> HIDE DEF out
    <3>2. /\ r.error = FALSE /\ (r.partial # 0 \/ DOMAIN r.layers # Layers => r.emitted = 0) /\ (r.partial = 0 => Fresh(r))
          /\ r.emitted <= r.emitted
      BY <1>1, <3>1 DEF HeldOK
    <3>3. out.req.error = FALSE
      BY <3>1, <3>2
    <3>4. /\ out.req.id = r.id /\ out.req.of = r.of /\ out.req.calls = r.calls /\ out.req.partial = r.partial
          /\ out.req.stream = r.stream /\ out.req.layers = r.layers /\ out.req.emitted = r.emitted
      BY <3>1
    <3> QED BY <3>1, <3>2, <3>3, <3>4
  <2> HIDE DEF out
  <2> QED BY <2>1, <2>2, StreamedIs DEF out
<1> HIDE DEF out
<1>3. DOMAIN e = DOMAIN d /\ e[r.id] = MoreSegs(d[r.id], out.segs) /\ \A j \in DOMAIN d : j # r.id => e[j] = d[j]
  <2>1. e = Put(d, r.id, MoreSegs(d[r.id], out.segs))
    BY <1>2 DEF WithSegs, Put
  <2> HIDE DEF e
  <2> QED BY <1>1, <2>1, PutIs
<1> HIDE DEF e
<1>4. e[r.id].segs = Updated(d[r.id].segs, out.segs) /\ e[r.id].of = r.of
  <2>1. PICK s : s = out.segs
    OBVIOUS
  <2>2. MoreSegs(d[r.id], s).segs = Updated(d[r.id].segs, s) /\ MoreSegs(d[r.id], s).of = d[r.id].of
    BY <1>1, MoreSegsIs
  <2> QED BY <1>1, <1>3, <2>1, <2>2
<1>5. SegsOK(e[r.id])
  BY <1>1, <1>2, <1>4 DEF SegsOK, Updated
<1>6. \A i \in DOMAIN e : SegsOK(e[i])
  BY <1>3, <1>5 DEF LostOK
<1>7. ~out.req.error => LostOK(out.req, e)
  <2> HAVE ~out.req.error
  <2>1. \A b \in DOMAIN e[r.id].segs : b <= out.req.emitted
    <3>1. \A b \in DOMAIN d[r.id].segs : b <= out.req.emitted
      <4>1. \A b \in DOMAIN d[r.id].segs : b \in Nat /\ b <= r.emitted
        BY <1>1 DEF PairOK, DirOK, HeldOK
      <4> QED BY <1>2, <4>1
    <3> QED BY <1>2, <1>4, <3>1 DEF Updated
  <2>2. HeldOK(out.req, e[r.id])
    BY <1>1, <1>2, <1>4, <2>1 DEF HeldOK
  <2> QED BY <1>2, <1>6, <2>2 DEF LostOK
<1> QED BY <1>2, <1>4, <1>6, <1>7 DEF e, out

\* Within the first chunk of a fresh prompt memory is not looked at, and nothing is shipped.
LEMMA FewCalls ==
  ASSUME NEW c \in Nat, NEW n \in Nat, 0 < c, c < n
  PROVE  c % n # 0
<1>1. c = 0 * n + c
  BY Z3
<1>2. c % n = c
  BY <1>1, DivOnly
<1> QED BY <1>2

\* Where a fresh request stands after a layer of a chunk is through: every layer at the same place, or one layer further.
LEMMA LockOn ==
  ASSUME NoneIsApart, run # None, RunOK(run), NEW r, Lock(r, run, run.li + 1)
  PROVE  /\ Advanced = None => Even(r)
         /\ Advanced # None /\ Advanced.li = 0 => Even(r)
         /\ Advanced # None /\ Advanced.li > 0 => Lock(r, Advanced, Advanced.li)
<1>1. run.li \in Layers /\ run.li \in Nat /\ NL \in Nat /\ run.li <= NL - 1 /\ Layers = 0 .. NL - 1 /\ NL >= 1
  BY RowsAssumption DEF RunOK, Layers
<1>2. ASSUME run.li = NL - 1 PROVE Even(r)
  <2>1. 0 .. (run.li + 1) - 1 = Layers
    BY <1>1, <1>2
  <2>2. DOMAIN r.layers = Layers
    BY <2>1 DEF Lock
  <2>3. \A li \in Layers : li < run.li + 1
    BY <1>1, <1>2
  <2>4. \A li \in Layers : r.layers[li].kv.next = run.end
    BY <2>2, <2>3 DEF Lock
  <2>5. 0 \in Layers
    BY <1>1
  <2> QED BY <2>2, <2>4, <2>5 DEF Even
<1>3. \/ Answered /\ Advanced = None
      \/ ~Answered /\ run.li = NL - 1 /\ Advanced.ids = run.ids /\ Advanced.pos = run.end /\ Advanced.li = 0
      \/ ~Answered /\ run.li # NL - 1 /\ Advanced.ids = run.ids /\ Advanced.pos = run.pos
           /\ Advanced.end = run.end /\ Advanced.li = run.li + 1
  BY RunStepIs
<1>6. ~Answered => Advanced # None
  BY RunStepIs
<1>4. run.li # NL - 1 /\ Advanced.ids = run.ids /\ Advanced.pos = run.pos /\ Advanced.end = run.end /\ Advanced.li = run.li + 1
        => Lock(r, Advanced, Advanced.li)
  BY DEF Lock
<1>5. run.li + 1 # 0
  BY <1>1
<1> QED BY <1>1, <1>2, <1>3, <1>4, <1>5, <1>6 DEF Answered

LEMMA WorkLost ==
  ASSUME NoneIsApart, NL < GuardEvery, TypesInv, LostInv, Work
  PROVE  LostInv'
<1>1. PICK low, cannot : low \in BOOLEAN /\ Fill(low, cannot)
  BY DEF Work, Fill
<1> DEFINE at == WithOpen(run.li, run.ids, run.pos)
           fed == Fed(at.req, run.li, Slice(run.ids, run.pos, run.end), run.pos)
           counted == Counted(at.req, fed)
           out == Streamed(fed, counted, cannot - 1)
           e == WithSegs(at.disk, out.req.id, out.segs)
           seals == counted /\ Seals(out.req, low)
<1>2. run # None /\ RunOK(run) /\ run' = Advanced
  BY DEF TypesInv, Work
<1>3. Leaves(out.req, e, seals)
  <2>1. Ships(out, at.disk, counted, low)
    BY <1>1 DEF Fill, Ingest
  <2> HIDE DEF out
  <2> QED BY <2>1, ShipsIs
<1>4. /\ LostOK(at.req, at.disk) /\ (at.req.partial = 0 => Lock(at.req, run, run.li)) /\ Calls(at.req, run, run.li)
      /\ PairOK(at.req, at.disk) /\ at.req # None
  <2>1. PairOK(req, disk) /\ (req # None => DOMAIN req.layers # {}) /\ run.pos \in Nat
    BY <1>2 DEF TypesInv, RunOK
  <2>2. PairOK(at.req, at.disk) /\ at.req # None
    BY <2>1, OpenPair
  <2> QED BY <1>2, <2>2, OpenLost
<1> HIDE DEF at
<1>5. IsSeq(Slice(run.ids, run.pos, run.end)) /\ run.li \in Layers /\ run.pos \in Nat /\ run.li \in Nat
  BY <1>2, ChunkIs DEF Layers
<1>6. PairOK(fed, at.disk) /\ fed # None /\ DOMAIN fed.layers # {}
  <2>1. PICK x : x = Slice(run.ids, run.pos, run.end)
    OBVIOUS
  <2> QED BY <1>4, <1>5, <2>1, FedPair
<1>7. /\ LostOK(fed, at.disk) /\ fed.partial = at.req.partial /\ Calls(fed, run, run.li + 1)
      /\ counted => fed.calls > 0
      /\ at.req.partial = 0 => fed.calls > 0 /\ Lock(fed, run, run.li + 1)
  BY <1>2, <1>4, FedLost
<1> HIDE DEF fed, counted
<1>8. PairOK(out.req, e) /\ out.req # None /\ DOMAIN out.req.layers # {}
  BY <1>6, ShipPair
<1>9. /\ \A i \in DOMAIN e : SegsOK(e[i])
      /\ e[out.req.id].of = out.req.of
      /\ ~out.req.error => LostOK(out.req, e)
      /\ out.req.error => counted /\ StreamsNow(fed)
      /\ out.req.of = fed.of /\ out.req.calls = fed.calls /\ out.req.partial = fed.partial /\ out.req.stream = fed.stream
      /\ DOMAIN out.req.layers = DOMAIN fed.layers
      /\ \A li \in DOMAIN fed.layers : out.req.layers[li].kv.next = fed.layers[li].kv.next
  <2>1. PICK r, d, c, w : r = fed /\ d = at.disk /\ c = counted /\ w = cannot - 1
    OBVIOUS
  <2>2. PairOK(r, d) /\ r # None /\ DOMAIN r.layers # {} /\ LostOK(r, d)
    BY <1>6, <1>7, <2>1
  <2> DEFINE o == Streamed(r, c, w)
             f == WithSegs(d, o.req.id, o.segs)
  <2>3. /\ \A i \in DOMAIN f : SegsOK(f[i])
        /\ f[o.req.id].of = o.req.of
        /\ ~o.req.error => LostOK(o.req, f)
        /\ o.req.error => c /\ StreamsNow(r)
        /\ o.req.of = r.of /\ o.req.calls = r.calls /\ o.req.partial = r.partial /\ o.req.stream = r.stream
        /\ DOMAIN o.req.layers = DOMAIN r.layers
        /\ \A li \in DOMAIN r.layers : o.req.layers[li].kv.next = r.layers[li].kv.next
    <3>1. \A i \in DOMAIN f : SegsOK(f[i])
      BY ONLY <2>2, NoneIsApart, ShipLost
    <3>2. f[o.req.id].of = o.req.of
      BY ONLY <2>2, NoneIsApart, ShipLost
    <3>3. ~o.req.error => LostOK(o.req, f)
      BY ONLY <2>2, NoneIsApart, ShipLost
    <3>4. o.req.error => c /\ StreamsNow(r)
      BY ONLY <2>2, NoneIsApart, ShipLost
    <3>5. o.req.of = r.of /\ o.req.calls = r.calls /\ o.req.partial = r.partial /\ o.req.stream = r.stream
      BY ONLY <2>2, NoneIsApart, ShipLost
    <3>6. /\ DOMAIN o.req.layers = DOMAIN r.layers
          /\ \A li \in DOMAIN r.layers : o.req.layers[li].kv.next = r.layers[li].kv.next
      BY ONLY <2>2, NoneIsApart, ShipLost
    <3> HIDE DEF o, f
    <3> QED BY <3>1, <3>2, <3>3, <3>4, <3>5, <3>6
  <2>4. o = out /\ f = e
    BY <2>1
  <2> HIDE DEF o, f, out, e
  <2> QED BY <2>1, <2>3, <2>4
<1> HIDE DEF out, e
<1>10. /\ Calls(out.req, run, run.li + 1) /\ (counted => out.req.calls > 0)
       /\ (out.req.partial = 0 => out.req.calls > 0 /\ Lock(out.req, run, run.li + 1))
  BY <1>7, <1>9 DEF Calls, Lock
<1>11. out.req.calls \in Nat /\ NL \in Nat /\ GuardEvery \in Nat /\ Layers = 0 .. NL - 1
  BY <1>8, RowsAssumption, RowHookAssumption DEF PairOK, Held, Layers
\* in the first chunk of a prompt from its start nothing seals the request, except after its last layer
<1>12. ASSUME run.pos = 0, run.li # NL - 1 PROVE ~seals
  <2>1. run.li + 1 < NL /\ out.req.calls <= run.li + 1
    BY <1>5, <1>10, <1>11, <1>12 DEF Calls
  <2>2. counted => out.req.calls % GuardEvery # 0 /\ out.req.calls % NL # 0
    <3>1. PICK c \in Nat : c = out.req.calls
      BY <1>11
    <3>2. c < NL /\ c < GuardEvery
      BY <1>5, <1>11, <2>1, <3>1
    <3>3. counted => c > 0
      BY <1>10, <3>1
    <3>4. c > 0 => c % GuardEvery # 0 /\ c % NL # 0
      BY <1>11, <3>2, FewCalls
    <3> QED BY <3>1, <3>3, <3>4
  <2>3. counted => ~out.req.error
    BY <1>9, <2>2 DEF StreamsNow
  <2> QED BY <2>2, <2>3 DEF Seals
<1>13. CASE seals
  <2>1. Streams(out.req) /\ ~out.req.error => Fresh(out.req) /\ DOMAIN out.req.layers = Layers
    <3> HAVE Streams(out.req) /\ ~out.req.error
    <3>1. out.req.partial = 0 /\ Fresh(out.req) /\ Lock(out.req, run, run.li + 1)
      BY <1>8, <1>9, <1>10 DEF Streams, LostOK, HeldOK
    <3>2. DOMAIN out.req.layers = IF run.pos = 0 THEN 0 .. (run.li + 1) - 1 ELSE Layers
      BY <3>1 DEF Lock
    <3>3. run.li = NL - 1 => 0 .. (run.li + 1) - 1 = Layers
      BY <1>5, <1>11
    <3> QED BY <1>12, <1>13, <3>1, <3>2, <3>3
  <2>2. PICK r, d : r = out.req /\ d = e
    OBVIOUS
  <2>3. \A i \in DOMAIN Finished(r, d) : SegsOK(Finished(r, d)[i])
    <3>1. /\ PairOK(r, d) /\ r # None /\ DOMAIN r.layers # {} /\ (\A i \in DOMAIN d : SegsOK(d[i])) /\ d[r.id].of = r.of
          /\ (Streams(r) /\ ~r.error => Fresh(r) /\ DOMAIN r.layers = Layers)
      BY <1>8, <1>9, <2>1, <2>2
    <3> QED BY ONLY <3>1, FinishLost
  <2>4. req' = None /\ disk' = Finished(r, d)
    BY <1>3, <1>13, <2>2 DEF Leaves
  <2>5. ~(run' # None /\ run'.pos = 0 /\ run'.li > 0)
    <3> SUFFICES ASSUME run' # None, run'.pos = 0, run'.li > 0 PROVE FALSE
      OBVIOUS
    <3>1. run.li # NL - 1 /\ Advanced.pos = run.pos
      BY <1>2, RunStepIs
    <3> QED BY <1>2, <1>12, <1>13, <3>1
  <2> HIDE DEF seals
  <2> QED BY <2>3, <2>4, <2>5 DEF LostInv, LostOK
<1>14. CASE ~seals
  <2>1. req' = out.req /\ disk' = e
    BY <1>3, <1>14 DEF Leaves
  <2>2. ~out.req.error
    BY <1>9, <1>14 DEF Seals
  <2>3. LostOK(req', disk') /\ req' # None
    BY <1>8, <1>9, <2>1, <2>2
  <2>4. req'.partial = 0 => req'.calls > 0 /\ IF run' # None /\ run'.li > 0 THEN Lock(req', run', run'.li) ELSE Even(req')
    <3> HAVE req'.partial = 0
    <3>1. Lock(req', run, run.li + 1) /\ req'.calls > 0
      BY <1>10, <2>1
    <3>2. /\ Advanced = None => Even(req')
          /\ Advanced # None /\ Advanced.li = 0 => Even(req')
          /\ Advanced # None /\ Advanced.li > 0 => Lock(req', Advanced, Advanced.li)
      BY <1>2, <3>1, LockOn
    <3>3. Advanced # None => Advanced.li \in Nat
      <4>1. RunOK(Advanced)
        BY <1>2, RunStepIs
      <4> QED BY <4>1 DEF RunOK, Layers
    <3> QED BY <1>2, <3>1, <3>2, <3>3
  <2>5. run' # None /\ run'.pos = 0 /\ run'.li > 0 => req'.calls <= run'.li
    <3> SUFFICES ASSUME run' # None, run'.pos = 0, run'.li > 0 PROVE req'.calls <= run'.li
      OBVIOUS
    <3>1. run.li # NL - 1 /\ Advanced.pos = run.pos /\ Advanced.li = run.li + 1
      BY <1>2, RunStepIs
    <3> QED BY <1>2, <1>10, <2>1, <3>1 DEF Calls
  <2> QED BY <2>3, <2>4, <2>5 DEF LostInv
<1> QED BY <1>13, <1>14

LEMMA WatchLost ==
  ASSUME NoneIsApart, TypesInv, LostInv, Watch
  PROVE  LostInv'
<1>1. /\ PairOK(req, disk) /\ req # None /\ DOMAIN req.layers # {} /\ disk' = Finished(req, disk) /\ req' = None
      /\ run' = run /\ (run = None \/ run.li = 0)
  BY DEF TypesInv, Watch, Flush, Settled
<1>2. (\A i \in DOMAIN disk : SegsOK(disk[i])) /\ HeldOK(req, disk[req.id])
  BY <1>1 DEF LostInv, LostOK
<1>3. Streams(req) /\ ~req.error => Fresh(req) /\ DOMAIN req.layers = Layers
  BY <1>1, <1>2 DEF Streams, LostInv, HeldOK, Even
<1>4. \A i \in DOMAIN Finished(req, disk) : SegsOK(Finished(req, disk)[i])
  BY <1>1, <1>2, <1>3, FinishLost DEF HeldOK
<1>5. \A i \in DOMAIN disk' : SegsOK(disk'[i])
  BY <1>1, <1>4
<1> QED BY <1>1, <1>5 DEF LostInv, LostOK

\* A prompt enters the engine, or leaves it, between two chunks.
LEMMA EngineLost ==
  ASSUME TypesInv, LostInv, EngineTakes \/ EngineFails \/ OtherClient
  PROVE  LostInv'
<1>1. req' = req /\ disk' = disk
  BY DEF EngineTakes, EngineFails, OtherClient, hookVars
<1>2. ASSUME run' = None \/ run'.li = 0, run = None \/ run.li = 0 PROVE LostInv'
  <2>1. ~(run # None /\ run.li > 0) /\ ~(run' # None /\ run'.li > 0)
    BY <1>2
  <2> QED BY <1>1, <2>1 DEF LostInv
<1>3. CASE EngineTakes
  <2>1. front.ids \in Prompts
    BY <1>3 DEF EngineTakes, TypesInv, FrontOK
  <2> QED BY <1>2, <1>3, <2>1, PostRun DEF EngineTakes
<1>4. CASE EngineFails
  BY <1>1, <1>2, <1>4 DEF EngineFails, LostInv
<1>5. CASE OtherClient
  BY <1>2, <1>5, PostRun, RowBridgeAssumption DEF OtherClient
<1> QED BY <1>3, <1>4, <1>5

LEMMA LostNext ==
  ASSUME NoneIsApart, NL < GuardEvery, TypesInv, LostInv, [RowNext]_rowVars
  PROVE  LostInv'
<1>1. CASE FrontDoor
  <2>1. UNCHANGED <<req, disk, run>>
    BY <1>1 DEF FrontDoor, AskPooled, AskStream, Asks, Scan, Pick, PullSegment, SeeDone, StreamEnds, WaitDone, PullAndAssemble,
      hookVars
  <2> QED BY <2>1 DEF LostInv
<1>2. CASE Pair
  <2>1. MarkerAges => UNCHANGED <<req, disk, run>>
    BY DEF MarkerAges
  <2>2. MarkerAges => LostInv'
    BY <2>1 DEF LostInv
  <2> QED BY <1>2, <2>2, WorkLost, EngineLost, WatchLost DEF Pair
<1>3. CASE UNCHANGED rowVars
  BY <1>3 DEF rowVars, hookVars, bridgeVars, LostInv
<1> QED BY <1>1, <1>2, <1>3 DEF RowNext

LEMMA LostInit ==
  RowInit => LostInv
BY DEF RowInit, HookInit, LostInv, LostOK

\* Nothing is lost on the way of a streamed capture: what a streaming request has shipped and what it still holds are
\* together the rows it was fed, whatever the chunks, the clients in between, the failures of the disk and the memory, if
\* more ingests lie between two looks at the free memory than a chunk has layers (NothingIsLost).
THEOREM NothingIsEverLost ==
  ASSUME NoneIsApart, NL < GuardEvery
  PROVE  RowSpec => []NothingIsLost
<1>1. TypesInv /\ LostInv /\ [RowNext]_rowVars => LostInv'
  BY LostNext
<1>2. RowInit => LostInv
  BY LostInit
<1>3. RowSpec => []TypesInv
  BY TypesAlways
<1>4. LostInv => NothingIsLost
  BY LostIsLost
<1> QED BY <1>1, <1>2, <1>3, <1>4, PTL DEF RowSpec

-----------------------------------------------------------------------------
(* Layer files, and the blocks made of them *)

\* what a layer file says of the end of the capture, with T0 the end of the one it goes on from
Ends(li, p, T0, N, T) ==
  LET tail == Slice(p, Lo(N, T0, TailRaw + Keep), N)
      rem == T % Ratio(Kind[li])
      n == Size(tail)
  IN  [kv |-> LastRows(Slice(p, Lo(N, T0, Win + Keep), N), Win),
       buf |-> IF n >= rem THEN Slice(tail, n - rem, n) ELSE tail,
       end |-> IF Kind[li] = "c4" /\ n >= rem + R4 THEN Slice(tail, n - rem - R4, n - rem) ELSE <<>>]
TrueEnds(li, p, T) ==
  LET rem == T % Ratio(Kind[li])
  IN  [kv |-> TrueWindow(p, T), buf |-> Slice(p, T - rem, T),
       end |-> IF Kind[li] = "c4" /\ T >= R4 + rem THEN TruePrev(Kind[li], p, T - rem) ELSE <<>>]

\* a layer file that has the rows in (from, N], and ends so
Windows(p, from, N) == [b \in Boundaries(from, N) |-> TrueWindow(p, b)]
Prevs(kind, p, from, N) == [b \in IF kind = "c4" THEN Boundaries(from, N) ELSE {} |-> TruePrev(kind, p, b)]
PoolWith(kind, p, from, N, ends) ==
  [pooled |-> PooledFrom(kind, p, from, N), tailKey |-> FALSE, prev |-> Prevs(kind, p, from, N), buf |-> ends.buf, end |-> ends.end]
FileWith(li, p, from, N, ends) ==
  [kv |-> [win |-> Windows(p, from, N), end |-> ends.kv],
   pools |-> [k \in PoolsOf(li) |-> PoolWith(Kind[li], p, from, N, ends)]]

\* The file of a layer that lacks nothing.
LEMMA FileIs ==
  ASSUME NEW li, NEW p, NEW from, NEW T0, NEW N, NEW T
  PROVE  LayerFile(TrueLayer(li, p, from, 0, T0, N), li, T, FALSE) = FileWith(li, p, from, N, Ends(li, p, T0, N, T))
<1> DEFINE kv == TrueKv(p, from, T0, N)
           st == TruePool(Kind[li], p, from, 0, T0, N)
           ends == Ends(li, p, T0, N, T)
<1>1. KvExport(kv) = [win |-> Windows(p, from, N), end |-> ends.kv]
  BY DEF KvExport, TrueKv, Windows, Ends
<1>2. PoolExport(Kind[li], st, T, FALSE) = PoolWith(Kind[li], p, from, N, ends)
  BY DEF PoolExport, TruePool, PoolWith, Prevs, Ends, Size
<1> HIDE DEF kv, st, ends
<1>3. TrueLayer(li, p, from, 0, T0, N) = [kv |-> kv, pools |-> [k \in PoolsOf(li) |-> st]]
  BY DEF TrueLayer, kv, st
<1>4. LayerFile(TrueLayer(li, p, from, 0, T0, N), li, T, FALSE)
        = [kv |-> KvExport(kv), pools |-> [k \in PoolsOf(li) |-> PoolExport(Kind[li], st, T, FALSE)]]
  <2>1. PICK layer : layer = TrueLayer(li, p, from, 0, T0, N)
    OBVIOUS
  <2>2. layer.kv = kv /\ DOMAIN layer.pools = PoolsOf(li) /\ \A k \in PoolsOf(li) : layer.pools[k] = st
    BY <1>3, <2>1
  <2>3. [k \in DOMAIN layer.pools |-> PoolExport(Kind[li], layer.pools[k], T, FALSE)]
          = [k \in PoolsOf(li) |-> PoolExport(Kind[li], st, T, FALSE)]
    BY <2>2
  <2>4. LayerFile(layer, li, T, FALSE)
          = [kv |-> KvExport(layer.kv), pools |-> [k \in DOMAIN layer.pools |-> PoolExport(Kind[li], layer.pools[k], T, FALSE)]]
    BY DEF LayerFile
  <2> QED BY <2>1, <2>2, <2>3, <2>4
<1> QED BY <1>1, <1>2, <1>4 DEF FileWith, ends

\* A layer that has reached the end says the truth about it.
LEMMA EndsTrue ==
  ASSUME NEW li, NEW p, IsSeq(p), NEW T0 \in Nat, NEW T \in Nat, T0 <= T, T <= Size(p)
  PROVE  Ends(li, p, T0, T, T) = TrueEnds(li, p, T)
<1> DEFINE rem == T % Ratio(Kind[li])
<1>1. PICK w \in Nat : w = TailRaw + Keep /\ w >= 2 * R4 - 1 /\ w >= Ratio(Kind[li]) - 1
  BY Sizes, RatioIs
<1>2. PICK m \in Nat : m = rem /\ m <= T /\ m < Ratio(Kind[li])
  BY RatioIs, DivMod
<1>3. PICK lo \in Nat : lo = Lo(T, T0, w) /\ lo <= T /\ (T - lo = w \/ lo = 0)
  BY DEF Lo
<1>4. Size(p) \in Nat
  BY SizeIs
<1>5. PICK tail : tail = Slice(p, lo, T) /\ Size(tail) = T - lo
  BY <1>3, <1>4, SliceIs
<1>6. Size(tail) >= m /\ Slice(tail, Size(tail) - m, Size(tail)) = Slice(p, T - m, T)
  <2>1. Size(tail) >= m
    BY <1>1, <1>2, <1>3, <1>5, RatioIs
  <2>2. PICK c, e \in Nat : c = (T - lo) - m /\ e = T - lo /\ lo + c = T - m /\ lo + e = T /\ c <= e
    <3>1. (T - lo) - m \in Nat /\ T - lo \in Nat
      BY <1>3, <1>5, <2>1
    <3> QED BY <3>1
  <2>3. Slice(Slice(p, lo, T), c, e) = Slice(p, lo + c, lo + e)
    BY <1>3, <1>4, <2>2, SliceOfSlice
  <2> QED BY <1>5, <2>1, <2>2, <2>3
<1>7. Kind[li] = "c4" => (Size(tail) >= m + R4 <=> T >= R4 + m)
  BY <1>1, <1>2, <1>3, <1>5, Sizes DEF Ratio
<1>8. Kind[li] = "c4" /\ T >= R4 + m => Slice(tail, Size(tail) - m - R4, Size(tail) - m) = TruePrev(Kind[li], p, T - m)
  <2> HAVE Kind[li] = "c4" /\ T >= R4 + m
  <2>1. Size(tail) >= m + R4 /\ R4 \in Nat
    BY <1>7, Sizes
  <2>2. PICK c, e \in Nat : c = (T - lo) - m - R4 /\ e = (T - lo) - m /\ lo + c = T - m - R4 /\ lo + e = T - m /\ c <= e /\ e <= T - lo
    <3>1. (T - lo) - m - R4 \in Nat /\ (T - lo) - m \in Nat
      BY <1>3, <1>5, <2>1
    <3> QED BY <2>1, <3>1
  <2>3. Slice(Slice(p, lo, T), c, e) = Slice(p, lo + c, lo + e)
    BY <1>3, <1>4, <2>2, SliceOfSlice
  <2>4. TruePrev(Kind[li], p, T - m) = Slice(p, T - m - R4, T - m)
    BY DEF TruePrev
  <2> QED BY <1>5, <2>1, <2>2, <2>3, <2>4
<1>9. LastRows(Slice(p, Lo(T, T0, Win + Keep), T), Win) = TrueWindow(p, T)
  <2>1. PICK v \in Nat : v = Win + Keep /\ v >= Win
    BY Sizes
  <2>2. PICK l \in Nat : l = Lo(T, T0, v) /\ l <= T /\ l = IF T > v THEN T - v ELSE 0
    BY DEF Lo
  <2>3. IsSeq(Slice(p, l, T)) /\ Size(Slice(p, l, T)) = T - l
    BY <1>4, <2>2, SliceIs
  <2>4. Win \in Nat
    BY Sizes
  <2>5. CASE T - l <= Win
    <3>1. LastRows(Slice(p, l, T), Win) = Slice(p, l, T)
      BY <2>3, <2>4, <2>5, LastAll
    <3>2. l = IF T >= Win THEN T - Win ELSE 0
      BY <2>1, <2>2, <2>4, <2>5
    <3> QED BY <2>1, <2>2, <3>1, <3>2 DEF TrueWindow
  <2>6. CASE ~(T - l <= Win)
    <3>1. LastRows(Slice(p, l, T), Win) = Slice(p, T - Win, T)
      BY <1>4, <2>2, <2>4, <2>6, LastOfSlice
    <3>2. T >= Win
      BY <2>2, <2>4, <2>6
    <3> QED BY <2>1, <2>2, <3>1, <3>2 DEF TrueWindow
  <2> QED BY <2>5, <2>6
<1>10. Ends(li, p, T0, T, T) =
         [kv |-> LastRows(Slice(p, Lo(T, T0, Win + Keep), T), Win),
          buf |-> IF Size(tail) >= m THEN Slice(tail, Size(tail) - m, Size(tail)) ELSE tail,
          end |-> IF Kind[li] = "c4" /\ Size(tail) >= m + R4 THEN Slice(tail, Size(tail) - m - R4, Size(tail) - m) ELSE <<>>]
  BY <1>1, <1>2, <1>3, <1>5 DEF Ends
<1>11. TrueEnds(li, p, T) =
         [kv |-> TrueWindow(p, T), buf |-> Slice(p, T - m, T),
          end |-> IF Kind[li] = "c4" /\ T >= R4 + m THEN TruePrev(Kind[li], p, T - m) ELSE <<>>]
  BY <1>2 DEF TrueEnds
<1>12. CASE Kind[li] = "c4" /\ T >= R4 + m
  BY <1>6, <1>7, <1>8, <1>9, <1>10, <1>11, <1>12
<1>13. CASE ~(Kind[li] = "c4" /\ T >= R4 + m)
  BY <1>6, <1>7, <1>9, <1>10, <1>11, <1>13
<1> QED BY <1>12, <1>13

\* All pooled rows from the first on.
LEMMA PooledAll ==
  ASSUME NEW kind, NEW p, NEW N \in Nat
  PROVE  PooledFrom(kind, p, 0, N) = TruePooled(kind, p, N \div Ratio(kind)) /\ 0 \div Ratio(kind) = 0
<1>1. PICK r \in Nat : r = Ratio(kind) /\ r >= 1
  BY RatioIs
<1>2. 0 \div r = 0
  <2>1. 0 = 0 * r + 0
    BY Z3
  <2> QED BY <1>1, <2>1, DivOnly
<1>3. PICK q \in Nat : q = N \div r
  BY <1>1, DivMod
<1>4. IsSeq(TruePooled(kind, p, q)) /\ Size(TruePooled(kind, p, q)) = q
  BY PooledIs
<1>5. Slice(TruePooled(kind, p, q), 0, q) = TruePooled(kind, p, q)
  BY <1>4, SliceEnds
<1> QED BY <1>1, <1>2, <1>3, <1>5 DEF PooledFrom

LEMMA TrueFileIs ==
  ASSUME NEW li, NEW p, NEW T \in Nat
  PROVE  TrueFile(p, T, li) = FileWith(li, p, 0, T, TrueEnds(li, p, T))
BY PooledAll DEF TrueFile, FileWith, TrueEnds, Windows, Prevs, PoolWith
\* A file of the rows up to M, of a prompt that agrees with p up to S, and a file of those in (S, N], joined.
LEMMA MergedIs ==
  ASSUME NEW li \in Layers, NEW q, NEW p, IsSeq(q), IsSeq(p), NEW S \in Nat, NEW M \in Nat, NEW N \in Nat, S <= M, S <= N,
         S <= Size(q), S <= Size(p), Agree(q, p, S), NEW e0, NEW e
  PROVE  LET par == FileWith(li, q, 0, M, e0)
             new == FileWith(li, p, S, N, e)
         IN  [kv |-> MergeKv(par.kv, new.kv, S),
              pools |-> [k \in DOMAIN new.pools |-> MergePool(Kind[li], par.pools[k], new.pools[k], S)]] = FileWith(li, p, 0, N, e)
<1> DEFINE par == FileWith(li, q, 0, M, e0)
           new == FileWith(li, p, S, N, e)
           kind == Kind[li]
<1>1. \A b \in Boundaries(0, M) : b <= S => TrueWindow(q, b) = TrueWindow(p, b) /\ TruePrev(kind, q, b) = TruePrev(kind, p, b)
  <2> TAKE b \in Boundaries(0, M)
  <2> HAVE b <= S
  <2>1. b \in Nat /\ R4 <= b
    BY BoundaryIs, BlockRoom
  <2> QED BY <2>1, AgreeWindow
<1>2. {b \in Boundaries(0, M) : b <= S} \cup {b \in Boundaries(S, N) : b > S} = Boundaries(0, N)
  BY BoundaryIs
<1>4. MergeKv(par.kv, new.kv, S).win = Windows(p, 0, N)
  <2> DEFINE f == [b \in {b \in Boundaries(0, M) : b <= S} |-> TrueWindow(q, b)]
             g == [b \in {b \in Boundaries(S, N) : b > S} |-> TrueWindow(p, b)]
             h == Windows(p, 0, N)
  <2>1. IsFun(h) /\ DOMAIN h = DOMAIN f \cup DOMAIN g
    BY <1>2 DEF Windows, IsFun
  <2>2. \A x \in DOMAIN g : h[x] = g[x]
    BY <1>2 DEF Windows
  <2>3. \A x \in DOMAIN f : x \notin DOMAIN g => h[x] = f[x]
    BY <1>1, <1>2 DEF Windows
  <2>4. par.kv.win = [b \in Boundaries(0, M) |-> TrueWindow(q, b)] /\ new.kv.win = [b \in Boundaries(S, N) |-> TrueWindow(p, b)]
    BY DEF FileWith, Windows
  <2>5. f = [b \in {b \in DOMAIN par.kv.win : b <= S} |-> par.kv.win[b]] /\ g = [b \in {b \in DOMAIN new.kv.win : b > S} |-> new.kv.win[b]]
    <3> HIDE DEF par, new
    <3> QED BY <2>4
  <2> HIDE DEF f, g, h, par, new
  <2>6. Updated(f, g) = h
    BY <2>1, <2>2, <2>3, UpdatedIs
  <2> QED BY <2>5, <2>6 DEF MergeKv, h
<1>5. MergeKv(par.kv, new.kv, S) = [win |-> Windows(p, 0, N), end |-> e.kv]
  <2>1. new.kv.end = e.kv
    BY DEF FileWith
  <2> QED BY <1>4, <2>1 DEF MergeKv
<1>6. ASSUME NEW k \in PoolsOf(li) PROVE MergePool(kind, par.pools[k], new.pools[k], S) = PoolWith(kind, p, 0, N, e)
  <2>1. PICK a, c : a = PoolWith(kind, q, 0, M, e0) /\ c = PoolWith(kind, p, S, N, e) /\ a = par.pools[k] /\ c = new.pools[k]
    BY DEF FileWith
  <2> DEFINE BA == IF kind = "c4" THEN Boundaries(0, M) ELSE {}
             BC == IF kind = "c4" THEN Boundaries(S, N) ELSE {}
             f == [b \in {b \in BA : b <= S} |-> TruePrev(kind, q, b)]
             g == [b \in {b \in BC : b > S} |-> TruePrev(kind, p, b)]
             h == Prevs(kind, p, 0, N)
  <2>2. a.prev = [b \in BA |-> TruePrev(kind, q, b)] /\ c.prev = [b \in BC |-> TruePrev(kind, p, b)]
    BY <2>1 DEF PoolWith, Prevs
  <2>3. Updated(f, g) = h
    <3>1. IsFun(h) /\ DOMAIN h = DOMAIN f \cup DOMAIN g
      BY <1>2 DEF Prevs, IsFun
    <3>2. \A x \in DOMAIN g : h[x] = g[x]
      BY <1>2 DEF Prevs
    <3>3. \A x \in DOMAIN f : x \notin DOMAIN g => h[x] = f[x]
      BY <1>1, <1>2 DEF Prevs
    <3> HIDE DEF f, g, h
    <3> QED BY <3>1, <3>2, <3>3, UpdatedIs
  <2>4. Updated([b \in {b \in DOMAIN a.prev : b <= S} |-> a.prev[b]], [b \in {b \in DOMAIN c.prev : b > S} |-> c.prev[b]]) = h
    <3>1. f = [b \in {b \in DOMAIN a.prev : b <= S} |-> a.prev[b]] /\ g = [b \in {b \in DOMAIN c.prev : b > S} |-> c.prev[b]]
      <4> HIDE DEF BA, BC
      <4> QED BY <2>2
    <3> HIDE DEF f, g, h
    <3> QED BY <2>3, <3>1
  <2>5. Join(Slice(a.pooled, 0, S \div Ratio(kind)), c.pooled) = PooledFrom(kind, p, 0, N)
    <3>1. a.pooled = PooledFrom(kind, q, 0, M) /\ c.pooled = PooledFrom(kind, p, S, N)
      BY <2>1 DEF PoolWith
    <3>2. S \div Ratio(kind) \in Nat /\ 0 \div Ratio(kind) = 0
      BY RatioIs, DivMod, PooledAll
    <3>3. Slice(PooledFrom(kind, q, 0, M), (0 \div Ratio(kind)) - (0 \div Ratio(kind)), (S \div Ratio(kind)) - (0 \div Ratio(kind)))
            = PooledFrom(kind, q, 0, S)
      BY PooledPart
    <3>4. PooledFrom(kind, q, 0, S) = PooledFrom(kind, p, 0, S)
      BY AgreePooled, PooledAll
    <3>5. Join(PooledFrom(kind, p, 0, S), PooledFrom(kind, p, S, N)) = PooledFrom(kind, p, 0, N)
      BY PooledJoin
    <3>6. (0 \div Ratio(kind)) - (0 \div Ratio(kind)) = 0 /\ (S \div Ratio(kind)) - (0 \div Ratio(kind)) = S \div Ratio(kind)
      BY <3>2
    <3> QED BY <3>1, <3>3, <3>4, <3>5, <3>6
  <2>6. c.tailKey = FALSE /\ c.buf = e.buf /\ c.end = e.end
    BY <2>1 DEF PoolWith
  <2> HIDE DEF h
  <2>7. MergePool(kind, a, c, S) = [pooled |-> PooledFrom(kind, p, 0, N), tailKey |-> FALSE, prev |-> h, buf |-> e.buf, end |-> e.end]
    BY <2>4, <2>5, <2>6 DEF MergePool, Join
  <2> QED BY <2>1, <2>7 DEF PoolWith, h
<1>7. DOMAIN new.pools = PoolsOf(li)
  BY DEF FileWith
<1> HIDE DEF par, new
<1>8. [k \in DOMAIN new.pools |-> MergePool(kind, par.pools[k], new.pools[k], S)] = [k \in PoolsOf(li) |-> PoolWith(kind, p, 0, N, e)]
  BY <1>6, <1>7
<1> QED BY <1>5, <1>8 DEF FileWith, par, new

\* The state of the decoder at a boundary, made of a file that has the rows up to N.
LEMMA BlockAt ==
  ASSUME NEW li \in Layers, NEW p, NEW N \in Nat, NEW e, NEW b, HasLayer(FileWith(li, p, 0, N, e), li, b)
  PROVE  LayerAt(FileWith(li, p, 0, N, e), li, b) = TrueBlock(p, b)[li]
<1> DEFINE file == FileWith(li, p, 0, N, e)
           kind == Kind[li]
<1>1. b \in Boundaries(0, N) /\ b \in Nat /\ b <= N
  BY BoundaryIs DEF HasLayer, FileWith, Windows
<1>2. file.kv.win[b] = TrueWindow(p, b)
  BY <1>1 DEF FileWith, Windows
<1>3. ASSUME NEW k \in PoolsOf(li)
      PROVE  /\ Slice(file.pools[k].pooled, 0, b \div Ratio(kind)) = TruePooled(kind, p, b \div Ratio(kind))
             /\ (IF kind = "c4" THEN file.pools[k].prev[b] ELSE <<>>) = TruePrev(kind, p, b)
  <2>1. file.pools[k] = PoolWith(kind, p, 0, N, e)
    BY DEF FileWith
  <2>2. file.pools[k].pooled = PooledFrom(kind, p, 0, N) /\ file.pools[k].prev = Prevs(kind, p, 0, N)
    BY <2>1 DEF PoolWith
  <2>3. Slice(PooledFrom(kind, p, 0, N), (0 \div Ratio(kind)) - (0 \div Ratio(kind)), (b \div Ratio(kind)) - (0 \div Ratio(kind)))
          = PooledFrom(kind, p, 0, b)
    BY <1>1, PooledPart
  <2>4. (0 \div Ratio(kind)) - (0 \div Ratio(kind)) = 0 /\ (b \div Ratio(kind)) - (0 \div Ratio(kind)) = b \div Ratio(kind)
    BY <1>1, RatioIs, DivMod, PooledAll
  <2>5. PooledFrom(kind, p, 0, b) = TruePooled(kind, p, b \div Ratio(kind))
    BY <1>1, PooledAll
  <2>6. (IF kind = "c4" THEN Prevs(kind, p, 0, N)[b] ELSE <<>>) = TruePrev(kind, p, b)
    BY <1>1 DEF Prevs, TruePrev
  <2> QED BY <2>2, <2>3, <2>4, <2>5, <2>6
<1> HIDE DEF file
<1>4. LayerAt(file, li, b) =
        [win |-> TrueWindow(p, b),
         pools |-> [k \in PoolsOf(li) |-> [rows |-> TruePooled(kind, p, b \div Ratio(kind)), prev |-> TruePrev(kind, p, b)]]]
  BY <1>2, <1>3 DEF LayerAt
<1> QED BY <1>4 DEF TrueBlock, file

\* A segment behind the block before it.
LEMMA GrownIs ==
  ASSUME NEW p, NEW b \in Nat, b % Block = 0, b >= Block,
         b # Block => stored.blocks[b - Block] = TrueBlock(p, b - Block)
  PROVE  Grown(b, TrueSegment(p, b)) = TrueBlock(p, b)
<1>1. PICK B \in Nat : B = Block /\ B >= 1 /\ b - B \in Nat /\ b - B <= b
  BY Sizes
<1>2. ASSUME NEW li \in Layers, NEW k \in PoolsOf(li)
      PROVE  Join(IF b = Block THEN <<>> ELSE stored.blocks[b - Block][li].pools[k].rows, TrueSegment(p, b)[li].pools[k].rows)
               = TruePooled(Kind[li], p, b \div Ratio(Kind[li]))
  <2> DEFINE kind == Kind[li]
             before == IF b = Block THEN <<>> ELSE stored.blocks[b - Block][li].pools[k].rows
             more == TrueSegment(p, b)[li].pools[k].rows
  <2>1. before = PooledFrom(kind, p, 0, b - B)
    <3>1. CASE b = Block
      <4>1. b - B = 0
        BY <1>1, <3>1
      <4>2. PooledFrom(kind, p, 0, 0) = TruePooled(kind, p, 0)
        BY PooledAll
      <4>3. TruePooled(kind, p, 0) = <<>>
        BY DEF TruePooled
      <4> QED BY <3>1, <4>1, <4>2, <4>3
    <3>2. CASE b # Block
      <4>1. before = TruePooled(kind, p, (b - B) \div Ratio(kind))
        BY <1>1, <3>2 DEF TrueBlock
      <4> QED BY <1>1, <4>1, PooledAll
    <3> QED BY <3>1, <3>2
  <2>2. more = PooledFrom(kind, p, b - B, b)
    BY <1>1 DEF TrueSegment, PooledFrom
  <2> HIDE DEF before, more
  <2>3. Join(PooledFrom(kind, p, 0, b - B), PooledFrom(kind, p, b - B, b)) = PooledFrom(kind, p, 0, b)
    BY <1>1, PooledJoin
  <2>4. PooledFrom(kind, p, 0, b) = TruePooled(kind, p, b \div Ratio(kind))
    BY PooledAll
  <2>5. Join(before, more) = TruePooled(Kind[li], p, b \div Ratio(Kind[li]))
    BY <2>1, <2>2, <2>3, <2>4
  <2> QED BY <2>5 DEF before, more
<1>3. \A li \in Layers : /\ TrueSegment(p, b)[li].win = TrueWindow(p, b)
                         /\ \A k \in PoolsOf(li) : TrueSegment(p, b)[li].pools[k].prev = TruePrev(Kind[li], p, b)
  BY DEF TrueSegment
<1>4. PICK seg : seg = TrueSegment(p, b)
  OBVIOUS
<1>5. \A li \in Layers : \A k \in PoolsOf(li) :
        (IF b = Block THEN <<>> ELSE stored.blocks[b - Block][li].pools[k].rows) \o seg[li].pools[k].rows
          = TruePooled(Kind[li], p, b \div Ratio(Kind[li]))
  BY <1>2, <1>4 DEF Join
<1> QED BY <1>3, <1>4, <1>5 DEF Grown, TrueBlock
-----------------------------------------------------------------------------
(* The saved states *)

\* The tails that are saved of a layer that lacks nothing: all of them if it has reached the end, else none.
LEMMA EndRowsIs ==
  ASSUME NEW li \in Layers, NEW p, NEW from, NEW T0 \in Nat, NEW N \in Nat, NEW T \in Nat
  PROVE  LET rows == EndRows(TrueLayer(li, p, from, 0, T0, N), T)
         IN  /\ N = T /\ T0 <= T => rows = TrueRows(p, li, T, T)
             /\ N # T => DOMAIN rows = {}
<1>1. PICK layer : layer = TrueLayer(li, p, from, 0, T0, N)
  OBVIOUS
<1>2. layer.kv = TrueKv(p, from, T0, N) /\ layer.pools = [k \in PoolsOf(li) |-> TruePool(Kind[li], p, from, 0, T0, N)]
  BY <1>1 DEF TrueLayer
<1>3. layer.kv.next = N /\ layer.kv.tail = Slice(p, Lo(N, T0, Win + Keep), N)
  BY <1>2 DEF TrueKv
<1>4. DOMAIN layer.pools = PoolsOf(li)
      /\ \A k \in PoolsOf(li) : layer.pools[k].next = N /\ layer.pools[k].tail = Slice(p, Lo(N, T0, TailRaw + Keep), N)
  BY <1>2 DEF TruePool
<1>5. CASE N = T /\ T0 <= T
  <2>1. (IF layer.kv.next = T THEN {"kv"} ELSE {}) \cup {k \in DOMAIN layer.pools : layer.pools[k].next = T} = KindsOf(li)
    BY <1>3, <1>4, <1>5 DEF KindsOf
  <2>2. \A w \in Nat : Lo(N, T0, w) = Lo(T, T, w)
    BY <1>5 DEF Lo
  <2>3. ASSUME NEW k \in KindsOf(li)
        PROVE  (IF k = "kv" THEN layer.kv.tail ELSE layer.pools[k].tail) = Slice(p, Lo(T, T, TailOf(k)), T)
    <3>1. CASE k = "kv"
      <4>1. Lo(N, T0, Win + Keep) = Lo(T, T, Win + Keep)
        BY <2>2, Sizes
      <4> QED BY <1>3, <1>5, <3>1, <4>1 DEF TailOf
    <3>2. CASE k # "kv"
      <4>1. Lo(N, T0, TailRaw + Keep) = Lo(T, T, TailRaw + Keep)
        BY <2>2, Sizes
      <4> QED BY <1>4, <1>5, <3>2, <4>1 DEF TailOf, KindsOf
    <3> QED BY <3>1, <3>2
  <2>4. EndRows(layer, T) = [k \in KindsOf(li) |-> IF k = "kv" THEN layer.kv.tail ELSE layer.pools[k].tail]
    BY <2>1 DEF EndRows
  <2>5. EndRows(layer, T) = TrueRows(p, li, T, T)
    BY <2>3, <2>4 DEF TrueRows
  <2> QED BY <1>1, <1>5, <2>5
<1>6. CASE N # T
  <2>1. DOMAIN EndRows(layer, T) = {}
    BY <1>3, <1>4, <1>6 DEF EndRows
  <2> QED BY <1>1, <1>6, <2>1
<1> QED BY <1>5, <1>6

LEMMA AgreeRows ==
  ASSUME NEW p, NEW q, IsSeq(p), IsSeq(q), NEW li, NEW T \in Nat, NEW S \in Nat, T <= S + Keep, S <= Size(p), S <= Size(q),
         Agree(p, q, S)
  PROVE  TrueRows(p, li, T, S) = TrueRows(q, li, T, S)
<1>1. ASSUME NEW k \in KindsOf(li) PROVE Slice(p, Lo(S, T, TailOf(k)), S) = Slice(q, Lo(S, T, TailOf(k)), S)
  <2>1. PICK w \in Nat : w = TailOf(k) /\ T <= S + w
    BY TailIs, Sizes
  <2>2. Lo(S, T, w) \in Nat /\ Lo(S, T, w) <= S
    BY <2>1, LoIs
  <2> QED BY <2>1, <2>2, AgreeSlice
<1> QED BY <1>1 DEF TrueRows

\* A seed of nothing is nothing.
LEMMA CutNone ==
  ASSUME NEW rows, DOMAIN rows = {}, NEW cut
  PROVE  DOMAIN Cut(rows, cut) = {}
BY DEF Cut

\* what is known of the states that can be seen: those of the directories, and those pushed to the pair
StatesOK(d, cp, k) ==
  /\ \A s \in cp : /\ s.stamp \in DOMAIN d /\ d[s.stamp].state # "open"
                   /\ d[s.stamp].state = "done" => s = d[s.stamp].kvstate
                   /\ k # None /\ k.stamp = s.stamp => s = k.kvstate
  /\ k # None => /\ k.stamp \in DOMAIN d /\ d[k.stamp].state # "open" /\ k.kvstate.stamp = k.stamp
                 /\ d[k.stamp].state = "done" => d[k.stamp].kvstate = k.kvstate

\* The newest state that covers a position is one of them, and if it has the stamp of the parent, it is the parent's.
LEMMA NewestIs ==
  ASSUME NEW r, NEW d, PairOK(r, d), NEW cp, NEW k, StatesOK(d, cp, k), NEW S, Covering(d, cp, S) # {}
  PROVE  LET s == Newest(Covering(d, cp, S))
         IN  /\ s \in Covering(d, cp, S) /\ S \in s.T - Keep .. s.T
             /\ k # None /\ s.stamp = k.stamp => s = k.kvstate
<1> DEFINE C == Covering(d, cp, S)
           stamps == {s.stamp : s \in C}
<1>1. Size(d) \in Nat /\ DOMAIN d = 1 .. Size(d)
  BY SizeIs DEF PairOK
<1>2. ASSUME NEW s \in C
      PROVE  s.stamp \in 1 .. Size(d) /\ (k # None /\ s.stamp = k.stamp => s = k.kvstate)
  <2>1. s \in {d[i].kvstate : i \in {i \in DOMAIN d : d[i].state = "done"}} \/ s \in cp
    BY DEF Covering, Saved
  <2>2. CASE s \in cp
    BY <1>1, <2>2 DEF StatesOK
  <2>3. CASE s \in {d[i].kvstate : i \in {i \in DOMAIN d : d[i].state = "done"}}
    <3>1. PICK i \in DOMAIN d : d[i].state = "done" /\ s = d[i].kvstate
      BY <2>3
    <3>2. s.stamp = i
      BY <3>1 DEF PairOK, DirOK
    <3> QED BY <1>1, <3>1, <3>2 DEF StatesOK
  <2> QED BY <2>1, <2>2, <2>3
<1>3. C # {}
  OBVIOUS
<1> HIDE DEF C
<1>4. stamps \in SUBSET Nat /\ stamps # {} /\ \A x \in stamps : x <= Size(d)
  BY <1>1, <1>2, <1>3
<1>5. PICK m \in stamps : \A x \in stamps : m >= x
  <2> HIDE DEF stamps
  <2> QED BY <1>1, <1>4, GreatestExists
<1>6. \E s \in C : \A t \in C : s.stamp >= t.stamp
  BY <1>5
<1>7. Newest(C) \in C
  BY <1>6 DEF Newest
<1>8. S \in Newest(C).T - Keep .. Newest(C).T
  BY <1>7 DEF C, Covering
<1> QED BY <1>2, <1>7, <1>8 DEF C
-----------------------------------------------------------------------------
(* A turn: the captures made since it began, next to its prompt p and the parent k *)

\* q is the beginning of p
Prefix(q, p) == Size(q) <= Size(p) /\ Agree(q, p, Size(q))
\* a conversation that grows: every prompt goes on from the ones before
Growing == \A i, j \in DOMAIN Turns : i <= j => Prefix(Turns[i], Turns[j])

\* a capture that goes on from the state of the parent, one that has lost its place, and a layer whose state was saved
Child(m, k) == m.partial # 0 /\ m.resume # 0 /\ k # None /\ m.parent = k.stamp
Gappy(r) == \E li \in DOMAIN r.layers : r.layers[li].kv.gaps
Seeded(k, li) == DOMAIN k.kvstate.rows[li] # {}

\* the parent is the capture of a beginning of p, made in one go, in every layer whose state was saved
ParentOK(k, p) ==
  k # None =>
    /\ IsSeq(k.of) /\ k.T = Size(k.of) /\ Prefix(k.of, p)
    /\ k.kvstate.T = k.T /\ DOMAIN k.kvstate.rows = Layers /\ DOMAIN k.files = Layers
    /\ \A li \in Layers : Seeded(k, li) => k.kvstate.rows[li] = TrueRows(k.of, li, k.T, k.T) /\ k.files[li] = TrueFile(k.of, k.T, li)

\* the request r goes on from the parent and lacks nothing
ChildOK(r, p, k) ==
  /\ r.partial <= k.T /\ k.T <= r.partial + Keep
  /\ \A li \in DOMAIN r.layers :
       LET n == r.layers[li].kv.next
       IN  Seeded(k, li) /\ r.partial <= n /\ n <= Size(p) /\ r.layers[li] = TrueLayer(li, p, r.partial, 0, k.T, n)
  /\ \A li \in Layers \ DOMAIN r.layers :
       /\ li \in DOMAIN r.seeds
       /\ IF Seeded(k, li) THEN r.seeds[li] = TrueRows(p, li, k.T, r.partial) ELSE DOMAIN r.seeds[li] = {}
ReqTurn(r, p, k) ==
  /\ r.partial = 0 => Prefix(r.of, p)
  /\ ~r.stream => r.emitted = 0
  /\ Child(r, k) => (r.calls = 0 /\ DOMAIN r.layers # {} => Gappy(r)) /\ (~Gappy(r) => ChildOK(r, p, k))

\* a layer of a finished capture that has the rows of p from `from` on, up to some N
FileOf(x, li, p, from, T0) ==
  \E N \in Nat :
    /\ from <= N /\ N <= Size(p) /\ N <= x.man.T
    /\ x.files[li] = LayerFile(TrueLayer(li, p, from, 0, T0, N), li, x.man.T, FALSE)
    /\ x.kvstate.rows[li] = EndRows(TrueLayer(li, p, from, 0, T0, N), x.man.T)
\* the layer file of a streamed capture: the windows of p, and of the pools only what follows the last segment
TailFile(file, p) ==
  (\A b \in DOMAIN file.kv.win : file.kv.win[b] = TrueWindow(p, b)) /\ (\A k \in DOMAIN file.pools : file.pools[k].tailKey)
DoneOK(x, p, k) ==
  /\ x.man.T \in Nat /\ x.man.partial \in Nat /\ x.man.resume \in {0, x.man.partial}
  /\ x.kvstate.T = x.man.T /\ DOMAIN x.kvstate.rows = DOMAIN x.files
  /\ x.man.streamed => x.man.partial = 0 /\ \A li \in DOMAIN x.files : TailFile(x.files[li], p)
  /\ x.man.partial = 0 /\ ~x.man.streamed => x.man.T <= Size(p) /\ \A li \in DOMAIN x.files : FileOf(x, li, p, 0, 0)
  /\ Child(x.man, k) /\ ~x.man.gaps =>
       /\ x.man.T <= Size(p) /\ x.man.resume <= k.T /\ k.T <= x.man.resume + Keep
       /\ \A li \in DOMAIN x.files : Seeded(k, li) /\ FileOf(x, li, p, x.man.resume, k.T)
DirTurn(x, p, k) ==
  x.state # "open" => (DOMAIN x.segs # {} => Prefix(x.of, p)) /\ (x.state = "done" => DoneOK(x, p, k))

\* the captures of the turn are those after `before`
TurnOK(r, d, p, k, before) ==
  (\A i \in DOMAIN d : i > before => DirTurn(d[i], p, k)) /\ (r # None /\ r.id > before => ReqTurn(r, p, k))

\* what a request must satisfy to be closed
SnapsTrue(r, p) ==
  \A li \in DOMAIN r.layers : \A b \in DOMAIN r.layers[li].kv.snaps : r.layers[li].kv.snaps[b] = TrueWindow(p, b)
Closable(r, x, p) ==
  /\ x.of = r.of /\ (DOMAIN x.segs # {} => r.partial = 0)
  /\ Streams(r) => SnapsTrue(r, p)
  /\ r.partial = 0 /\ ~r.stream => Fresh(r)

\* The rows and windows of the beginning of a prompt are those of the prompt.
LEMMA PrefixLayer ==
  ASSUME NEW p, IsSeq(p), NEW q, IsSeq(q), Prefix(q, p), NEW li \in Layers, NEW from \in Nat, NEW N \in Nat,
         from <= N, N <= Size(q)
  PROVE  /\ N <= Size(p)
         /\ \A sh : TrueLayer(li, q, from, sh, 0, N) = TrueLayer(li, p, from, sh, 0, N)
         /\ \A b \in Nat : b <= N => TrueWindow(q, b) = TrueWindow(p, b)
<1>1. Size(q) \in Nat /\ Size(p) \in Nat /\ N <= Size(p) /\ Agree(q, p, N)
  BY SizeIs DEF Prefix, Agree
<1>2. 0 \in Nat /\ 0 <= N + Keep
  BY Sizes
<1>3. ASSUME NEW sh PROVE TrueLayer(li, q, from, sh, 0, N) = TrueLayer(li, p, from, sh, 0, N)
  BY <1>1, <1>2, AgreeLayer
<1>4. \A b \in Nat : b <= N => TrueWindow(q, b) = TrueWindow(p, b)
  BY <1>1, AgreeWindow
<1> QED BY <1>1, <1>3, <1>4

LEMMA ClosableIs ==
  ASSUME NEW r, NEW d, PairOK(r, d), r # None, LostOK(r, d), NEW p, IsSeq(p), NEW k, ReqTurn(r, p, k)
  PROVE  Closable(r, d[r.id], p)
<1>1. /\ Held(r) /\ HeldOK(r, d[r.id]) /\ DirOK(d[r.id], r.id) /\ r.emitted \in Nat /\ DOMAIN r.layers \subseteq Layers
  BY DEF PairOK, LostOK, Held
<1>2. DOMAIN d[r.id].segs # {} => r.partial = 0
  BY <1>1 DEF HeldOK, DirOK
<1>3. Streams(r) => SnapsTrue(r, p)
  <2> HAVE Streams(r)
  <2>1. Fresh(r) /\ Prefix(r.of, p) /\ IsSeq(r.of)
    BY <1>1 DEF HeldOK, Streams, ReqTurn, Fresh
  <2> SUFFICES ASSUME NEW li \in DOMAIN r.layers, NEW b \in DOMAIN r.layers[li].kv.snaps
               PROVE  r.layers[li].kv.snaps[b] = TrueWindow(p, b)
    BY DEF SnapsTrue
  <2>2. PICK n \in Nat : r.emitted <= n /\ n <= Size(r.of) /\ r.layers[li] = TrueLayer(li, r.of, r.emitted, r.emitted, 0, n)
    BY <2>1 DEF Fresh
  <2>3. r.layers[li].kv.snaps = [c \in Boundaries(r.emitted, n) |-> TrueWindow(r.of, c)]
    BY <2>2 DEF TrueLayer, TrueKv
  <2>4. b \in Nat /\ b <= n /\ r.layers[li].kv.snaps[b] = TrueWindow(r.of, b)
    BY <1>1, <2>3, BoundaryIs
  <2>5. TrueWindow(r.of, b) = TrueWindow(p, b)
    <3>1. PICK q : q = r.of
      OBVIOUS
    <3>2. IsSeq(q) /\ Prefix(q, p) /\ li \in Layers /\ r.emitted \in Nat /\ r.emitted <= n /\ n <= Size(q)
      BY <1>1, <2>1, <2>2, <3>1
    <3>3. \A c \in Nat : c <= n => TrueWindow(q, c) = TrueWindow(p, c)
      BY ONLY IsSeq(p), <3>2, n \in Nat, PrefixLayer
    <3> QED BY <2>4, <3>1, <3>3
  <2> QED BY <2>4, <2>5
<1>4. r.partial = 0 => Fresh(r)
  BY <1>1 DEF HeldOK
<1> QED BY <1>1, <1>2, <1>3, <1>4 DEF Closable, HeldOK

\* A finished capture says of itself what the turn needs to know.
LEMMA FinishDone ==
  ASSUME NEW r, NEW d, PairOK(r, d), r # None, DOMAIN r.layers # {}, NEW p, IsSeq(p), NEW k, ReqTurn(r, p, k),
         Closable(r, d[r.id], p)
  PROVE  DirTurn(Published(d[r.id], LastOut(r).req, LastOut(r).segs, Max(Reach(r)), Streams(r)), p, k)
<1> DEFINE T == Max(Reach(r))
           last == LastOut(r)
           x == Published(d[r.id], last.req, last.segs, T, Streams(r))
<1>1. Held(r) /\ IsDir(d[r.id])
  BY DEF PairOK, DirOK
<1>2. /\ x.state = "done" /\ x.of = r.of /\ x.segs = Updated(d[r.id].segs, last.segs)
      /\ x.files = FilesOf(last.req, T, Streams(r)) /\ x.man = Manifest(last.req, T, Streams(r)) /\ x.kvstate = EndState(last.req, T)
  BY <1>1, PublishedIs DEF Closable
<1>3. /\ T \in Nat /\ T \in Reach(r) /\ Min(Reach(r)) \in Nat
      /\ \A li \in DOMAIN r.layers : r.layers[li].kv.next \in Nat /\ r.layers[li].kv.next <= T
  BY <1>1, ReachIs
<1>4. /\ DOMAIN last.req.layers = DOMAIN r.layers /\ last.req.partial = r.partial /\ last.req.resume = r.resume
      /\ last.req.parent = r.parent
      /\ \A li \in DOMAIN r.layers : last.req.layers[li].kv.gaps = r.layers[li].kv.gaps
      /\ Streams(r) => SnapsTrue(last.req, p)
      /\ DOMAIN last.segs # {} => Streams(r)
      /\ ~Streams(r) => last.req = r
  <2>1. CASE Streams(r) /\ ~r.error
    <3>1. PICK E \in Nat, w \in Nat : E = Min(Reach(r)) /\ w = T /\ last = Emitted(r, E, w)
      BY <1>3, <2>1 DEF LastOut
    <3> DEFINE e == Emitted(r, E, w)
    <3>2. /\ e.req.partial = r.partial /\ e.req.resume = r.resume /\ e.req.parent = r.parent /\ DOMAIN e.req.layers = DOMAIN r.layers
          /\ \A li \in DOMAIN r.layers : e.req.layers[li].kv = Trimmed(r.layers[li].kv, e.req.emitted)
      BY <1>1, EmittedFields
    <3> HIDE DEF e
    <3>3. ASSUME NEW li \in DOMAIN r.layers
          PROVE  /\ e.req.layers[li].kv.gaps = r.layers[li].kv.gaps
                 /\ e.req.layers[li].kv.snaps = Below(r.layers[li].kv.snaps, e.req.emitted)
      <4>1. IsKv(r.layers[li].kv)
        BY <1>1 DEF Held
      <4> QED BY <3>2, <4>1, TrimmedIs
    <3>4. SnapsTrue(e.req, p)
      <4> SUFFICES ASSUME NEW li \in DOMAIN r.layers, NEW b \in DOMAIN e.req.layers[li].kv.snaps
                   PROVE  e.req.layers[li].kv.snaps[b] = TrueWindow(p, b)
        BY <3>2 DEF SnapsTrue
      <4>1. b \in DOMAIN r.layers[li].kv.snaps /\ e.req.layers[li].kv.snaps[b] = r.layers[li].kv.snaps[b]
        BY <3>3 DEF Below
      <4> QED BY <2>1, <4>1 DEF SnapsTrue, Closable
    <3> QED BY <2>1, <3>1, <3>2, <3>3, <3>4 DEF e
  <2>2. CASE ~(Streams(r) /\ ~r.error)
    <3>1. last = [req |-> r, segs |-> Empty]
      BY <2>2 DEF LastOut
    <3>2. DOMAIN Empty = {}
      BY DEF Empty
    <3> QED BY <3>1, <3>2 DEF Closable
  <2> QED BY <2>1, <2>2
<1> HIDE DEF x, last, T
<1>5. /\ x.man.T = T /\ x.man.partial = r.partial /\ x.man.resume = r.resume /\ x.man.parent = r.parent
      /\ x.man.streamed = Streams(r) /\ (x.man.gaps <=> Gappy(r))
      /\ x.kvstate.T = T /\ x.kvstate.rows = [li \in DOMAIN r.layers |-> EndRows(last.req.layers[li], T)]
      /\ x.files = [li \in DOMAIN r.layers |-> LayerFile(last.req.layers[li], li, T, Streams(r))]
  BY <1>2, <1>4 DEF Manifest, EndState, FilesOf, Gappy
<1>6. DOMAIN x.segs # {} => Prefix(x.of, p)
  <2>1. DOMAIN x.segs = DOMAIN d[r.id].segs \cup DOMAIN last.segs
    BY <1>2 DEF Updated
  <2> QED BY <1>2, <1>4, <2>1 DEF Closable, Streams, ReqTurn
<1>7. x.man.streamed => x.man.partial = 0 /\ \A li \in DOMAIN x.files : TailFile(x.files[li], p)
  <2> HAVE x.man.streamed
  <2>1. Streams(r) /\ r.partial = 0
    BY <1>5 DEF Streams
  <2>2. ASSUME NEW li \in DOMAIN r.layers PROVE TailFile(x.files[li], p)
    <3>1. PICK layer : layer = last.req.layers[li]
      OBVIOUS
    <3>2. x.files[li] = LayerFile(layer, li, T, Streams(r))
      BY <1>5, <3>1
    <3>3. x.files[li].kv.win = layer.kv.snaps
      BY <3>2 DEF LayerFile, KvExport
    <3>4. \A pl \in DOMAIN x.files[li].pools : x.files[li].pools[pl].tailKey = Streams(r)
      BY <3>2 DEF LayerFile, PoolExport
    <3>5. \A b \in DOMAIN layer.kv.snaps : layer.kv.snaps[b] = TrueWindow(p, b)
      BY <1>4, <2>1, <3>1 DEF SnapsTrue
    <3> QED BY <2>1, <3>3, <3>4, <3>5 DEF TailFile
  <2> QED BY <1>5, <2>1, <2>2
<1>8. x.man.partial = 0 /\ ~x.man.streamed => x.man.T <= Size(p) /\ \A li \in DOMAIN x.files : FileOf(x, li, p, 0, 0)
  <2> HAVE x.man.partial = 0 /\ ~x.man.streamed
  <2>1. r.partial = 0 /\ ~Streams(r) /\ ~r.stream /\ Fresh(r) /\ r.emitted = 0 /\ Prefix(r.of, p) /\ IsSeq(r.of) /\ last.req = r
        /\ Streams(r) = FALSE
    BY <1>4, <1>5 DEF Streams, Closable, ReqTurn, Fresh
  <2>2. ASSUME NEW li \in DOMAIN r.layers
        PROVE  \E n \in Nat : n = r.layers[li].kv.next /\ n <= T /\ n <= Size(p) /\ r.layers[li] = TrueLayer(li, p, 0, 0, 0, n)
    <3>1. PICK n \in Nat : n = r.layers[li].kv.next /\ n <= Size(r.of) /\ r.layers[li] = TrueLayer(li, r.of, 0, 0, 0, n)
      BY <2>1 DEF Fresh
    <3>2. PICK q : q = r.of
      OBVIOUS
    <3>3. IsSeq(q) /\ Prefix(q, p) /\ li \in Layers /\ 0 \in Nat /\ 0 <= n /\ n <= Size(q)
      BY <1>1, <2>1, <3>1, <3>2 DEF Held
    <3>4. n <= Size(p) /\ \A sh : TrueLayer(li, q, 0, sh, 0, n) = TrueLayer(li, p, 0, sh, 0, n)
      BY ONLY IsSeq(p), <3>3, n \in Nat, PrefixLayer
    <3> QED BY <1>3, <3>1, <3>2, <3>4
  <2>3. T <= Size(p)
    <3>1. PICK li \in DOMAIN r.layers : T = r.layers[li].kv.next
      BY <1>3 DEF Reach
    <3> QED BY <2>2, <3>1
  <2>4. ASSUME NEW li \in DOMAIN r.layers PROVE FileOf(x, li, p, 0, 0)
    <3>1. PICK n \in Nat : n <= T /\ n <= Size(p) /\ r.layers[li] = TrueLayer(li, p, 0, 0, 0, n)
      BY <2>2
    <3>2. last.req.layers[li] = TrueLayer(li, p, 0, 0, 0, n)
      BY <2>1, <3>1
    <3>3. x.files[li] = LayerFile(last.req.layers[li], li, T, FALSE)
      BY <1>5, <2>1
    <3>4. x.kvstate.rows[li] = EndRows(last.req.layers[li], T)
      BY <1>5
    <3>5. /\ 0 <= n /\ n <= Size(p) /\ n <= x.man.T
          /\ x.files[li] = LayerFile(TrueLayer(li, p, 0, 0, 0, n), li, x.man.T, FALSE)
          /\ x.kvstate.rows[li] = EndRows(TrueLayer(li, p, 0, 0, 0, n), x.man.T)
      <4>1. PICK ly : ly = TrueLayer(li, p, 0, 0, 0, n) /\ ly = last.req.layers[li]
        BY <3>2
      <4>2. x.man.T = T /\ 0 <= n
        BY <1>5
      <4> QED BY ONLY <3>1, <3>3, <3>4, <4>1, <4>2
    <3> QED BY <3>5 DEF FileOf
  <2> QED BY <1>5, <2>3, <2>4
<1>9. Child(x.man, k) /\ ~x.man.gaps =>
       /\ x.man.T <= Size(p) /\ x.man.resume <= k.T /\ k.T <= x.man.resume + Keep
       /\ \A li \in DOMAIN x.files : Seeded(k, li) /\ FileOf(x, li, p, x.man.resume, k.T)
  <2> HAVE Child(x.man, k) /\ ~x.man.gaps
  <2>1. Child(r, k) /\ ~Gappy(r) /\ r.partial # 0 /\ r.resume = r.partial
    BY <1>1, <1>5 DEF Child, Held
  <2>2. ChildOK(r, p, k) /\ last.req = r /\ Streams(r) = FALSE
    BY <1>4, <2>1 DEF ReqTurn, Streams
  <2>3. T <= Size(p)
    <3>1. PICK li \in DOMAIN r.layers : T = r.layers[li].kv.next
      BY <1>3 DEF Reach
    <3> QED BY <2>2, <3>1 DEF ChildOK
  <2>4. ASSUME NEW li \in DOMAIN r.layers PROVE Seeded(k, li) /\ FileOf(x, li, p, r.partial, k.T)
    <3>1. PICK n \in Nat : n <= T /\ Seeded(k, li) /\ r.partial <= n /\ n <= Size(p) /\ r.layers[li] = TrueLayer(li, p, r.partial, 0, k.T, n)
      BY <1>3, <2>2 DEF ChildOK
    <3>2. last.req.layers[li] = TrueLayer(li, p, r.partial, 0, k.T, n)
      BY <2>2, <3>1
    <3>3. x.files[li] = LayerFile(last.req.layers[li], li, T, FALSE)
      BY <1>5, <2>2
    <3>4. x.kvstate.rows[li] = EndRows(last.req.layers[li], T)
      BY <1>5
    <3> QED BY <1>5, <3>1, <3>2, <3>3, <3>4 DEF FileOf
  <2> QED BY <1>5, <2>1, <2>2, <2>3, <2>4 DEF ChildOK
<1>10. DoneOK(x, p, k)
  <2>1. r.partial \in Nat /\ r.resume \in {0, r.partial}
    BY <1>1 DEF Held
  <2>2. DOMAIN x.kvstate.rows = DOMAIN x.files
    BY <1>5
  <2> QED BY <1>3, <1>5, <1>7, <1>8, <1>9, <2>1, <2>2 DEF DoneOK
<1> QED BY <1>6, <1>10 DEF DirTurn, x, last, T
\* Closing the open request.
LEMMA FinishTurn ==
  ASSUME NEW r, NEW d, PairOK(r, d), r # None, DOMAIN r.layers # {}, NEW p, IsSeq(p), NEW k, NEW before, TurnOK(r, d, p, k, before),
         r.id > before => Closable(r, d[r.id], p)
  PROVE  TurnOK(None, Finished(r, d), p, k, before)
<1> DEFINE f == Finished(r, d)
           x == Published(d[r.id], LastOut(r).req, LastOut(r).segs, Max(Reach(r)), Streams(r))
<1>1. Held(r) /\ IsSeq(d) /\ r.id \in DOMAIN d /\ IsDir(d[r.id])
  BY DEF PairOK, DirOK
<1>2. /\ DOMAIN f = DOMAIN d /\ \A i \in DOMAIN d : i # r.id => f[i] = d[i]
      /\ f[r.id].state \in {"gone", "done"}
      /\ f[r.id].state = "gone" => f[r.id].segs = Empty
      /\ f[r.id].state = "done" => f[r.id] = x
  BY <1>1, FinishedDirs
<1>3. r.id > before => DirTurn(x, p, k)
  <2> HAVE r.id > before
  <2>1. ReqTurn(r, p, k) /\ Closable(r, d[r.id], p)
    BY DEF TurnOK
  <2> QED BY <2>1, FinishDone
<1> HIDE DEF f, x
<1>4. r.id > before => DirTurn(f[r.id], p, k)
  <2>1. DOMAIN Empty = {}
    BY DEF Empty
  <2>2. f[r.id].state = "gone" => DirTurn(f[r.id], p, k)
    BY <1>2, <2>1 DEF DirTurn
  <2> QED BY <1>2, <1>3, <2>2
<1>5. \A i \in DOMAIN f : i > before => DirTurn(f[i], p, k)
  BY <1>2, <1>4 DEF TurnOK
<1> QED BY <1>5 DEF TurnOK, f

\* The directories later on: those that were not open are as they were, or gone.
After(d, e) ==
  /\ DOMAIN d \subseteq DOMAIN e
  /\ \A i \in DOMAIN d : d[i].state # "open" => e[i] = d[i] \/ (e[i].state = "gone" /\ DOMAIN e[i].segs = {})

LEMMA AfterAfter ==
  ASSUME NEW a, NEW b, NEW c, After(a, b), After(b, c)
  PROVE  After(a, c)
<1>1. ASSUME NEW i \in DOMAIN a, a[i].state # "open"
      PROVE  i \in DOMAIN c /\ (c[i] = a[i] \/ (c[i].state = "gone" /\ DOMAIN c[i].segs = {}))
  <2>1. i \in DOMAIN b /\ i \in DOMAIN c /\ (b[i] = a[i] \/ (b[i].state = "gone" /\ DOMAIN b[i].segs = {}))
    BY <1>1 DEF After
  <2>2. b[i].state # "open" => c[i] = b[i] \/ (c[i].state = "gone" /\ DOMAIN c[i].segs = {})
    BY <2>1 DEF After
  <2>3. CASE b[i] = a[i]
    BY <1>1, <2>1, <2>2, <2>3
  <2>4. CASE b[i].state = "gone" /\ DOMAIN b[i].segs = {}
    BY <2>1, <2>2, <2>4
  <2> QED BY <2>1, <2>3, <2>4
<1>2. DOMAIN a \subseteq DOMAIN c
  BY DEF After
<1> QED BY <1>1, <1>2 DEF After

LEMMA FinishAfter ==
  ASSUME NEW r, NEW d, PairOK(r, d), r # None, DOMAIN r.layers # {}
  PROVE  After(d, Finished(r, d))
<1>1. Held(r) /\ IsSeq(d) /\ r.id \in DOMAIN d /\ IsDir(d[r.id]) /\ d[r.id].state = "open"
  BY DEF PairOK, DirOK
<1>2. DOMAIN Finished(r, d) = DOMAIN d /\ \A i \in DOMAIN d : i # r.id => Finished(r, d)[i] = d[i]
  BY <1>1, FinishedDirs
<1> QED BY <1>1, <1>2 DEF After

LEMMA EnterAfter ==
  ASSUME NoneIsApart, NEW d, PairOK(None, d), NEW of, NEW start \in Nat
  PROVE  After(d, EntersIn(d, of, start).disk)
<1>0. PICK n : n = Size(d) + 1
  OBVIOUS
<1> DEFINE r == NewReq(n, of, start, d, copies)
           at == Enters(r, d)
<1>1. EntersIn(d, of, start) = at
  BY <1>0 DEF EntersIn, Size
<1>2. r.id = Size(d) + 1
  <2>1. r.id = n
    BY NewReqIs
  <2> QED BY <1>0, <2>1
<1>3. IsSeq(d) /\ \A i \in DOMAIN d : IsDir(d[i])
  BY DEF PairOK, DirOK
<1> HIDE DEF r
<1>4. DOMAIN at.disk = DOMAIN d \cup {r.id} /\ \A i \in DOMAIN d : at.disk[i] = d[i] \/ IsGone(at.disk[i], d[i])
  BY <1>2, <1>3, EntersDirs
<1> HIDE DEF at
<1>5. \A x, y : IsGone(x, y) => x.state = "gone" /\ DOMAIN x.segs = {}
  BY DEF IsGone, Empty
<1> QED BY <1>1, <1>4, <1>5 DEF After

\* What is known of the saved states stays.
LEMMA StatesAfter ==
  ASSUME NEW d, NEW e, NEW cp, NEW k, StatesOK(d, cp, k), After(d, e)
  PROVE  StatesOK(e, cp, k)
<1>1. ASSUME NEW i \in DOMAIN d, d[i].state # "open"
      PROVE  i \in DOMAIN e /\ e[i].state # "open" /\ (e[i].state = "done" => e[i] = d[i] /\ d[i].state = "done")
  BY <1>1 DEF After
<1> QED BY <1>1 DEF StatesOK

\* Opening a request: if it goes on from the parent, its seeds are the parent's tails, cut where it starts.
LEMMA EnterTurn ==
  ASSUME NoneIsApart, NEW d, PairOK(None, d), NEW p, IsSeq(p), NEW k, NEW before, TurnOK(None, d, p, k, before),
         StatesOK(d, copies, k), ParentOK(k, p), NEW of, Prefix(of, p), NEW start \in Nat
  PROVE  LET at == EntersIn(d, of, start)
         IN  TurnOK(at.req, at.disk, p, k, before) /\ at.req.partial = start
<1>0. PICK n : n = Size(d) + 1
  OBVIOUS
<1> DEFINE r == NewReq(n, of, start, d, copies)
           s == Newest(Covering(d, copies, start))
           at == Enters(r, d)
<1>1. EntersIn(d, of, start) = at
  BY <1>0 DEF EntersIn, Size
<1>2. /\ Held(r) /\ r.id = Size(d) + 1 /\ r.of = of /\ r.partial = start /\ r.layers = Empty /\ r.calls = 0 /\ r.emitted = 0
      /\ \/ r.resume = 0 /\ r.parent = None /\ r.seeds = Empty
         \/ /\ start # 0 /\ Covering(d, copies, start) # {} /\ r.resume = start /\ r.parent = s.stamp
            /\ DOMAIN r.seeds = DOMAIN s.rows
            /\ \A li \in DOMAIN s.rows : r.seeds[li] = Cut(s.rows[li], s.T - start)
  <2>1. /\ Held(r) /\ r.id = n /\ r.of = of /\ r.partial = start /\ r.layers = Empty /\ r.calls = 0 /\ r.emitted = 0
        /\ \/ r.resume = 0 /\ r.parent = None /\ r.seeds = Empty
           \/ /\ start # 0 /\ Covering(d, copies, start) # {} /\ r.resume = start /\ r.parent = s.stamp
              /\ DOMAIN r.seeds = DOMAIN s.rows
              /\ \A li \in DOMAIN s.rows : r.seeds[li] = Cut(s.rows[li], s.T - start)
    <3> HIDE DEF r
    <3> QED BY NewReqIs DEF r
  <2> QED BY <1>0, <2>1
<1>3. IsSeq(d) /\ \A i \in DOMAIN d : IsDir(d[i])
  BY DEF PairOK, DirOK
<1> HIDE DEF r
<1>4. /\ at.req = r /\ DOMAIN at.disk = DOMAIN d \cup {r.id}
      /\ \A i \in DOMAIN d : at.disk[i] = d[i] \/ IsGone(at.disk[i], d[i])
      /\ at.disk[r.id] = NewDir(r)
  BY <1>2, <1>3, EntersDirs
<1> HIDE DEF at
<1>5. \A i \in DOMAIN at.disk : i > before => DirTurn(at.disk[i], p, k)
  <2>1. DirTurn(NewDir(r), p, k)
    BY DEF DirTurn, NewDir
  <2>2. \A x, y : IsGone(x, y) => DirTurn(x, p, k)
    BY DEF IsGone, Empty, DirTurn
  <2> QED BY <1>4, <2>1, <2>2 DEF TurnOK
<1>6. DOMAIN r.layers = {} /\ ~Gappy(r)
  <2>1. DOMAIN r.layers = {}
    BY <1>2 DEF Empty
  <2> QED BY <2>1 DEF Gappy
<1>7. Child(r, k) => ChildOK(r, p, k)
  <2> HAVE Child(r, k)
  <2>1. /\ k # None /\ start # 0 /\ Covering(d, copies, start) # {} /\ s.stamp = k.stamp
        /\ DOMAIN r.seeds = DOMAIN s.rows
        /\ \A li \in DOMAIN s.rows : r.seeds[li] = Cut(s.rows[li], s.T - start)
    BY <1>2 DEF Child
  <2>2. s = k.kvstate /\ start \in s.T - Keep .. s.T
    <3>1. start \in s.T - Keep .. s.T /\ (k # None /\ s.stamp = k.stamp => s = k.kvstate)
      BY <2>1, NewestIs
    <3> QED BY <2>1, <3>1
  <2>3. /\ IsSeq(k.of) /\ k.T = Size(k.of) /\ Prefix(k.of, p) /\ k.kvstate.T = k.T /\ DOMAIN k.kvstate.rows = Layers
        /\ \A li \in Layers : Seeded(k, li) => k.kvstate.rows[li] = TrueRows(k.of, li, k.T, k.T)
    BY <2>1 DEF ParentOK
  <2> HIDE DEF s
  <2>4. PICK T \in Nat : T = k.T /\ s.T = T /\ T = Size(k.of) /\ T <= Size(p) /\ Agree(k.of, p, T)
    <3>1. Size(k.of) \in Nat
      BY <2>3, SizeIs
    <3> QED BY <2>2, <2>3, <3>1 DEF Prefix
  <2>5. start <= T /\ T <= start + Keep /\ 0 < start /\ Size(p) \in Nat
    <3>1. Keep \in Nat /\ Size(p) \in Nat
      BY Sizes, SizeIs
    <3>2. T - Keep <= start /\ start <= T
      BY <2>2, <2>4, <3>1
    <3> QED BY <2>1, <2>4, <3>1, <3>2
  <2>6. ASSUME NEW li \in Layers
        PROVE  li \in DOMAIN r.seeds /\ IF Seeded(k, li) THEN r.seeds[li] = TrueRows(p, li, T, start) ELSE DOMAIN r.seeds[li] = {}
    <3>1. li \in DOMAIN r.seeds /\ r.seeds[li] = Cut(k.kvstate.rows[li], T - start)
      BY <2>1, <2>2, <2>3, <2>4
    <3>2. CASE Seeded(k, li)
      <4>1. PICK q : q = k.of
        OBVIOUS
      <4>2. k.kvstate.rows[li] = TrueRows(q, li, T, T)
        BY <2>3, <2>4, <3>2, <4>1
      <4>3. IsSeq(q) /\ T <= Size(q) /\ start <= Size(q) /\ start <= Size(p) /\ Agree(q, p, start)
        BY <2>3, <2>4, <2>5, <4>1 DEF Agree
      <4>4. Cut(TrueRows(q, li, T, T), T - start) = TrueRows(q, li, T, start)
        BY <2>5, <4>3, CutTrue
      <4>5. TrueRows(q, li, T, start) = TrueRows(p, li, T, start)
        BY ONLY IsSeq(p), <4>3, <2>5, T \in Nat, start \in Nat, AgreeRows
      <4> QED BY <3>1, <3>2, <4>2, <4>4, <4>5
    <3>3. CASE ~Seeded(k, li)
      <4>1. DOMAIN k.kvstate.rows[li] = {}
        BY <3>3 DEF Seeded
      <4>2. DOMAIN Cut(k.kvstate.rows[li], T - start) = {}
        BY <4>1, CutNone
      <4> QED BY <3>1, <3>3, <4>2
    <3> QED BY <3>2, <3>3
  <2> QED BY <1>2, <1>6, <2>4, <2>5, <2>6 DEF ChildOK
<1>8. ReqTurn(r, p, k)
  BY <1>2, <1>6, <1>7 DEF ReqTurn
<1> QED BY <1>1, <1>2, <1>4, <1>5, <1>8 DEF TurnOK
\* within the first chunk of a prompt from its start, a child that is still open has lost its place
ZeroOK(r, q, k, before) == q.pos = 0 /\ r.id > before /\ Child(r, k) => Gappy(r)

\* The rows of a fresh request that goes on are again a beginning of the prompt.
LEMMA OntoPrefix ==
  ASSUME NEW p, IsSeq(p), NEW rows, IsSeq(rows), Prefix(rows, p), NEW ids, IsSeq(ids), Prefix(ids, p),
         NEW start \in Nat, start <= Size(ids), start <= Size(rows)
  PROVE  Prefix(Onto(rows, ids, start), p)
<1>1. PICK o : o = Onto(rows, ids, start)
  OBVIOUS
<1>2. Size(o) = Size(ids) /\ Agree(o, rows, start) /\ \A i \in Nat : start < i /\ i <= Size(ids) => o[i] = ids[i]
  <2>1. /\ Size(Onto(rows, ids, start)) = Size(ids)
        /\ Agree(Onto(rows, ids, start), rows, start)
        /\ \A i \in Nat : start < i /\ i <= Size(ids) => Onto(rows, ids, start)[i] = ids[i]
    <3>1. IsSeq(rows) /\ IsSeq(ids) /\ start \in Nat /\ start <= Size(ids) /\ start <= Size(rows)
      OBVIOUS
    <3> QED BY ONLY <3>1, OntoIs
  <2> QED BY ONLY <1>1, <2>1
<1>3. Size(ids) <= Size(p) /\ Agree(ids, p, Size(ids)) /\ Agree(rows, p, Size(rows)) /\ Size(rows) \in Nat /\ Size(ids) \in Nat
  BY SizeIs DEF Prefix
<1>4. Agree(o, p, Size(ids))
  BY <1>2, <1>3 DEF Agree
<1> QED BY <1>1, <1>2, <1>3, <1>4 DEF Prefix

\* The request under other rows.
LEMMA RenameTurn ==
  ASSUME NEW r, IsReq(r), NEW p, NEW k, NEW before, ReqTurn(r, p, k), NEW of, r.partial = 0 => Prefix(of, p)
  PROVE  LET q == [r EXCEPT !.of = of]
         IN  ReqTurn(q, p, k) /\ (Gappy(q) <=> Gappy(r)) /\ (Child(q, k) <=> Child(r, k)) /\ q.id = r.id
<1>1. PICK q : q = [r EXCEPT !.of = of]
  OBVIOUS
<1>2. /\ q.of = of /\ q.id = r.id /\ q.stream = r.stream /\ q.partial = r.partial /\ q.layers = r.layers
      /\ q.calls = r.calls /\ q.resume = r.resume /\ q.parent = r.parent /\ q.seeds = r.seeds /\ q.emitted = r.emitted
  BY <1>1, RenamedIs
<1>3. (Gappy(q) <=> Gappy(r)) /\ (Child(q, k) <=> Child(r, k))
  BY <1>2 DEF Gappy, Child
<1>4. ChildOK(r, p, k) => ChildOK(q, p, k)
  BY <1>2 DEF ChildOK
<1>5. ReqTurn(q, p, k)
  BY <1>2, <1>3, <1>4 DEF ReqTurn
<1> QED BY <1>1, <1>2, <1>3, <1>5

\* Where a fresh request that goes on stands.
LEMMA StandsAt ==
  ASSUME TypesInv, LostInv, run # None, req # None, req.partial = 0, ~Closes(run.li, run.pos)
  PROVE  run.pos <= Size(req.of) /\ IsSeq(req.of)
<1>1. Fresh(req) /\ IsSeq(req.of) /\ Size(req.of) \in Nat
  <2>1. Fresh(req)
    BY DEF LostInv, LostOK, HeldOK
  <2> QED BY <2>1, SizeIs DEF Fresh
<1>2. run.pos \in Nat /\ run.end \in Nat /\ run.pos < run.end /\ run.li \in Nat
  BY DEF TypesInv, RunOK, Layers
<1>3. 0 \in Layers /\ 0 \in Nat
  BY RowsAssumption DEF Layers
<1>4. CASE run.li > 0
  <2>1. Lock(req, run, run.li)
    BY <1>4 DEF LostInv
  <2>2. CASE run.pos = 0
    BY <1>1, <2>2
  <2>3. CASE run.pos # 0
    <3>1. 0 \in DOMAIN req.layers /\ req.layers[0].kv.next = run.end
      BY <1>3, <1>4, <2>1, <2>3 DEF Lock
    <3> QED BY <1>1, <1>2, <3>1 DEF Fresh
  <2> QED BY <1>1, <2>2, <2>3
<1>5. CASE ~(run.li > 0)
  <2>1. Even(req) /\ req.calls > 0
    BY <1>5 DEF LostInv
  <2>2. 0 \in DOMAIN req.layers /\ run.pos = req.layers[0].kv.next
    BY <1>2, <1>3, <1>5, <2>1 DEF Even, Closes
  <2> QED BY <1>1, <2>2 DEF Fresh
<1> QED BY <1>4, <1>5

\* The request that takes a chunk, before it does.
LEMMA OpenTurn ==
  ASSUME NoneIsApart, TypesInv, LostInv, run # None, NEW p, IsSeq(p), Prefix(run.ids, p), NEW k, NEW before,
         TurnOK(req, disk, p, k, before), StatesOK(disk, copies, k), ParentOK(k, p),
         req # None /\ run.li > 0 => ZeroOK(req, run, k, before)
  PROVE  LET at == WithOpen(run.li, run.ids, run.pos)
         IN  TurnOK(at.req, at.disk, p, k, before) /\ ZeroOK(at.req, run, k, before)
<1> DEFINE at == WithOpen(run.li, run.ids, run.pos)
<1>1. /\ PairOK(req, disk) /\ (req # None => DOMAIN req.layers # {}) /\ LostOK(req, disk)
      /\ run.pos \in Nat /\ run.end \in Nat /\ run.pos < run.end /\ run.end <= Len(run.ids) /\ run.ids \in Prompts /\ run.li \in Nat
  BY DEF TypesInv, RunOK, LostInv, Layers
<1>2. IsSeq(run.ids) /\ Size(run.ids) = Len(run.ids) /\ run.pos <= Size(run.ids)
  <2>1. IsSeq(run.ids) /\ Size(run.ids) = Len(run.ids) /\ Len(run.ids) \in Nat
    BY <1>1, PromptIs
  <2> QED BY <1>1, <2>1
<1>3. CASE req = None
  <2>1. at = EntersIn(disk, run.ids, run.pos)
    BY <1>3, OpenIs
  <2>2. PairOK(None, disk) /\ TurnOK(None, disk, p, k, before)
    BY <1>1, <1>3
  <2> HIDE DEF at
  <2>3. TurnOK(at.req, at.disk, p, k, before) /\ at.req.partial = run.pos
    BY <1>1, <2>1, <2>2, EnterTurn
  <2> QED BY <2>3 DEF ZeroOK, Child, at
<1>4. CASE req # None /\ Closes(run.li, run.pos)
  <2>1. PICK d : d = Finished(req, disk)
    OBVIOUS
  <2>2. at = EntersIn(d, run.ids, run.pos)
    BY <1>4, <2>1, OpenIs
  <2>3. PairOK(None, d) /\ StatesOK(d, copies, k)
    BY <1>1, <1>4, <2>1, FinishPair, FinishAfter, StatesAfter
  <2>4. TurnOK(None, d, p, k, before)
    <3>1. req.id > before => Closable(req, disk[req.id], p)
      <4> HAVE req.id > before
      <4>1. ReqTurn(req, p, k)
        BY <1>4 DEF TurnOK
      <4> QED BY <1>1, <1>4, <4>1, ClosableIs
    <3> QED BY <1>1, <1>4, <2>1, <3>1, FinishTurn
  <2> HIDE DEF at
  <2>5. TurnOK(at.req, at.disk, p, k, before) /\ at.req.partial = run.pos
    BY <1>1, <2>2, <2>3, <2>4, EnterTurn
  <2> QED BY <2>5 DEF ZeroOK, Child, at
<1>5. CASE req # None /\ ~Closes(run.li, run.pos)
  <2>1. at = GoesOn(run.ids, run.pos)
    BY <1>5, OpenIs DEF Opens
  <2> DEFINE r == [req EXCEPT !.of = NowOf(run.ids, run.pos)]
             x == [disk[req.id] EXCEPT !.of = Onto(disk[req.id].of, run.ids, run.pos)]
             d == Put(disk, req.id, x)
  <2>2. at.req = r /\ at.disk = d
    BY <2>1 DEF GoesOn
  <2>3. IsReq(req) /\ IsSeq(disk) /\ req.id \in DOMAIN disk /\ IsDir(disk[req.id]) /\ disk[req.id].state = "open" /\ req.calls \in Nat
        /\ Held(req)
    BY <1>1, <1>5 DEF PairOK, DirOK, Held
  <2>4. req.partial = 0 => Prefix(NowOf(run.ids, run.pos), p) \/ ~(req.id > before)
    <3> HAVE req.partial = 0
    <3>1. CASE req.id > before
      <4>1. run.pos <= Size(req.of) /\ IsSeq(req.of)
        BY <1>5, StandsAt
      <4>2. Prefix(req.of, p)
        BY <1>5, <3>1 DEF TurnOK, ReqTurn
      <4> QED BY <1>1, <1>2, <4>1, <4>2, OntoPrefix DEF NowOf
    <3> QED BY <3>1
  <2>5. req.id > before => ReqTurn(r, p, k) /\ (Gappy(r) <=> Gappy(req)) /\ (Child(r, k) <=> Child(req, k))
    <3> HAVE req.id > before
    <3>1. ReqTurn(req, p, k) /\ (req.partial = 0 => Prefix(NowOf(run.ids, run.pos), p))
      BY <1>5, <2>4 DEF TurnOK
    <3> QED BY <2>3, <3>1, RenameTurn
  <2>6. r.id = req.id /\ r # None /\ x.state = "open"
    <3>1. IsReq(r) /\ r.id = req.id
      BY <2>3, RenamedIs
    <3>2. x.state = "open"
      BY <2>3, DirRenamedIs
    <3> QED BY <3>1, <3>2 DEF NoneIsApart
  <2> HIDE DEF r, x
  <2>7. DOMAIN d = DOMAIN disk /\ d[req.id] = x /\ \A j \in DOMAIN disk : j # req.id => d[j] = disk[j]
    BY <2>3, PutIs
  <2> HIDE DEF d
  <2>8. TurnOK(r, d, p, k, before)
    BY <2>5, <2>6, <2>7 DEF TurnOK, DirTurn
  <2>9. ZeroOK(r, run, k, before)
    <3>1. SUFFICES ASSUME run.pos = 0, r.id > before, Child(r, k) PROVE Gappy(r)
      BY DEF ZeroOK
    <3>2. Child(req, k) /\ req.id > before /\ ReqTurn(req, p, k)
      BY <1>5, <2>5, <2>6, <3>1 DEF TurnOK
    <3>3. CASE run.li > 0
      BY <1>5, <2>5, <3>1, <3>2, <3>3 DEF ZeroOK
    <3>4. CASE run.li = 0
      <4>1. req.calls = 0
        BY <1>5, <2>3, <3>1, <3>4 DEF Closes
      <4> QED BY <1>1, <1>5, <2>5, <2>6, <3>1, <3>2, <4>1 DEF ReqTurn
    <3> QED BY <1>1, <3>3, <3>4
  <2> QED BY <2>2, <2>8, <2>9
<1> QED BY <1>3, <1>4, <1>5
\* A layer that is fed and has not lost its place had not lost it before, and stood where the chunk starts.
LEMMA FedPlace ==
  ASSUME NEW r, IsReq(r), NEW li, NEW x, NEW start
  PROVE  LET f == Fed(r, li, x, start)
             kv == KvOf(r, li, SeedOf(r, li))
         IN  ~Gappy(f) => ~Gappy(r) /\ kv.next = start
<1> DEFINE kv == KvOf(r, li, SeedOf(r, li))
<1>1. PICK f : f = Fed(r, li, x, start)
  OBVIOUS
<1>2. /\ DOMAIN f.layers = DOMAIN r.layers \cup {li}
      /\ f.layers[li] = FedLayer(r, li, x, start)
      /\ \A l \in DOMAIN r.layers : l # li => f.layers[l] = r.layers[l]
  BY <1>1, FedLayers
<1>3. FedLayer(r, li, x, start).kv.gaps = (kv.gaps \/ start # kv.next)
  BY DEF FedLayer, KvFeed
<1>4. li \in DOMAIN r.layers => kv = r.layers[li].kv
  BY DEF KvOf
<1> HIDE DEF kv
<1>5. ASSUME ~Gappy(f)
      PROVE  ~Gappy(r) /\ kv.next = start
  <2>1. ~f.layers[li].kv.gaps
    BY <1>2, <1>5 DEF Gappy
  <2>2. ~kv.gaps /\ kv.next = start
    BY <1>2, <1>3, <2>1
  <2>3. ASSUME NEW l \in DOMAIN r.layers
        PROVE  ~r.layers[l].kv.gaps
    <3>1. CASE l = li
      BY <1>4, <2>2, <2>3, <3>1
    <3>2. CASE l # li
      <4>1. ~f.layers[l].kv.gaps
        BY <1>2, <1>5, <2>3 DEF Gappy
      <4> QED BY <1>2, <2>3, <3>2, <4>1
    <3> QED BY <3>1, <3>2
  <2> QED BY <2>2, <2>3 DEF Gappy
<1> QED BY <1>1, <1>5 DEF kv

\* A layer of a request that goes on from the parent, fed from where it stands.
LEMMA FedChild ==
  ASSUME NEW r, Held(r), NEW p, IsSeq(p), NEW k, ParentOK(k, p), Child(r, k), ChildOK(r, p, k), NEW li \in Layers,
         NEW N \in Nat, NEW M \in Nat, N <= M, M <= Size(p), KvOf(r, li, SeedOf(r, li)).next = N, N # 0
  PROVE  /\ Takes(r, li, N) = PoolsOf(li) /\ Seeded(k, li) /\ r.partial <= N
         /\ FedLayer(r, li, Slice(p, N, M), N) = TrueLayer(li, p, r.partial, 0, k.T, M)
<1>1. PICK S, T : S = r.partial /\ T = k.T
  OBVIOUS
<1>2. S \in Nat /\ T \in Nat /\ r.resume = S /\ S <= T /\ T <= S + Keep /\ k # None
  <2>1. S \in Nat /\ r.resume \in {0, S} /\ r.resume # 0 /\ k # None
    BY <1>1 DEF Held, Child
  <2>2. T \in Nat
    BY <1>1, <2>1, SizeIs DEF ParentOK
  <2>3. S <= T /\ T <= S + Keep
    BY <1>1 DEF ChildOK
  <2> QED BY <2>1, <2>2, <2>3
<1>3. /\ Seeded(k, li) /\ S <= N
      /\ KvOf(r, li, SeedOf(r, li)) = TrueKv(p, S, T, N)
      /\ \A j \in PoolsOf(li) : PoolOf(r, li, j, SeedOf(r, li), N) = TruePool(Kind[li], p, S, 0, T, N)
  <2>1. CASE li \in DOMAIN r.layers
    <3>1. PICK n : n = r.layers[li].kv.next
      OBVIOUS
    <3>2. Seeded(k, li) /\ S <= n /\ r.layers[li] = TrueLayer(li, p, S, 0, T, n)
      BY <1>1, <2>1, <3>1 DEF ChildOK
    <3>3. n = N
      BY <2>1, <3>1 DEF KvOf
    <3>4. r.layers[li] = TrueLayer(li, p, S, 0, T, N)
      BY ONLY <3>2, <3>3
    <3>5. /\ KvOf(r, li, SeedOf(r, li)) = TrueKv(p, S, T, N)
          /\ \A j \in PoolsOf(li) : PoolOf(r, li, j, SeedOf(r, li), N) = TruePool(Kind[li], p, S, 0, T, N)
      <4>1. li \in Layers
        OBVIOUS
      <4> QED BY ONLY <2>1, <3>4, <4>1, FoundTrue
    <3> QED BY <3>2, <3>3, <3>5
  <2>2. CASE li \notin DOMAIN r.layers
    <3>1. li \in DOMAIN r.seeds /\ IF Seeded(k, li) THEN r.seeds[li] = TrueRows(p, li, T, S) ELSE DOMAIN r.seeds[li] = {}
      BY <1>1, <2>2 DEF ChildOK
    <3>2. CASE ~Seeded(k, li)
      <4>1. KvOf(r, li, SeedOf(r, li)) = NewKv
        BY <2>2, <3>1, <3>2 DEF KvOf, SeedOf
      <4> QED BY <4>1 DEF NewKv
    <3>3. CASE Seeded(k, li)
      <4>1. r.seeds[li] = TrueRows(p, li, T, S)
        BY <3>1, <3>3
      <4>2. KvOf(r, li, SeedOf(r, li)).next = S
        <5>1. KvOf(r, li, SeedOf(r, li)) = SeedKv(r.seeds[li]["kv"], r.resume)
          <6>1. "kv" \in DOMAIN r.seeds[li]
            BY <4>1 DEF TrueRows, KindsOf
          <6> QED BY <2>2, <3>1, <6>1 DEF KvOf, SeedOf
        <5>2. \A rows : SeedKv(rows, S).next = S
          BY SeedKvIs
        <5> QED BY <1>2, <5>1, <5>2
      <4>3. S = N
        BY <4>2
      <4>4. S <= Size(p) /\ li \in Layers /\ IsSeq(p) /\ S \in Nat /\ T \in Nat /\ S <= T /\ T <= S + Keep /\ r.resume = S
        <5>1. Size(p) \in Nat
          BY SizeIs
        <5> QED BY <1>2, <4>3, <5>1
      <4>5. /\ KvOf(r, li, SeedOf(r, li)) = TrueKv(p, S, T, S)
            /\ \A j \in PoolsOf(li) : PoolOf(r, li, j, SeedOf(r, li), N) = TruePool(Kind[li], p, S, 0, T, S)
        BY ONLY <2>2, <3>1, <4>1, <4>4, SeedTrue
      <4> QED BY <1>2, <3>3, <4>3, <4>5
    <3> QED BY <3>2, <3>3
  <2> QED BY <2>1, <2>2
<1>4. Takes(r, li, N) = PoolsOf(li) /\ FedLayer(r, li, Slice(p, N, M), N) = TrueLayer(li, p, S, 0, T, M)
  <2>1. li \in Layers /\ IsSeq(p) /\ N \in Nat /\ M \in Nat /\ N <= M /\ M <= Size(p)
    OBVIOUS
  <2> QED BY ONLY <1>2, <1>3, <2>1, FedTrue
<1> QED BY <1>1, <1>3, <1>4

\* Feeding the request of a turn.
LEMMA FedTurn ==
  ASSUME NoneIsApart, NEW q, RunOK(q), q # None, NEW r, NEW d, PairOK(r, d), r # None, NEW p, IsSeq(p), Prefix(q.ids, p),
         NEW k, ParentOK(k, p), NEW before, TurnOK(r, d, p, k, before), ZeroOK(r, q, k, before)
  PROVE  LET f == Fed(r, q.li, Slice(q.ids, q.pos, q.end), q.pos)
         IN  TurnOK(f, d, p, k, before) /\ ZeroOK(f, q, k, before)
<1> DEFINE x == Slice(q.ids, q.pos, q.end)
<1>1. /\ Held(r) /\ IsReq(r) /\ r.calls \in Nat /\ q.li \in Layers
      /\ q.pos \in Nat /\ q.end \in Nat /\ q.pos <= q.end /\ q.end <= Size(p) /\ x = Slice(p, q.pos, q.end)
  <2>1. q.ids \in Prompts /\ q.pos \in Nat /\ q.end \in Nat /\ q.pos < q.end /\ q.end <= Len(q.ids) /\ q.li \in Layers
    BY DEF RunOK
  <2>2. IsSeq(q.ids) /\ Size(q.ids) = Len(q.ids) /\ Len(q.ids) \in Nat /\ Size(p) \in Nat
    BY <2>1, PromptIs, SizeIs
  <2>3. Held(r)
    BY DEF PairOK
  <2>4. IsReq(r) /\ r.calls \in Nat
    BY <2>3 DEF Held
  <2>5. Size(q.ids) <= Size(p) /\ Agree(q.ids, p, Size(q.ids))
    BY DEF Prefix
  <2>6. q.pos <= q.end /\ q.end <= Size(q.ids) /\ q.end <= Size(p)
    BY <2>1, <2>2, <2>5
  <2>7. x = Slice(p, q.pos, q.end)
    <3>1. PICK n \in Nat : n = Size(q.ids)
      BY <2>2
    <3>2. IsSeq(q.ids) /\ IsSeq(p) /\ n <= Size(q.ids) /\ n <= Size(p) /\ Agree(q.ids, p, n) /\ q.pos <= q.end /\ q.end <= n
          /\ q.pos \in Nat /\ q.end \in Nat
      BY <2>1, <2>2, <2>5, <2>6, <3>1
    <3> QED BY ONLY <3>1, <3>2, AgreeSlice
  <2> QED BY <2>1, <2>3, <2>4, <2>6, <2>7
<1>2. PICK li, N, M : li = q.li /\ N = q.pos /\ M = q.end
  OBVIOUS
<1>3. PICK f : f = Fed(r, li, x, N)
  OBVIOUS
<1>4. /\ IsReq(f) /\ f.id = r.id /\ f.of = r.of /\ f.stream = r.stream /\ f.partial = r.partial /\ f.resume = r.resume
      /\ f.parent = r.parent /\ f.emitted = r.emitted /\ f.seeds = Without(r.seeds, li)
      /\ f.calls = IF Takes(r, li, N) = PoolsOf(li) THEN r.calls + 1 ELSE r.calls
      /\ DOMAIN f.layers = DOMAIN r.layers \cup {li}
      /\ f.layers[li] = FedLayer(r, li, x, N)
      /\ \A l \in DOMAIN r.layers : l # li => f.layers[l] = r.layers[l]
  BY <1>1, <1>2, <1>3, FedFields, FedLayers
<1>5. ~Gappy(f) => ~Gappy(r) /\ KvOf(r, li, SeedOf(r, li)).next = N
  BY <1>1, <1>3, FedPlace
<1>6. Child(f, k) <=> Child(r, k)
  BY <1>4 DEF Child
<1>7. ZeroOK(f, q, k, before)
  BY <1>4, <1>5, <1>6 DEF ZeroOK
<1>8. ASSUME r.id > before, Child(r, k), ~Gappy(f)
      PROVE  f.calls # 0 /\ ChildOK(f, p, k)
  <2>1. ~Gappy(r) /\ KvOf(r, li, SeedOf(r, li)).next = N /\ ChildOK(r, p, k) /\ N # 0
    BY <1>2, <1>5, <1>8 DEF TurnOK, ReqTurn, ZeroOK
  <2>2. /\ Takes(r, li, N) = PoolsOf(li) /\ Seeded(k, li) /\ r.partial <= N
        /\ FedLayer(r, li, Slice(p, N, M), N) = TrueLayer(li, p, r.partial, 0, k.T, M)
    <3>1. Held(r) /\ li \in Layers /\ N \in Nat /\ M \in Nat /\ N <= M /\ M <= Size(p)
      BY <1>1, <1>2
    <3>2. IsSeq(p) /\ ParentOK(k, p) /\ Child(r, k)
      BY <1>8
    <3> QED BY ONLY <2>1, <3>1, <3>2, FedChild
  <2>3. f.layers[li] = TrueLayer(li, p, r.partial, 0, k.T, M) /\ f.calls = r.calls + 1
    BY <1>1, <1>2, <1>4, <2>2
  <2>4. f.calls # 0
    BY <1>1, <2>3
  <2>5. f.layers[li].kv.next = M /\ r.partial <= M /\ M <= Size(p)
    <3>1. f.layers[li].kv.next = M
      BY <2>3 DEF TrueLayer, TrueKv
    <3>2. r.partial \in Nat
      BY <1>1 DEF Held
    <3> QED BY <1>1, <1>2, <2>2, <3>1, <3>2
  <2>6. ASSUME NEW l \in DOMAIN f.layers
        PROVE  LET n == f.layers[l].kv.next
               IN  Seeded(k, l) /\ f.partial <= n /\ n <= Size(p) /\ f.layers[l] = TrueLayer(l, p, f.partial, 0, k.T, n)
    <3>1. CASE l = li
      BY <1>4, <2>2, <2>3, <2>5, <3>1
    <3>2. CASE l # li
      BY <1>4, <2>1, <2>6, <3>2 DEF ChildOK
    <3> QED BY <3>1, <3>2
  <2>7. ASSUME NEW l \in Layers \ DOMAIN f.layers
        PROVE  /\ l \in DOMAIN f.seeds
               /\ IF Seeded(k, l) THEN f.seeds[l] = TrueRows(p, l, k.T, f.partial) ELSE DOMAIN f.seeds[l] = {}
    <3>1. l \in Layers \ DOMAIN r.layers /\ l # li
      BY <1>4, <2>7
    <3>2. /\ l \in DOMAIN r.seeds
          /\ IF Seeded(k, l) THEN r.seeds[l] = TrueRows(p, l, k.T, r.partial) ELSE DOMAIN r.seeds[l] = {}
      BY <2>1, <3>1 DEF ChildOK
    <3>3. l \in DOMAIN f.seeds /\ f.seeds[l] = r.seeds[l]
      BY <1>4, <3>1, <3>2 DEF Without
    <3> QED BY <1>4, <3>2, <3>3
  <2>8. f.partial <= k.T /\ k.T <= f.partial + Keep
    BY <1>4, <2>1 DEF ChildOK
  <2>9. ChildOK(f, p, k)
    BY <2>6, <2>7, <2>8 DEF ChildOK
  <2> QED BY <2>4, <2>9
<1>9. ASSUME r.id > before
      PROVE  ReqTurn(f, p, k)
  <2>1. ReqTurn(r, p, k)
    BY <1>9 DEF TurnOK
  <2>2. (f.partial = 0 => Prefix(f.of, p)) /\ (~f.stream => f.emitted = 0)
    BY <1>4, <2>1 DEF ReqTurn
  <2> QED BY <1>6, <1>8, <1>9, <2>2 DEF ReqTurn
<1>10. TurnOK(f, d, p, k, before)
  BY <1>4, <1>9 DEF TurnOK
<1> QED BY <1>2, <1>3, <1>7, <1>10
\* Shipping the segments of the request of a turn.
LEMMA ShipTurn ==
  ASSUME NoneIsApart, NEW r, NEW d, PairOK(r, d), r # None, DOMAIN r.layers # {}, LostOK(r, d), NEW p, IsSeq(p), NEW k, NEW before,
         NEW q, TurnOK(r, d, p, k, before), ZeroOK(r, q, k, before), NEW counted, NEW w
  PROVE  LET out == Streamed(r, counted, w)
             e == WithSegs(d, out.req.id, out.segs)
         IN  /\ TurnOK(out.req, e, p, k, before) /\ ZeroOK(out.req, q, k, before)
             /\ out.req.id > before => Closable(out.req, e[out.req.id], p)
<1>1. PICK out, e : out = Streamed(r, counted, w) /\ e = WithSegs(d, out.req.id, out.segs)
  OBVIOUS
<1>2. /\ Held(r) /\ IsSeq(d) /\ r.id \in DOMAIN d /\ IsDir(d[r.id]) /\ d[r.id].state = "open"
  BY DEF PairOK, DirOK
<1>3. r.id > before => ReqTurn(r, p, k) /\ Closable(r, d[r.id], p)
  <2> HAVE r.id > before
  <2>1. ReqTurn(r, p, k)
    BY DEF TurnOK
  <2> QED BY <2>1, ClosableIs
<1>4. e[out.req.id].of = out.req.of
  BY <1>1, ShipLost
<1>5. /\ out.req.id = r.id
      /\ r.id > before => /\ ReqTurn(out.req, p, k)
                          /\ Streams(out.req) => SnapsTrue(out.req, p)
                          /\ out.req.partial = 0 /\ ~out.req.stream => Fresh(out.req)
                          /\ DOMAIN Updated(d[r.id].segs, out.segs) # {} => out.req.partial = 0
      /\ ZeroOK(out.req, q, k, before)
  <2>1. CASE counted /\ StreamsNow(r) /\ out = Emitted(r, Min(Reach(r)), w)
    <3>1. PICK E \in Nat : E = Min(Reach(r))
      BY <1>2, ReachIs
    <3>2. PICK g : g = out.req
      OBVIOUS
    <3>3. /\ g.id = r.id /\ g.of = r.of /\ g.stream = r.stream /\ g.partial = r.partial
          /\ DOMAIN g.layers = DOMAIN r.layers
          /\ \A li \in DOMAIN r.layers : g.layers[li].kv = Trimmed(r.layers[li].kv, g.emitted)
      <4>1. out = Emitted(r, E, w)
        BY <2>1, <3>1
      <4> QED BY <1>2, <3>2, <4>1, EmittedFields
    <3>4. r.stream /\ r.partial = 0
      BY <2>1 DEF StreamsNow
    <3>5. ASSUME r.id > before
          PROVE  ReqTurn(g, p, k) /\ SnapsTrue(g, p)
      <4>1. ReqTurn(g, p, k)
        BY <1>3, <3>3, <3>4, <3>5 DEF ReqTurn, Child
      <4>2. SnapsTrue(r, p)
        BY <1>3, <3>4, <3>5 DEF Closable, Streams
      <4>3. ASSUME NEW li \in DOMAIN g.layers
            PROVE  \A b \in DOMAIN g.layers[li].kv.snaps : g.layers[li].kv.snaps[b] = TrueWindow(p, b)
        <5>1. PICK kv, b0 : kv = r.layers[li].kv /\ b0 = g.emitted
          OBVIOUS
        <5>2. li \in DOMAIN r.layers /\ IsKv(kv) /\ g.layers[li].kv = Trimmed(kv, b0)
          BY <1>2, <3>3, <4>3, <5>1 DEF Held
        <5>3. g.layers[li].kv.snaps = Below(kv.snaps, b0)
          BY <5>2, TrimmedIs
        <5>4. \A b \in DOMAIN kv.snaps : kv.snaps[b] = TrueWindow(p, b)
          BY <4>2, <5>1, <5>2 DEF SnapsTrue
        <5> QED BY <5>3, <5>4 DEF Below
      <4> QED BY <4>1, <4>3 DEF SnapsTrue
    <3>6. ZeroOK(g, q, k, before)
      BY <3>3, <3>4 DEF ZeroOK, Child
    <3> QED BY <3>2, <3>3, <3>4, <3>5, <3>6
  <2>2. CASE out = [req |-> r, segs |-> Empty]
    <3>1. out.req = r /\ Updated(d[r.id].segs, out.segs) = Updated(d[r.id].segs, Empty)
      BY <2>2
    <3>2. DOMAIN Updated(d[r.id].segs, Empty) = DOMAIN d[r.id].segs
      BY DEF Updated, Empty
    <3>3. r.id > before => /\ (Streams(r) => SnapsTrue(r, p)) /\ (r.partial = 0 /\ ~r.stream => Fresh(r))
                           /\ (DOMAIN d[r.id].segs # {} => r.partial = 0)
      BY <1>3 DEF Closable
    <3> QED BY <1>3, <3>1, <3>2, <3>3
  <2> QED BY <1>1, <2>1, <2>2, StreamedIs
<1>6. /\ e[r.id] = MoreSegs(d[r.id], out.segs) /\ (\A j \in DOMAIN d : j # r.id => e[j] = d[j]) /\ DOMAIN e = DOMAIN d
  <2>1. e = Put(d, r.id, MoreSegs(d[r.id], out.segs))
    BY <1>1, <1>5 DEF WithSegs, Put
  <2> QED BY <1>2, <2>1, PutIs
<1>7. e[r.id].state = "open" /\ e[r.id].segs = Updated(d[r.id].segs, out.segs)
  BY <1>2, <1>6, MoreSegsIs
<1>8. \A i \in DOMAIN e : i > before => DirTurn(e[i], p, k)
  <2> SUFFICES ASSUME NEW i \in DOMAIN e, i > before
               PROVE  DirTurn(e[i], p, k)
    OBVIOUS
  <2>1. CASE i = r.id
    BY <1>7, <2>1 DEF DirTurn
  <2>2. CASE i # r.id
    BY <1>6, <2>2 DEF TurnOK
  <2> QED BY <2>1, <2>2
<1>9. TurnOK(out.req, e, p, k, before)
  BY <1>5, <1>8 DEF TurnOK
<1>10. out.req.id > before => Closable(out.req, e[out.req.id], p)
  BY <1>4, <1>5, <1>7 DEF Closable
<1> QED BY <1>1, <1>5, <1>9, <1>10
\* A change of an open directory that keeps it open.
LEMMA PutAfter ==
  ASSUME NEW d, IsSeq(d), NEW i \in DOMAIN d, d[i].state = "open", NEW x
  PROVE  After(d, Put(d, i, x))
<1>1. PICK e : e = Put(d, i, x)
  OBVIOUS
<1>2. DOMAIN e = DOMAIN d /\ \A j \in DOMAIN d : j # i => e[j] = d[j]
  BY <1>1, PutIs
<1>3. \A j \in DOMAIN d : d[j].state # "open" => e[j] = d[j]
  BY <1>2
<1> QED BY <1>1, <1>2, <1>3 DEF After

\* Opening, or going on, and what leaves: older captures stay, or go.
LEMMA OpenAfter ==
  ASSUME NoneIsApart, PairOK(req, disk), req # None => DOMAIN req.layers # {}, NEW li, NEW of, NEW start \in Nat
  PROVE  After(disk, WithOpen(li, of, start).disk)
<1>1. PICK at : at = WithOpen(li, of, start)
  OBVIOUS
<1>2. CASE req = None
  <2>1. at = EntersIn(disk, of, start)
    BY <1>1, <1>2, OpenIs
  <2> QED BY <1>1, <1>2, <2>1, EnterAfter
<1>3. CASE req # None /\ Closes(li, start)
  <2>1. PICK d : d = Finished(req, disk)
    OBVIOUS
  <2>2. at = EntersIn(d, of, start)
    BY <1>1, <1>3, <2>1, OpenIs
  <2>3. PairOK(None, d) /\ After(disk, d)
    BY <1>3, <2>1, FinishPair, FinishAfter
  <2>4. After(d, at.disk)
    BY <2>2, <2>3, EnterAfter
  <2> QED BY <1>1, <2>3, <2>4, AfterAfter
<1>4. CASE req # None /\ ~Closes(li, start)
  <2>1. at = GoesOn(of, start)
    BY <1>1, <1>4, OpenIs DEF Opens
  <2>2. PICK x : at.disk = Put(disk, req.id, x)
    BY <2>1 DEF GoesOn
  <2>3. IsSeq(disk) /\ req.id \in DOMAIN disk /\ disk[req.id].state = "open"
    BY <1>4 DEF PairOK
  <2> QED BY <1>1, <2>2, <2>3, PutAfter
<1> QED BY <1>2, <1>3, <1>4

LEMMA LeaveAfter ==
  ASSUME NEW r, NEW d, PairOK(r, d), r # None, DOMAIN r.layers # {}, NEW seals, Leaves(r, d, seals)
  PROVE  After(d, disk')
<1>1. After(d, Finished(r, d))
  BY FinishAfter
<1>2. After(d, d)
  BY DEF After
<1> QED BY <1>1, <1>2 DEF Leaves

\* what is known while a turn under way: the captures made since it began, the states, the parent, and the prompt in the engine
OfTurn(r, d, cp, q, p, k, before) ==
  /\ TurnOK(r, d, p, k, before) /\ StatesOK(d, cp, k) /\ ParentOK(k, p)
  /\ q # None => Prefix(q.ids, p)
  /\ q # None /\ q.li > 0 /\ r # None => ZeroOK(r, q, k, before)

\* The request of a turn leaves the worker, closed or not.
LEMMA LeaveTurn ==
  ASSUME NEW r, NEW d, PairOK(r, d), r # None, DOMAIN r.layers # {}, NEW p, IsSeq(p), NEW k, NEW before,
         TurnOK(r, d, p, k, before), r.id > before => Closable(r, d[r.id], p), NEW seals, Leaves(r, d, seals)
  PROVE  TurnOK(req', disk', p, k, before)
<1>1. CASE seals
  <2>1. TurnOK(None, Finished(r, d), p, k, before)
    BY FinishTurn
  <2> QED BY <1>1, <2>1 DEF Leaves
<1>2. CASE ~seals
  BY <1>2 DEF Leaves
<1> QED BY <1>1, <1>2
\* Within the first chunk the next layer is in the same place.
LEMMA ZeroOn ==
  ASSUME NoneIsApart, run # None, RunOK(run), NEW r, NEW k, NEW before, ZeroOK(r, run, k, before)
  PROVE  Advanced # None /\ Advanced.li > 0 => ZeroOK(r, Advanced, k, before)
<1>1. /\ RunOK(Advanced) /\ (~Answered => Advanced # None)
      /\ \/ Answered /\ Advanced = None
         \/ ~Answered /\ run.li = NL - 1 /\ Advanced.ids = run.ids /\ Advanced.pos = run.end /\ Advanced.li = 0
         \/ ~Answered /\ run.li # NL - 1 /\ Advanced.ids = run.ids /\ Advanced.pos = run.pos
              /\ Advanced.end = run.end /\ Advanced.li = run.li + 1
  BY RunStepIs
<1>2. PICK a : a = Advanced
  OBVIOUS
<1>3. a # None /\ a.li > 0 => a.pos = run.pos
  BY <1>1, <1>2
<1> QED BY <1>2, <1>3 DEF ZeroOK

\* Its segments go into a directory that is open.
LEMMA ShipAfter ==
  ASSUME NEW r, NEW d, PairOK(r, d), r # None, DOMAIN r.layers # {}, NEW counted, NEW w
  PROVE  LET out == Streamed(r, counted, w)
         IN  After(d, WithSegs(d, out.req.id, out.segs))
<1> DEFINE out == Streamed(r, counted, w)
<1>1. Held(r) /\ IsSeq(d) /\ r.id \in DOMAIN d /\ d[r.id].state = "open"
  BY DEF PairOK
<1>2. out.req.id = r.id
  <2>1. CASE out = Emitted(r, Min(Reach(r)), w)
    <3>1. PICK E \in Nat : E = Min(Reach(r))
      BY <1>1, ReachIs
    <3> HIDE DEF out
    <3> QED BY <1>1, <2>1, <3>1, EmittedFields
  <2>2. CASE out = [req |-> r, segs |-> Empty]
    BY <2>2
  <2> HIDE DEF out
  <2> QED BY <2>1, <2>2, StreamedIs DEF out
<1>3. PICK x : WithSegs(d, out.req.id, out.segs) = Put(d, r.id, x)
  <2> HIDE DEF out
  <2> QED BY <1>2 DEF WithSegs, Put
<1> HIDE DEF out
<1>4. After(d, WithSegs(d, out.req.id, out.segs))
  BY <1>1, <1>3, PutAfter
<1> QED BY <1>4 DEF out

\* A layer of a chunk: older captures stay, or go.
LEMMA WorkAfter ==
  ASSUME NoneIsApart, TypesInv, Work
  PROVE  After(disk, disk')
<1>1. PICK low, cannot : Fill(low, cannot)
  BY DEF Work, Fill
<1> DEFINE at == WithOpen(run.li, run.ids, run.pos)
           x == Slice(run.ids, run.pos, run.end)
           fed == Fed(at.req, run.li, x, run.pos)
           counted == Counted(at.req, fed)
           out == Streamed(fed, counted, cannot - 1)
           e == WithSegs(at.disk, out.req.id, out.segs)
           seals == counted /\ Seals(out.req, low)
<1>2. Leaves(out.req, e, seals)
  <2>1. Ships(out, at.disk, counted, low)
    BY <1>1 DEF Fill, Ingest
  <2> HIDE DEF out
  <2> QED BY <2>1, ShipsIs
<1>3. run # None /\ RunOK(run) /\ PairOK(req, disk) /\ (req # None => DOMAIN req.layers # {}) /\ run.pos \in Nat
  BY DEF TypesInv, RunOK, Work
<1>4. PairOK(at.req, at.disk) /\ at.req # None /\ After(disk, at.disk)
  BY <1>3, OpenPair, OpenAfter
<1> HIDE DEF at
<1>5. IsSeq(x) /\ run.li \in Layers /\ run.pos \in Nat
  BY <1>3, ChunkIs
<1>6. PairOK(fed, at.disk) /\ fed # None /\ DOMAIN fed.layers # {}
  <2> HIDE DEF x
  <2> QED BY <1>4, <1>5, FedPair
<1> HIDE DEF fed, counted
<1>7. PairOK(out.req, e) /\ out.req # None /\ DOMAIN out.req.layers # {} /\ After(at.disk, e)
  BY <1>6, ShipPair, ShipAfter
<1>8. After(e, disk')
  <2> HIDE DEF out, e, seals
  <2> QED BY <1>2, <1>7, LeaveAfter
<1> QED BY <1>4, <1>7, <1>8, AfterAfter

\* A layer of a chunk of the prompt, whatever the hook makes of it.
LEMMA WorkTurn ==
  ASSUME NoneIsApart, TypesInv, LostInv, Work, NEW p, IsSeq(p), NEW k, NEW before,
         OfTurn(req, disk, copies, run, p, k, before)
  PROVE  OfTurn(req', disk', copies', run', p, k, before)
<1>1. PICK low, cannot : low \in BOOLEAN /\ Fill(low, cannot)
  BY DEF Work, Fill
<1> DEFINE at == WithOpen(run.li, run.ids, run.pos)
           x == Slice(run.ids, run.pos, run.end)
           fed == Fed(at.req, run.li, x, run.pos)
           counted == Counted(at.req, fed)
           out == Streamed(fed, counted, cannot - 1)
           e == WithSegs(at.disk, out.req.id, out.segs)
           seals == counted /\ Seals(out.req, low)
<1>2. run # None /\ RunOK(run) /\ run' = Advanced /\ copies' = copies
  BY <1>1 DEF TypesInv, Work, Fill, Ingest
<1>3. Leaves(out.req, e, seals)
  <2>1. Ships(out, at.disk, counted, low)
    BY <1>1 DEF Fill, Ingest
  <2> HIDE DEF out
  <2> QED BY <2>1, ShipsIs
<1>4. PairOK(req, disk) /\ (req # None => DOMAIN req.layers # {}) /\ run.pos \in Nat
  BY <1>2 DEF TypesInv, RunOK
<1>5. /\ TurnOK(req, disk, p, k, before) /\ StatesOK(disk, copies, k) /\ ParentOK(k, p) /\ Prefix(run.ids, p)
      /\ req # None /\ run.li > 0 => ZeroOK(req, run, k, before)
  BY <1>2 DEF OfTurn
<1>6. /\ LostOK(at.req, at.disk) /\ (at.req.partial = 0 => Lock(at.req, run, run.li)) /\ Calls(at.req, run, run.li)
      /\ PairOK(at.req, at.disk) /\ at.req # None
  <2>1. PairOK(at.req, at.disk) /\ at.req # None
    BY <1>4, OpenPair
  <2> QED BY <1>2, <2>1, OpenLost
<1>7. TurnOK(at.req, at.disk, p, k, before) /\ ZeroOK(at.req, run, k, before)
  BY <1>2, <1>5, OpenTurn
<1> HIDE DEF at
<1>9. IsSeq(x) /\ run.li \in Layers /\ run.pos \in Nat
  BY <1>2, ChunkIs
<1>10. TurnOK(fed, at.disk, p, k, before) /\ ZeroOK(fed, run, k, before)
  BY <1>2, <1>5, <1>6, <1>7, FedTurn
<1>11. LostOK(fed, at.disk)
  BY <1>2, <1>6, FedLost
<1>12. PairOK(fed, at.disk) /\ fed # None /\ DOMAIN fed.layers # {}
  <2> HIDE DEF x
  <2> QED BY <1>6, <1>9, FedPair
<1> HIDE DEF fed, counted
<1>13. PairOK(out.req, e) /\ out.req # None /\ DOMAIN out.req.layers # {}
  BY <1>12, ShipPair
<1>14. /\ TurnOK(out.req, e, p, k, before) /\ ZeroOK(out.req, run, k, before)
       /\ out.req.id > before => Closable(out.req, e[out.req.id], p)
  BY <1>10, <1>11, <1>12, ShipTurn
<1> HIDE DEF out, e, seals
<1>17. TurnOK(req', disk', p, k, before)
  BY <1>3, <1>13, <1>14, LeaveTurn
<1>18. StatesOK(disk', copies', k)
  <2>1. After(disk, disk')
    BY WorkAfter
  <2> QED BY <1>2, <1>5, <2>1, StatesAfter
<1>19. run' # None => Prefix(run'.ids, p)
  BY <1>2, <1>5, RunStepIs
<1>20. run' # None /\ run'.li > 0 /\ req' # None => ZeroOK(req', run', k, before)
  <2>1. req' # None => req' = out.req
    BY <1>3 DEF Leaves
  <2>2. run' # None /\ run'.li > 0 => ZeroOK(out.req, run', k, before)
    BY <1>2, <1>14, ZeroOn
  <2> QED BY <2>1, <2>2
<1> QED BY <1>5, <1>17, <1>18, <1>19, <1>20 DEF OfTurn
-----------------------------------------------------------------------------
(* The blocks and the parent: the inductive invariant *)

\* how much of a capture the decode box may use when it keeps the parent k
UsableWith(k, man) ==
  IF man.partial # 0 /\ man.resume # 0
    THEN IF k # None /\ man.parent = k.stamp /\ k.T >= man.resume /\ ~man.gaps THEN man.T ELSE 0
  ELSE IF man.partial # 0 \/ man.gaps THEN 0 ELSE man.T
Busy == front.phase # "idle"
\* the front's place in its turn, and what is known of the capture it has chosen
FrontTurn ==
  /\ Busy => /\ turn > 0 /\ front.ids = Turns[turn] /\ stored.ids = front.ids
             /\ OfTurn(req, disk, copies, run, front.ids, kept, front.before)
  /\ front.phase = "pick" => front.next = Block /\ stored.blocks = Empty
  /\ front.phase \in {"pull", "segments", "seal"} => front.stamp \in DOMAIN disk /\ front.stamp > front.before
  /\ front.phase = "segments" => /\ front.next \in Nat /\ front.next >= Block /\ front.next % Block = 0
                                 /\ DOMAIN stored.blocks = Boundaries(0, front.next - Block)
  /\ front.phase = "pull" => /\ disk[front.stamp].state # "open"
                             /\ disk[front.stamp].state = "done" => UsableWith(kept, disk[front.stamp].man) > 0
\* the parent is the capture of one of the turns there have been
KeptTurn == kept # None => ParentOK(kept, kept.of) /\ \E j \in 1 .. turn : kept.of = Turns[j]
BlocksInv == BlocksAreTrue /\ FrontTurn /\ KeptTurn /\ StatesOK(disk, copies, kept)

LEMMA UsableIs ==
  \A man : Usable(man) = UsableWith(kept, man)
BY DEF Usable, UsableWith

LEMMA BlocksInit ==
  RowInit => BlocksInv
<1> SUFFICES ASSUME RowInit PROVE BlocksInv
  OBVIOUS
<1>1. front.phase = "idle" /\ kept = None /\ copies = {} /\ DOMAIN stored.blocks = {}
  BY DEF RowInit, HookInit, Idle, NoBlocks, Empty
<1> QED BY <1>1 DEF BlocksInv, BlocksAreTrue, FrontTurn, KeptTurn, StatesOK, Busy

\* The kept parent is a whole capture.
LEMMA KeptWhole ==
  KeptTurn => KeptIsWhole
<1> SUFFICES ASSUME KeptTurn, kept # None, NEW li \in Layers, DOMAIN kept.kvstate.rows[li] = {"kv"} \cup PoolsOf(li)
             PROVE  kept.files[li] = TrueFile(kept.of, kept.kvstate.T, li)
  BY DEF KeptIsWhole
<1>1. ParentOK(kept, kept.of)
  BY DEF KeptTurn
<1>2. Seeded(kept, li)
  BY DEF Seeded
<1> QED BY <1>1, <1>2 DEF ParentOK

\* A turn's prompt.
LEMMA TurnIs ==
  \A j \in 1 .. Len(Turns) : Turns[j] \in Prompts /\ IsSeq(Turns[j]) /\ Size(Turns[j]) = Len(Turns[j]) /\ Len(Turns[j]) \in Nat
                             /\ Len(Turns[j]) >= 1 /\ Prefix(Turns[j], Turns[j])
<1> SUFFICES ASSUME NEW j \in 1 .. Len(Turns)
             PROVE  Turns[j] \in Prompts /\ IsSeq(Turns[j]) /\ Size(Turns[j]) = Len(Turns[j]) /\ Len(Turns[j]) \in Nat
                    /\ Len(Turns[j]) >= 1 /\ Prefix(Turns[j], Turns[j])
  OBVIOUS
<1>1. Turns[j] \in Prompts
  BY RowBridgeAssumption
<1>2. IsSeq(Turns[j]) /\ Size(Turns[j]) = Len(Turns[j]) /\ Len(Turns[j]) \in Nat /\ Len(Turns[j]) >= 1
  BY <1>1, PromptIs
<1>3. Prefix(Turns[j], Turns[j])
  BY <1>2 DEF Prefix, Agree
<1> QED BY <1>1, <1>2, <1>3

\* In a conversation that grows a prompt goes on from the one of every turn before.
LEMMA GrowingIs ==
  ASSUME Growing, NEW i \in 1 .. Len(Turns), NEW j \in 1 .. Len(Turns), i <= j
  PROVE  Prefix(Turns[i], Turns[j])
<1>1. DOMAIN Turns = 1 .. Len(Turns)
  BY RowBridgeAssumption
<1> QED BY <1>1 DEF Growing

\* A step that leaves the front, the blocks and the parent as they are, but may change the hook, its captures and the engine.
LEMMA PairTurn ==
  ASSUME TypesInv, BlocksInv, After(disk, disk'),
         copies' = copies, stored' = stored, kept' = kept, turn' = turn,
         front' = front \/ \E eng : front' = [front EXCEPT !.eng = eng],
         Busy => OfTurn(req', disk', copies', run', front.ids, kept, front.before)
  PROVE  BlocksInv'
<1>1. /\ front'.phase = front.phase /\ front'.ids = front.ids /\ front'.before = front.before /\ front'.stamp = front.stamp
      /\ front'.next = front.next
  <2>1. CASE front' = front
    BY <2>1
  <2>2. CASE \E eng : front' = [front EXCEPT !.eng = eng]
    <3>1. PICK eng : front' = [front EXCEPT !.eng = eng]
      BY <2>2
    <3>2. front = [y \in FrontFields |-> front[y]]
      BY DEF TypesInv, FrontOK
    <3> QED BY <3>1, <3>2 DEF FrontFields
  <2> QED BY <2>1, <2>2
<1>2. BlocksAreTrue' /\ KeptTurn'
  BY DEF BlocksInv, BlocksAreTrue, KeptTurn
<1>3. StatesOK(disk', copies', kept')
  BY StatesAfter DEF BlocksInv
<1>4. Busy' => /\ turn' > 0 /\ front'.ids = Turns[turn'] /\ stored'.ids = front'.ids
               /\ OfTurn(req', disk', copies', run', front'.ids, kept', front'.before)
  BY <1>1 DEF BlocksInv, FrontTurn, Busy
<1>5. front'.phase \in {"pull", "segments", "seal"} => front'.stamp \in DOMAIN disk' /\ front'.stamp > front'.before
  BY <1>1 DEF BlocksInv, FrontTurn, After
<1>6. front'.phase = "pull" => /\ disk'[front'.stamp].state # "open"
                               /\ disk'[front'.stamp].state = "done" => UsableWith(kept', disk'[front'.stamp].man) > 0
  <2> SUFFICES ASSUME front'.phase = "pull"
               PROVE  /\ disk'[front'.stamp].state # "open"
                      /\ disk'[front'.stamp].state = "done" => UsableWith(kept', disk'[front'.stamp].man) > 0
    OBVIOUS
  <2>1. PICK i \in DOMAIN disk : i = front.stamp /\ disk[i].state # "open" /\ (disk[i].state = "done" => UsableWith(kept, disk[i].man) > 0)
    BY <1>1 DEF BlocksInv, FrontTurn
  <2>2. disk'[i] = disk[i] \/ disk'[i].state = "gone"
    BY <2>1 DEF After
  <2> QED BY <1>1, <2>1, <2>2
<1>7. /\ front'.phase = "pick" => front'.next = Block /\ stored'.blocks = Empty
      /\ front'.phase = "segments" => /\ front'.next \in Nat /\ front'.next >= Block /\ front'.next % Block = 0
                                      /\ DOMAIN stored'.blocks = Boundaries(0, front'.next - Block)
  BY <1>1 DEF BlocksInv, FrontTurn
<1>8. FrontTurn'
  BY <1>4, <1>5, <1>6, <1>7 DEF FrontTurn
<1> QED BY <1>2, <1>3, <1>8 DEF BlocksInv
LEMMA SameAfter ==
  \A d : After(d, d)
BY DEF After

\* The prompt of a front that is busy, and its parent.
LEMMA BusyIs ==
  ASSUME TypesInv, BlocksInv, Busy
  PROVE  /\ turn \in 1 .. Len(Turns) /\ front.ids = Turns[turn] /\ stored.ids = front.ids /\ front.ids \in Prompts
         /\ IsSeq(front.ids) /\ Size(front.ids) = Len(front.ids) /\ Len(front.ids) \in Nat /\ Len(front.ids) >= 1
         /\ OfTurn(req, disk, copies, run, front.ids, kept, front.before)
<1>1. turn \in 0 .. Len(Turns) /\ turn > 0 /\ front.ids = Turns[turn] /\ stored.ids = front.ids
      /\ OfTurn(req, disk, copies, run, front.ids, kept, front.before)
  BY DEF TypesInv, BlocksInv, FrontTurn
<1>2. turn \in 1 .. Len(Turns)
  BY <1>1, RowBridgeAssumption
<1> QED BY <1>1, <1>2, TurnIs

\* A layer of a chunk.
LEMMA WorkBlocks ==
  ASSUME NoneIsApart, TypesInv, LostInv, BlocksInv, Work
  PROVE  BlocksInv'
<1>1. Busy => OfTurn(req', disk', copies', run', front.ids, kept, front.before)
  <2> HAVE Busy
  <2>1. PICK p, k, before : p = front.ids /\ k = kept /\ before = front.before
    OBVIOUS
  <2>2. IsSeq(p) /\ OfTurn(req, disk, copies, run, p, k, before)
    BY <2>1, BusyIs
  <2> QED BY <2>1, <2>2, WorkTurn
<1>3. After(disk, disk')
  BY WorkAfter
<1>4. /\ stored' = stored /\ kept' = kept /\ turn' = turn /\ copies' = copies
      /\ front' = front \/ \E eng : front' = [front EXCEPT !.eng = eng]
  BY DEF Work, Ingest
<1> QED BY <1>1, <1>3, <1>4, PairTurn

\* The watcher closes the request.
LEMMA WatchBlocks ==
  ASSUME NoneIsApart, TypesInv, LostInv, BlocksInv, Watch
  PROVE  BlocksInv'
<1>1. /\ PairOK(req, disk) /\ req # None /\ DOMAIN req.layers # {} /\ LostOK(req, disk)
      /\ disk' = Finished(req, disk) /\ req' = None
      /\ UNCHANGED <<copies, run, front, stored, kept, turn>>
  BY DEF TypesInv, LostInv, Watch, Flush, Settled
<1>2. After(disk, disk')
  BY <1>1, FinishAfter
<1>3. Busy => OfTurn(req', disk', copies', run', front.ids, kept, front.before)
  <2> HAVE Busy
  <2>1. PICK p, k, before : p = front.ids /\ k = kept /\ before = front.before
    OBVIOUS
  <2>2. IsSeq(p) /\ OfTurn(req, disk, copies, run, p, k, before)
    BY <2>1, BusyIs
  <2>3. req.id > before => Closable(req, disk[req.id], p)
    <3> HAVE req.id > before
    <3>1. ReqTurn(req, p, k)
      BY <1>1, <2>2 DEF OfTurn, TurnOK
    <3> QED BY <1>1, <2>2, <3>1, ClosableIs
  <2>4. TurnOK(None, disk', p, k, before)
    <3>1. TurnOK(req, disk, p, k, before)
      BY <2>2 DEF OfTurn
    <3> QED BY <1>1, <2>2, <2>3, <3>1, FinishTurn
  <2>5. StatesOK(disk', copies, k)
    <3>1. StatesOK(disk, copies, k)
      BY <2>2 DEF OfTurn
    <3> QED BY <1>2, <3>1, StatesAfter
  <2>6. OfTurn(req', disk', copies', run', p, k, before)
    BY <1>1, <2>2, <2>4, <2>5 DEF OfTurn
  <2> QED BY <2>1, <2>6
<1> QED BY <1>1, <1>2, <1>3, PairTurn

\* A prompt enters the engine, or leaves it; the marker ages.
LEMMA EngineBlocks ==
  ASSUME TypesInv, BlocksInv, EngineTakes \/ EngineFails \/ OtherClient \/ MarkerAges
  PROVE  BlocksInv'
<1>1. /\ UNCHANGED <<req, disk, copies, stored, kept, turn>>
      /\ front' = front \/ \E eng : front' = [front EXCEPT !.eng = eng]
  BY DEF EngineTakes, EngineFails, OtherClient, MarkerAges, hookVars
<1>2. ASSUME Busy
      PROVE  run' = run \/ run' = None \/ (run'.ids = front.ids /\ run'.li = 0)
  <2>1. CASE EngineTakes
    <3>1. Post(front.ids) /\ front.ids \in Prompts
      BY <1>2, <2>1, BusyIs DEF EngineTakes
    <3> QED BY <3>1, PostRun
  <2>2. CASE EngineFails
    BY <2>2 DEF EngineFails
  <2>3. CASE OtherClient
    BY <1>2, <2>3 DEF OtherClient, Busy
  <2>4. CASE MarkerAges
    BY <2>4 DEF MarkerAges
  <2> QED BY <2>1, <2>2, <2>3, <2>4
<1>3. Busy => OfTurn(req', disk', copies', run', front.ids, kept, front.before)
  <2> HAVE Busy
  <2>1. PICK p : p = front.ids /\ Prefix(p, p)
    BY BusyIs, TurnIs
  <2>2. OfTurn(req, disk, copies, run, p, kept, front.before)
    BY <2>1, BusyIs
  <2>3. (run' # None => Prefix(run'.ids, p)) /\ (run' # None /\ run'.li > 0 => run' = run)
    BY <1>2, <2>1, <2>2 DEF OfTurn
  <2>4. OfTurn(req', disk', copies', run', p, kept, front.before)
    BY <1>1, <2>2, <2>3 DEF OfTurn
  <2> QED BY <2>1, <2>4
<1>4. After(disk, disk')
  BY <1>1, SameAfter
<1> QED BY <1>1, <1>3, <1>4, PairTurn
\* A turn begins: no capture is of it yet, and its prompt goes on from that of the engine and of the parent.
LEMMA AskBlocks ==
  ASSUME Growing, TypesInv, BlocksInv, AskPooled \/ AskStream
  PROVE  BlocksInv'
<1>1. /\ turn < Len(Turns) /\ Alone /\ turn' = turn + 1 /\ UNCHANGED <<req, disk, run, kept>>
      /\ stored' = [NoBlocks EXCEPT !.ids = Turns[turn + 1]] /\ turn \in Nat /\ turn + 1 \in 1 .. Len(Turns)
      /\ copies' = copies \/ PushState
      /\ \E ph \in {"scan", "pick"} : front' = Began(ph)
  BY RowBridgeAssumption DEF AskPooled, AskStream, Asks, TypesInv
<1>2. PICK p : p = Turns[turn + 1] /\ IsSeq(p)
  BY <1>1, TurnIs
<1>3. stored'.ids = p /\ stored'.blocks = Empty /\ DOMAIN stored'.blocks = {}
  BY <1>1, <1>2 DEF NoBlocks, Empty
<1>4. front'.phase \in {"scan", "pick"} /\ front'.ids = p /\ front'.before = Len(disk) /\ front'.next = Block
  BY <1>1, <1>2 DEF Began, Idle
<1>5. StatesOK(disk, copies', kept)
  <2>1. StatesOK(disk, copies, kept)
    BY DEF BlocksInv
  <2>2. CASE PushState
    <3>1. copies' \subseteq copies \cup {s \in {kept.kvstate} : kept # None /\ ~Present(kept.stamp)}
      BY <2>2 DEF PushState
    <3>2. ASSUME kept # None, ~Present(kept.stamp), NEW s, s = kept.kvstate
          PROVE  /\ s.stamp \in DOMAIN disk /\ disk[s.stamp].state # "open"
                 /\ disk[s.stamp].state = "done" => s = disk[s.stamp].kvstate
      BY <2>1, <3>2 DEF StatesOK, Present
    <3> QED BY <2>1, <3>1, <3>2 DEF StatesOK
  <2> QED BY <1>1, <2>1, <2>2
<1>6. kept # None => ParentOK(kept, kept.of) /\ \E j \in 1 .. turn : kept.of = Turns[j]
  BY DEF BlocksInv, KeptTurn
<1>7. ParentOK(kept, p)
  <2> SUFFICES ASSUME kept # None PROVE ParentOK(kept, p)
    BY DEF ParentOK
  <2>1. PICK j \in 1 .. turn : kept.of = Turns[j]
    BY <1>6
  <2>2. Prefix(kept.of, p)
    <3>1. j \in 1 .. Len(Turns) /\ j <= turn + 1
      BY <1>1, RowBridgeAssumption
    <3> QED BY <1>1, <1>2, <2>1, <3>1, GrowingIs
  <2> QED BY <1>6, <2>2 DEF ParentOK
<1>8. run # None => Prefix(run.ids, p)
  <2> HAVE run # None
  <2>1. turn > 0 /\ run.ids = Turns[turn]
    BY <1>1 DEF Alone
  <2>2. turn \in 1 .. Len(Turns) /\ turn <= turn + 1
    BY <1>1, <2>1, RowBridgeAssumption
  <2> QED BY <1>1, <1>2, <2>1, <2>2, GrowingIs
<1>9. /\ TurnOK(req, disk, p, kept, Len(disk))
      /\ run # None /\ run.li > 0 /\ req # None => ZeroOK(req, run, kept, Len(disk))
  <2>1. Len(disk) \in Nat /\ DOMAIN disk = 1 .. Len(disk) /\ (req # None => req.id \in DOMAIN disk)
    <3>1. IsSeq(disk) /\ (req # None => req.id \in DOMAIN disk)
      BY DEF TypesInv, PairOK
    <3> QED BY <3>1, SizeIs DEF Size
  <2>2. (\A i \in DOMAIN disk : ~(i > Len(disk))) /\ (req # None => ~(req.id > Len(disk)))
    BY <2>1
  <2> QED BY <2>2 DEF TurnOK, ZeroOK
<1>10. OfTurn(req', disk', copies', run', front'.ids, kept', front'.before)
  BY <1>1, <1>4, <1>5, <1>7, <1>8, <1>9 DEF OfTurn
<1>11. FrontTurn'
  BY <1>1, <1>2, <1>3, <1>4, <1>10 DEF FrontTurn
<1>12. KeptTurn'
  <2>1. \A j \in 1 .. turn : j \in 1 .. turn'
    BY <1>1
  <2> QED BY <1>1, <1>6, <2>1 DEF KeptTurn
<1>13. BlocksAreTrue' /\ StatesOK(disk', copies', kept')
  BY <1>1, <1>3, <1>5 DEF BlocksAreTrue
<1> QED BY <1>11, <1>12, <1>13 DEF BlocksInv

\* A poll of the front that changes nothing else: it goes on to a phase in which what is said of that phase holds.
LEMMA PollBlocks ==
  ASSUME TypesInv, BlocksInv, UNCHANGED <<hookVars, run, stored, kept, turn>>,
         \/ front'.phase = "idle"
         \/ /\ Busy /\ front'.ids = front.ids /\ front'.before = front.before /\ front'.phase # "pick"
            /\ front'.phase \in {"pull", "segments", "seal"} => front'.stamp \in DOMAIN disk /\ front'.stamp > front.before
            /\ front'.phase = "segments" => /\ front'.next \in Nat /\ front'.next >= Block /\ front'.next % Block = 0
                                            /\ DOMAIN stored.blocks = Boundaries(0, front'.next - Block)
            /\ front'.phase = "pull" => disk[front'.stamp].state = "done" /\ UsableWith(kept, disk[front'.stamp].man) > 0
  PROVE  BlocksInv'
<1>1. UNCHANGED <<req, disk, copies, run, stored, kept, turn>>
  BY DEF hookVars
<1>2. BlocksAreTrue' /\ KeptTurn' /\ StatesOK(disk', copies', kept')
  BY <1>1 DEF BlocksInv, BlocksAreTrue, KeptTurn
<1>3. CASE front'.phase = "idle"
  <2>1. FrontTurn'
    BY <1>3 DEF FrontTurn, Busy
  <2> QED BY <1>2, <2>1 DEF BlocksInv
<1>4. CASE front'.phase # "idle"
  <2>1. Busy /\ front'.ids = front.ids /\ front'.before = front.before
    BY <1>4
  <2>2. /\ turn > 0 /\ front.ids = Turns[turn] /\ stored.ids = front.ids
        /\ OfTurn(req, disk, copies, run, front.ids, kept, front.before)
    BY <2>1 DEF BlocksInv, FrontTurn
  <2>3. /\ turn' > 0 /\ front'.ids = Turns[turn'] /\ stored'.ids = front'.ids
        /\ OfTurn(req', disk', copies', run', front'.ids, kept', front'.before)
    BY <1>1, <2>1, <2>2
  <2>4. FrontTurn'
    BY <1>1, <1>4, <2>1, <2>3 DEF FrontTurn
  <2> QED BY <1>2, <2>4 DEF BlocksInv
<1> QED BY <1>3, <1>4
LEMMA ToIs ==
  ASSUME TypesInv, NEW ph, NEW i, To(ph, i)
  PROVE  /\ front'.phase = ph /\ front'.stamp = i /\ front'.ids = front.ids /\ front'.before = front.before
         /\ front'.next = front.next
<1>1. front = [y \in FrontFields |-> front[y]]
  BY DEF TypesInv, FrontOK
<1> QED BY <1>1 DEF To, FrontFields

LEMMA IdleIs ==
  GivesUp => front'.phase = "idle"
BY DEF GivesUp, Idle

\* A capture that the front finds finished and that it may use.
LEMMA FindPull ==
  ASSUME TypesInv, BlocksInv, Busy, UNCHANGED <<hookVars, run, stored, kept, turn>>, NEW i, i \in New, To("pull", i),
         disk[i].state = "done", Usable(disk[i].man) > 0
  PROVE  BlocksInv'
<1>1. i \in DOMAIN disk /\ i > front.before
  BY DEF New
<1>2. UsableWith(kept, disk[i].man) > 0
  BY UsableIs
<1>3. /\ front'.phase = "pull" /\ front'.stamp = i /\ front'.ids = front.ids /\ front'.before = front.before
  BY ToIs
<1> QED BY <1>1, <1>2, <1>3, PollBlocks

LEMMA ScanBlocks ==
  ASSUME TypesInv, BlocksInv, Scan
  PROVE  BlocksInv'
<1>1. UNCHANGED <<hookVars, run, stored, kept, turn>> /\ Busy
  BY DEF Scan, Busy
<1>2. CASE CompleteNow # {} /\ To("pull", Min(CompleteNow))
  <2>1. CompleteNow \subseteq New
    BY DEF CompleteNow, DoneNow
  <2>2. PICK i : i = Min(CompleteNow)
    OBVIOUS
  <2>3. i \in CompleteNow
    BY <1>2, <2>1, <2>2, FoundIs
  <2>4. i \in New /\ disk[i].state = "done" /\ Usable(disk[i].man) > 0
    BY <1>1, <2>1, <2>3, BusyIs DEF CompleteNow, DoneNow
  <2> QED BY <1>1, <1>2, <2>2, <2>4, FindPull
<1>3. CASE GivesUp
  BY <1>1, <1>3, IdleIs, PollBlocks
<1>4. ASSUME CompleteNow = {}, front.eng = "answered", ~GivesUp
      PROVE  BlocksInv'
  <2> DEFINE up(i) == Usable(disk[i].man)
             best == {i \in DoneNow : up(i) > 0 /\ \A j \in DoneNow : up(j) <= up(i) /\ (up(j) = up(i) => j <= i)}
  <2>1. (\E i \in best : 2 * up(i) >= Len(front.ids)) /\ To("pull", Min(best))
    BY <1>4 DEF Scan
  <2>2. best # {} /\ best \subseteq New /\ \A i \in best : disk[i].state = "done" /\ Usable(disk[i].man) > 0
    BY <2>1 DEF DoneNow
  <2>3. PICK i : i = Min(best)
    OBVIOUS
  <2> HIDE DEF best
  <2>4. i \in best
    BY <2>2, <2>3, FoundIs
  <2>5. i \in New /\ disk[i].state = "done" /\ Usable(disk[i].man) > 0
    BY <2>2, <2>4
  <2> QED BY <1>1, <2>1, <2>3, <2>5, FindPull
<1> QED BY <1>2, <1>3, <1>4 DEF Scan

LEMMA WaitBlocks ==
  ASSUME TypesInv, BlocksInv, WaitDone
  PROVE  BlocksInv'
<1>1. UNCHANGED <<hookVars, run, stored, kept, turn>> /\ Busy /\ front.phase = "seal"
  BY DEF WaitDone, Busy
<1>2. CASE GivesUp
  BY <1>1, <1>2, IdleIs, PollBlocks
<1>3. CASE ~GivesUp
  <2>1. PICK i : i = front.stamp
    OBVIOUS
  <2>2. /\ disk[i].state = "done" /\ ~(2 * Usable(disk[i].man) < Len(front.ids)) /\ To("pull", i)
    BY <1>3, <2>1 DEF WaitDone
  <2>3. i \in DOMAIN disk /\ i > front.before
    BY <1>1, <2>1 DEF BlocksInv, FrontTurn
  <2>4. UsableWith(kept, disk[i].man) > 0
    <3>1. PICK n : n = Usable(disk[i].man)
      OBVIOUS
    <3>2. n \in Int
      <4>1. OfTurn(req, disk, copies, run, front.ids, kept, front.before)
        BY <1>1, BusyIs
      <4>2. DirTurn(disk[i], front.ids, kept)
        BY <2>3, <4>1 DEF OfTurn, TurnOK
      <4>3. disk[i].man.T \in Nat
        BY <2>2, <4>2 DEF DirTurn, DoneOK
      <4> QED BY <3>1, <4>3 DEF Usable
    <3>3. Len(front.ids) \in Nat /\ Len(front.ids) >= 1 /\ ~(2 * n < Len(front.ids))
      BY <1>1, <2>2, <3>1, BusyIs
    <3>4. n > 0
      BY <3>2, <3>3
    <3> QED BY <3>1, <3>4, UsableIs
  <2>5. front'.phase = "pull" /\ front'.stamp = i /\ front'.ids = front.ids /\ front'.before = front.before
    BY <2>2, ToIs
  <2> QED BY <1>1, <2>2, <2>3, <2>4, <2>5, PollBlocks
<1> QED BY <1>2, <1>3

LEMMA PickBlocks ==
  ASSUME TypesInv, BlocksInv, Pick
  PROVE  BlocksInv'
<1>1. UNCHANGED <<hookVars, run, stored, kept, turn>> /\ Busy /\ front.phase = "pick"
  BY DEF Pick, Busy
<1>2. CASE GivesUp
  BY <1>1, <1>2, IdleIs, PollBlocks
<1>3. CASE ~GivesUp
  <2> DEFINE there == {i \in New : Names(i)}
  <2>1. PICK i : i = Max(there)
    OBVIOUS
  <2>2. PICK ph \in {"segments", "seal"} : there # {} /\ To(ph, i)
    BY <1>3, <2>1 DEF Pick
  <2>3. i \in New
    <3>1. there \subseteq New
      OBVIOUS
    <3> HIDE DEF there
    <3> QED BY <2>1, <2>2, <3>1, FoundIs
  <2>4. front'.phase = ph /\ front'.stamp = i /\ front'.ids = front.ids /\ front'.before = front.before /\ front'.next = front.next
    BY <2>2, ToIs
  <2>5. front.next = Block /\ DOMAIN stored.blocks = {}
    BY <1>1 DEF BlocksInv, FrontTurn, Empty
  <2>6. Block \in Nat /\ Block >= Block /\ Block % Block = 0 /\ Boundaries(0, Block - Block) = {}
    <3>1. PICK n \in Nat : n = Block /\ n >= 1
      BY Sizes
    <3>2. n - n = 0 /\ n % n = 0
      BY <3>1, DivOnly
    <3>3. Boundaries(0, 0) = {}
      BY DEF Boundaries
    <3> QED BY <3>1, <3>2, <3>3
  <2> QED BY <1>1, <2>2, <2>3, <2>4, <2>5, <2>6, PollBlocks DEF New
<1> QED BY <1>2, <1>3

LEMMA StreamBlocks ==
  ASSUME TypesInv, BlocksInv, SeeDone \/ StreamEnds
  PROVE  BlocksInv'
<1>1. UNCHANGED <<hookVars, run, stored, kept, turn>> /\ Busy /\ front.phase = "segments"
  BY DEF SeeDone, StreamEnds, Busy
<1>2. CASE GivesUp
  BY <1>1, <1>2, IdleIs, PollBlocks
<1>3. CASE SeeDone
  <2>1. front = [y \in FrontFields |-> front[y]]
    BY DEF TypesInv, FrontOK
  <2>2. PICK m : front' = [front EXCEPT !.man = m]
    BY <1>3 DEF SeeDone
  <2>3. front'.phase = "segments" /\ front'.stamp = front.stamp /\ front'.ids = front.ids /\ front'.before = front.before
        /\ front'.next = front.next
    BY <1>1, <2>1, <2>2 DEF FrontFields
  <2>4. /\ front.stamp \in DOMAIN disk /\ front.stamp > front.before
        /\ front.next \in Nat /\ front.next >= Block /\ front.next % Block = 0
        /\ DOMAIN stored.blocks = Boundaries(0, front.next - Block)
    BY <1>1 DEF BlocksInv, FrontTurn
  <2> QED BY <1>1, <2>3, <2>4, PollBlocks
<1> QED BY <1>2, <1>3 DEF StreamEnds
\* The boundary after the next one.
LEMMA NextBoundary ==
  ASSUME NEW b \in Nat, b >= Block, b % Block = 0
  PROVE  /\ (b + Block) % Block = 0 /\ b + Block \in Nat /\ b + Block >= Block /\ (b + Block) - Block = b
         /\ Boundaries(0, b) = Boundaries(0, b - Block) \cup {b}
<1>1. PICK n \in Nat : n = Block /\ n >= 1
  BY Sizes
<1>2. (b + n) % n = 0
  <2>1. PICK q \in Nat, m \in Nat : q = b \div n /\ m = b % n
    BY <1>1, DivMod
  <2>2. m = 0 /\ b = q * n + m
    BY <1>1, <2>1, DivMod
  <2>3. b = q * n
    <3>1. PICK c \in Nat : c = q * n
      OBVIOUS
    <3> QED BY <2>2, <3>1
  <2>4. b + n = (q + 1) * n + 0
    <3>1. (q + 1) * n = q * n + n
      BY <1>1
    <3>2. PICK c \in Nat : c = (q + 1) * n
      BY <1>1
    <3> QED BY <1>1, <2>3, <3>1, <3>2
  <2>5. PICK u, v : u = q + 1 /\ v = b + n
    OBVIOUS
  <2>6. u \in Nat /\ v \in Nat /\ n \in Nat /\ n >= 1 /\ 0 \in Nat /\ 0 < n
    BY <1>1, <2>5
  <2>7. v = u * n + 0
    BY <2>4, <2>5
  <2>8. v % n = 0
    BY ONLY <2>6, <2>7, DivOnly
  <2> QED BY <2>5, <2>8
<1>3. b - n \in Nat /\ b + n \in Nat /\ b + n >= n /\ (b + n) - n = b
  BY <1>1
<1>4. ASSUME NEW c
      PROVE  c \in Boundaries(0, b) <=> c \in Boundaries(0, b - n) \cup {b}
  <2>1. c \in Boundaries(0, b) <=> c \in Nat /\ 0 < c /\ c <= b /\ c % Block = 0
    BY BoundaryIs
  <2>2. c \in Boundaries(0, b - n) <=> c \in Nat /\ 0 < c /\ c <= b - n /\ c % Block = 0
    BY <1>3, BoundaryIs
  <2>3. c \in Nat /\ c % Block = 0 /\ c < b => c <= b - n
    BY <1>1, NextBlock
  <2> QED BY <1>1, <1>3, <2>1, <2>2, <2>3
<1>5. Boundaries(0, b) = Boundaries(0, b - n) \cup {b}
  BY <1>4
<1> QED BY <1>1, <1>2, <1>3, <1>5

\* A segment of a capture of the turn is a true one of the prompt of the turn.
LEMMA SegmentIs ==
  ASSUME NoneIsApart, TypesInv, LostInv, NEW p, IsSeq(p), NEW k, NEW before, TurnOK(req, disk, p, k, before),
         NEW i \in DOMAIN disk, i > before, NEW b \in DOMAIN disk[i].segs
  PROVE  disk[i].segs[b] = TrueSegment(p, b) /\ b \in Nat /\ b % Block = 0
<1>1. PICK x : x = disk[i]
  OBVIOUS
<1>2. SegsOK(x) /\ b \in Nat /\ b > 0 /\ b % Block = 0
  BY <1>1 DEF TypesInv, PairOK, DirOK, LostInv, LostOK
<1>3. Prefix(x.of, p)
  <2>1. CASE x.state = "open"
    <3>1. req # None /\ req.id = i /\ Held(req)
      BY <1>1, <2>1 DEF TypesInv, PairOK
    <3>2. HeldOK(req, x) /\ ReqTurn(req, p, k)
      BY <1>1, <3>1 DEF LostInv, LostOK, TurnOK
    <3>3. req.partial = 0
      BY <1>1, <1>2, <3>2 DEF HeldOK
    <3> QED BY <3>2, <3>3 DEF HeldOK, ReqTurn
  <2>2. CASE x.state # "open"
    <3>1. DirTurn(x, p, k)
      BY <1>1 DEF TurnOK
    <3> QED BY <1>1, <2>2, <3>1 DEF DirTurn
  <2> QED BY <2>1, <2>2
<1>4. IsSeq(x.of) /\ b <= Size(x.of) /\ x.segs[b] = TrueSegment(x.of, b)
  BY <1>1, <1>2 DEF SegsOK
<1>5. TrueSegment(x.of, b) = TrueSegment(p, b)
  <2>1. PICK q, n : q = x.of /\ n = Size(x.of)
    OBVIOUS
  <2>2. IsSeq(q) /\ IsSeq(p) /\ n \in Nat /\ n <= Size(q) /\ n <= Size(p) /\ Agree(q, p, n) /\ b \in Nat /\ 0 < b /\ b <= n /\ b % Block = 0
    BY <1>2, <1>3, <1>4, <2>1, SizeIs DEF Prefix
  <2>3. TrueSegment(q, b) = TrueSegment(p, b)
    BY ONLY <2>2, AgreeSegment
  <2> QED BY <2>1, <2>3
<1> QED BY <1>1, <1>2, <1>4, <1>5

\* The next segment is pulled.
LEMMA SegmentBlocks ==
  ASSUME NoneIsApart, TypesInv, LostInv, BlocksInv, PullSegment
  PROVE  BlocksInv'
<1>1. UNCHANGED <<hookVars, run, kept, turn>> /\ Busy /\ front.phase = "segments"
  BY DEF PullSegment, Busy
<1>2. UNCHANGED <<req, disk, copies, run, kept, turn>>
  BY <1>1 DEF hookVars
<1>3. PICK p, b, g : p = front.ids /\ b = front.next /\ g = Grown(b, Segs[b])
  OBVIOUS
<1>4. /\ front' = [front EXCEPT !.next = b + Block]
      /\ stored' = [stored EXCEPT !.blocks = Updated(@, One(b, g))] /\ b \in DOMAIN disk[front.stamp].segs
      /\ Segs[b] = disk[front.stamp].segs[b]
  BY <1>3 DEF PullSegment, One, Segs
<1>5. /\ turn > 0 /\ stored.ids = p /\ p = Turns[turn] /\ IsSeq(p)
      /\ OfTurn(req, disk, copies, run, p, kept, front.before)
  BY <1>1, <1>3, BusyIs
<1>6. /\ front.stamp \in DOMAIN disk /\ front.stamp > front.before /\ b \in Nat /\ b >= Block /\ b % Block = 0
      /\ DOMAIN stored.blocks = Boundaries(0, b - Block)
  BY <1>1, <1>3 DEF BlocksInv, FrontTurn
<1>7. Segs[b] = TrueSegment(p, b)
  <2>1. TurnOK(req, disk, p, kept, front.before)
    BY <1>5 DEF OfTurn
  <2> QED BY <1>4, <1>5, <1>6, <2>1, SegmentIs
<1>8. \A c \in DOMAIN stored.blocks : stored.blocks[c] = TrueBlock(p, c)
  BY <1>5 DEF BlocksInv, BlocksAreTrue
<1>9. g = TrueBlock(p, b)
  <2>1. b # Block => stored.blocks[b - Block] = TrueBlock(p, b - Block)
    <3> HAVE b # Block
    <3>1. PICK n \in Nat : n = Block /\ n >= 1
      BY Sizes
    <3>2. PICK c : c = b - n
      OBVIOUS
    <3>3. c \in Boundaries(0, b - Block)
      <4>1. c \in Nat /\ 0 < c /\ c <= c
        BY <1>6, <3>1, <3>2
      <4>2. c % Block = 0
        <5>1. PICK q \in Nat, m \in Nat : q = b \div n /\ m = b % n /\ b = q * n + m
          BY <1>6, <3>1, DivMod
        <5>2. m = 0 /\ q # 0
          BY <1>6, <3>1, <5>1
        <5>3. q - 1 \in Nat /\ q * n = (q - 1) * n + n
          BY <3>1, <5>2
        <5>4. PICK u, v \in Nat : u = q * n /\ v = (q - 1) * n
          BY <3>1, <5>2, <5>3
        <5>5. c = (q - 1) * n + 0
          BY <3>1, <3>2, <5>1, <5>2, <5>3, <5>4
        <5> QED BY <3>1, <4>1, <5>3, <5>5, DivOnly
      <4> QED BY <3>1, <3>2, <4>1, <4>2, BoundaryIs
    <3> QED BY <1>6, <1>8, <3>1, <3>2, <3>3
  <2>2. Grown(b, TrueSegment(p, b)) = TrueBlock(p, b)
    BY <1>6, <2>1, GrownIs
  <2> QED BY <1>3, <1>7, <2>2
<1>10. PICK blocks : blocks = stored'.blocks
  OBVIOUS
<1>11. stored'.ids = p /\ DOMAIN blocks = DOMAIN stored.blocks \cup {b} /\ \A c \in DOMAIN blocks : blocks[c] = TrueBlock(p, c)
  <2>1. stored'.ids = p /\ blocks = Updated(stored.blocks, One(b, g))
    BY <1>4, <1>5, <1>10
  <2> QED BY <1>8, <1>9, <2>1 DEF Updated, One
<1>12. /\ front'.phase = front.phase /\ front'.ids = p /\ front'.before = front.before /\ front'.stamp = front.stamp
       /\ front'.next = b + Block
  <2>1. front = [y \in FrontFields |-> front[y]]
    BY DEF TypesInv, FrontOK
  <2> QED BY <1>3, <1>4, <2>1 DEF FrontFields
<1>13. /\ front'.next \in Nat /\ front'.next >= Block /\ front'.next % Block = 0
       /\ DOMAIN stored'.blocks = Boundaries(0, front'.next - Block)
  <2>1. /\ (b + Block) % Block = 0 /\ b + Block \in Nat /\ b + Block >= Block /\ (b + Block) - Block = b
        /\ Boundaries(0, b) = Boundaries(0, b - Block) \cup {b}
    BY <1>6, NextBoundary
  <2> QED BY <1>6, <1>10, <1>11, <1>12, <2>1
<1>14. FrontTurn'
  <2>1. /\ turn' > 0 /\ front'.ids = Turns[turn'] /\ stored'.ids = front'.ids
        /\ OfTurn(req', disk', copies', run', front'.ids, kept', front'.before)
    BY <1>2, <1>5, <1>11, <1>12
  <2>2. front'.phase = "segments" /\ front'.stamp \in DOMAIN disk' /\ front'.stamp > front'.before
    BY <1>1, <1>2, <1>6, <1>12
  <2> QED BY <1>13, <2>1, <2>2 DEF FrontTurn
<1>15. BlocksAreTrue' /\ KeptTurn' /\ StatesOK(disk', copies', kept')
  BY <1>2, <1>10, <1>11 DEF BlocksInv, BlocksAreTrue, KeptTurn
<1> QED BY <1>14, <1>15 DEF BlocksInv
\* a layer file from which true blocks are made: one that has the rows from the first on, or one without pooled rows
GoodFile(file, li, p) == (\E N \in Nat : \E e : file = FileWith(li, p, 0, N, e)) \/ TailFile(file, p)

LEMMA GoodLayer ==
  ASSUME NEW li \in Layers, NEW p, NEW file, GoodFile(file, li, p), NEW b, HasLayer(file, li, b)
  PROVE  LayerAt(file, li, b) = TrueBlock(p, b)[li]
<1>1. CASE \E N \in Nat : \E e : file = FileWith(li, p, 0, N, e)
  <2>1. PICK N \in Nat : \E e : file = FileWith(li, p, 0, N, e)
    BY <1>1
  <2>2. PICK e : file = FileWith(li, p, 0, N, e)
    BY <2>1
  <2> QED BY <2>2, BlockAt
<1>2. CASE TailFile(file, p)
  <2>1. b \in DOMAIN file.kv.win /\ file.kv.win[b] = TrueWindow(p, b)
    BY <1>2 DEF HasLayer, TailFile
  <2>2. PoolsOf(li) = {}
    BY <1>2 DEF HasLayer, TailFile
  <2>3. TrueBlock(p, b)[li] = [win |-> TrueWindow(p, b), pools |-> [k \in {} |-> 0]]
    BY <2>2 DEF TrueBlock
  <2>4. LayerAt(file, li, b) = [win |-> file.kv.win[b], pools |-> [k \in {} |-> 0]]
    BY <2>2 DEF LayerAt
  <2> QED BY <2>1, <2>3, <2>4
<1> QED BY <1>1, <1>2 DEF GoodFile

\* A layer of a finished capture: what its file has, and what its saved state says if it was saved.
LEMMA FileOfIs ==
  ASSUME NEW li \in Layers, NEW p, IsSeq(p), NEW from \in Nat, NEW T0 \in Nat, T0 <= Size(p), NEW x, FileOf(x, li, p, from, T0),
         NEW T \in Nat, T = x.man.T
  PROVE  \E N \in Nat : \E e :
           /\ from <= N /\ N <= Size(p) /\ x.files[li] = FileWith(li, p, from, N, e)
           /\ T = Size(p) /\ DOMAIN x.kvstate.rows[li] # {} =>
                N = T /\ e = TrueEnds(li, p, T) /\ x.kvstate.rows[li] = TrueRows(p, li, T, T)
<1>1. PICK N \in Nat :
        /\ from <= N /\ N <= Size(p) /\ N <= x.man.T
        /\ x.files[li] = LayerFile(TrueLayer(li, p, from, 0, T0, N), li, x.man.T, FALSE)
        /\ x.kvstate.rows[li] = EndRows(TrueLayer(li, p, from, 0, T0, N), x.man.T)
  BY DEF FileOf
<1>2. PICK e : e = Ends(li, p, T0, N, T)
  OBVIOUS
<1>3. x.files[li] = FileWith(li, p, from, N, e)
  <2>1. LayerFile(TrueLayer(li, p, from, 0, T0, N), li, T, FALSE) = FileWith(li, p, from, N, Ends(li, p, T0, N, T))
    BY ONLY FileIs
  <2>2. x.files[li] = LayerFile(TrueLayer(li, p, from, 0, T0, N), li, T, FALSE)
    BY <1>1
  <2> QED BY ONLY <1>2, <2>1, <2>2
<1>4. ASSUME T = Size(p), DOMAIN x.kvstate.rows[li] # {}
      PROVE  N = T /\ e = TrueEnds(li, p, T) /\ x.kvstate.rows[li] = TrueRows(p, li, T, T)
  <2>1. PICK rows : rows = EndRows(TrueLayer(li, p, from, 0, T0, N), T)
    OBVIOUS
  <2>2. x.kvstate.rows[li] = rows
    BY <1>1, <2>1
  <2>3. /\ N = T /\ T0 <= T => rows = TrueRows(p, li, T, T)
        /\ N # T => DOMAIN rows = {}
    BY <2>1, EndRowsIs
  <2>4. N = T /\ T0 <= T /\ rows = TrueRows(p, li, T, T)
    BY <1>4, <2>2, <2>3
  <2>5. e = TrueEnds(li, p, T)
    <3>1. Ends(li, p, T0, T, T) = TrueEnds(li, p, T)
      BY <1>4, <2>4, EndsTrue
    <3> QED BY <1>2, <2>4, <3>1
  <2> QED BY <2>2, <2>4, <2>5
<1> QED BY <1>1, <1>3, <1>4

\* The files of a finished capture that the front may use, joined to its parent's if it goes on from it: they make true
\* blocks, and if the capture reaches the end of the prompt they are, layer by layer, those of one made in one go.
LEMMA PulledFiles ==
  ASSUME NEW p, IsSeq(p), ParentOK(kept, p), NEW x, DoneOK(x, p, kept), UsableWith(kept, x.man) > 0, DOMAIN x.files = Layers
  PROVE  /\ DOMAIN FilesFor(x) = Layers
         /\ \A li \in Layers :
              /\ GoodFile(FilesFor(x)[li], li, p)
              /\ ~x.man.streamed /\ x.man.T = Size(p) /\ DOMAIN x.kvstate.rows[li] # {} =>
                   x.kvstate.rows[li] = TrueRows(p, li, x.man.T, x.man.T) /\ FilesFor(x)[li] = TrueFile(p, x.man.T, li)
<1>1. PICK T \in Nat : T = x.man.T
  BY DEF DoneOK
<1>2. Size(p) \in Nat /\ x.man.partial \in Nat /\ x.man.resume \in {0, x.man.partial}
  BY SizeIs DEF DoneOK
<1>3. CASE x.man.resume # 0
  <2>1. Child(x.man, kept) /\ ~x.man.gaps /\ x.man.partial # 0
    BY <1>2, <1>3 DEF UsableWith, Child
  <2>2. PICK S, M, q : S = x.man.resume /\ M = kept.T /\ q = kept.of
    OBVIOUS
  <2>3. S \in Nat /\ S <= M /\ \A li \in Layers : Seeded(kept, li) /\ FileOf(x, li, p, S, M)
    BY <1>2, <2>1, <2>2 DEF DoneOK
  <2>4. /\ IsSeq(q) /\ M = Size(q) /\ M \in Nat /\ Prefix(q, p)
        /\ \A li \in Layers : Seeded(kept, li) => kept.files[li] = TrueFile(q, M, li)
    BY <2>1, <2>2, SizeIs DEF ParentOK, Child
  <2>5. M <= Size(p) /\ S <= Size(q) /\ S <= Size(p) /\ Agree(q, p, S)
    BY <1>2, <2>3, <2>4 DEF Prefix, Agree
  <2>6. DOMAIN FilesFor(x) = Layers
    BY <1>3 DEF FilesFor, Merged
  <2>7. ASSUME NEW li \in Layers
        PROVE  /\ GoodFile(FilesFor(x)[li], li, p)
               /\ ~x.man.streamed /\ x.man.T = Size(p) /\ DOMAIN x.kvstate.rows[li] # {} =>
                    x.kvstate.rows[li] = TrueRows(p, li, x.man.T, x.man.T) /\ FilesFor(x)[li] = TrueFile(p, x.man.T, li)
    <3>1. Seeded(kept, li) /\ FileOf(x, li, p, S, M)
      BY <2>3, <2>7
    <3>2. PICK N \in Nat : \E e :
            /\ S <= N /\ N <= Size(p) /\ x.files[li] = FileWith(li, p, S, N, e)
            /\ T = Size(p) /\ DOMAIN x.kvstate.rows[li] # {} =>
                 N = T /\ e = TrueEnds(li, p, T) /\ x.kvstate.rows[li] = TrueRows(p, li, T, T)
      BY <1>1, <2>3, <2>4, <2>5, <2>7, <3>1, FileOfIs
    <3>3. PICK e :
            /\ S <= N /\ N <= Size(p) /\ x.files[li] = FileWith(li, p, S, N, e)
            /\ T = Size(p) /\ DOMAIN x.kvstate.rows[li] # {} =>
                 N = T /\ e = TrueEnds(li, p, T) /\ x.kvstate.rows[li] = TrueRows(p, li, T, T)
      BY <3>2
    <3>4. kept.files[li] = FileWith(li, q, 0, M, TrueEnds(li, q, M))
      BY <2>4, <2>7, <3>1, TrueFileIs
    <3>5. FilesFor(x)[li] = FileWith(li, p, 0, N, e)
      <4>1. FilesFor(x)[li] = [kv |-> MergeKv(kept.files[li].kv, x.files[li].kv, S),
                               pools |-> [j \in DOMAIN x.files[li].pools |->
                                            MergePool(Kind[li], kept.files[li].pools[j], x.files[li].pools[j], S)]]
        BY <1>3, <2>2, <2>7 DEF FilesFor, Merged
      <4>2. PICK par, new, e0 : /\ e0 = TrueEnds(li, q, M) /\ par = FileWith(li, q, 0, M, e0) /\ new = FileWith(li, p, S, N, e)
        OBVIOUS
      <4>3. FilesFor(x)[li] = [kv |-> MergeKv(par.kv, new.kv, S),
                               pools |-> [j \in DOMAIN new.pools |-> MergePool(Kind[li], par.pools[j], new.pools[j], S)]]
        BY <3>3, <3>4, <4>1, <4>2
      <4>4. /\ li \in Layers /\ IsSeq(q) /\ IsSeq(p) /\ S \in Nat /\ M \in Nat /\ N \in Nat /\ S <= M /\ S <= N
            /\ S <= Size(q) /\ S <= Size(p) /\ Agree(q, p, S)
        BY <2>3, <2>4, <2>5, <2>7, <3>3
      <4>5. [kv |-> MergeKv(par.kv, new.kv, S),
             pools |-> [j \in DOMAIN new.pools |-> MergePool(Kind[li], par.pools[j], new.pools[j], S)]] = FileWith(li, p, 0, N, e)
        BY ONLY <4>2, <4>4, MergedIs
      <4> QED BY ONLY <4>3, <4>5
    <3>6. GoodFile(FilesFor(x)[li], li, p)
      BY <3>5 DEF GoodFile
    <3>7. T = Size(p) /\ DOMAIN x.kvstate.rows[li] # {} =>
            x.kvstate.rows[li] = TrueRows(p, li, T, T) /\ FilesFor(x)[li] = TrueFile(p, T, li)
      BY <3>3, <3>5, TrueFileIs
    <3> QED BY <1>1, <3>6, <3>7
  <2> QED BY <2>6, <2>7
<1>4. CASE x.man.resume = 0
  <2>1. x.man.partial = 0 /\ FilesFor(x) = x.files
    BY <1>4 DEF UsableWith, FilesFor
  <2>2. CASE x.man.streamed
    <3>1. \A li \in Layers : GoodFile(x.files[li], li, p)
      BY <2>2 DEF DoneOK, GoodFile
    <3> QED BY <2>1, <2>2, <3>1
  <2>3. CASE ~x.man.streamed
    <3>1. \A li \in Layers : FileOf(x, li, p, 0, 0)
      BY <2>1, <2>3 DEF DoneOK
    <3>2. ASSUME NEW li \in Layers
          PROVE  /\ GoodFile(x.files[li], li, p)
                 /\ T = Size(p) /\ DOMAIN x.kvstate.rows[li] # {} =>
                      x.kvstate.rows[li] = TrueRows(p, li, T, T) /\ x.files[li] = TrueFile(p, T, li)
      <4>1. FileOf(x, li, p, 0, 0) /\ 0 \in Nat /\ 0 <= Size(p)
        BY <1>2, <3>1, <3>2
      <4>2. PICK N \in Nat : \E e :
              /\ 0 <= N /\ N <= Size(p) /\ x.files[li] = FileWith(li, p, 0, N, e)
              /\ T = Size(p) /\ DOMAIN x.kvstate.rows[li] # {} =>
                   N = T /\ e = TrueEnds(li, p, T) /\ x.kvstate.rows[li] = TrueRows(p, li, T, T)
        BY <1>1, <3>2, <4>1, FileOfIs
      <4>3. PICK e :
              /\ x.files[li] = FileWith(li, p, 0, N, e)
              /\ T = Size(p) /\ DOMAIN x.kvstate.rows[li] # {} =>
                   N = T /\ e = TrueEnds(li, p, T) /\ x.kvstate.rows[li] = TrueRows(p, li, T, T)
        BY <4>2
      <4>4. GoodFile(x.files[li], li, p)
        BY <4>3 DEF GoodFile
      <4> QED BY <4>3, <4>4, TrueFileIs
    <3> QED BY <1>1, <2>1, <3>2
  <2> QED BY <2>2, <2>3
<1> QED BY <1>2, <1>3, <1>4
\* The blocks made of such files are true, whichever of them are stored.
LEMMA AssembledIs ==
  ASSUME NEW p, NEW files, NEW T, \A li \in Layers : GoodFile(files[li], li, p), NEW last
  PROVE  LET blocks == UpTo(Assembled(files, T, p), last)
         IN  \A b \in DOMAIN blocks : blocks[b] = TrueBlock(p, b)
<1> DEFINE all == Assembled(files, T, p)
<1>1. ASSUME NEW b \in DOMAIN all
      PROVE  all[b] = TrueBlock(p, b)
  <2>1. all[b] = [li \in Layers |-> LayerAt(files[li], li, b)] /\ \A li \in Layers : HasLayer(files[li], li, b)
    <3>1. b \in Int
      BY <1>1 DEF Assembled, Boundaries
    <3> QED BY <1>1, <3>1 DEF Assembled
  <2>2. \A li \in Layers : LayerAt(files[li], li, b) = TrueBlock(p, b)[li]
    BY <2>1, GoodLayer
  <2>3. TrueBlock(p, b) = [li \in Layers |-> TrueBlock(p, b)[li]]
    BY DEF TrueBlock
  <2> HIDE DEF all
  <2>4. [li \in Layers |-> LayerAt(files[li], li, b)] = [li \in Layers |-> TrueBlock(p, b)[li]]
    BY <2>2
  <2> QED BY <2>1, <2>3, <2>4
<1> HIDE DEF all
<1>2. \A b \in DOMAIN UpTo(all, last) : b \in DOMAIN all /\ UpTo(all, last)[b] = all[b]
  BY DEF UpTo
<1> QED BY <1>1, <1>2 DEF all

\* A finished capture is pulled, assembled and perhaps kept as the next parent.
LEMMA PullBlocks ==
  ASSUME TypesInv, BlocksInv, PullAndAssemble
  PROVE  BlocksInv'
<1>1. UNCHANGED <<req, disk, copies, run, turn>> /\ Busy /\ front.phase = "pull" /\ front'.phase = "idle"
  BY DEF PullAndAssemble, Busy, hookVars, Idle
<1>2. FrontTurn'
  BY <1>1 DEF FrontTurn, Busy
<1>3. CASE UNCHANGED <<stored, kept, faults>>
  <2>1. BlocksAreTrue' /\ KeptTurn' /\ StatesOK(disk', copies', kept')
    BY <1>1, <1>3 DEF BlocksInv, BlocksAreTrue, KeptTurn
  <2> QED BY <1>2, <2>1 DEF BlocksInv
<1>4. CASE ~UNCHANGED <<stored, kept, faults>>
  <2>1. PICK x, i, p, files : /\ i = front.stamp /\ x = disk[i] /\ p = front.ids /\ files = FilesFor(x)
    OBVIOUS
  <2>2. x.state = "done" /\ DOMAIN x.files = Layers /\ Stores(Assembled(files, x.man.T, p))
    BY <1>4, <2>1 DEF PullAndAssemble
  <2>3. /\ turn > 0 /\ turn \in 1 .. Len(Turns) /\ p = Turns[turn] /\ IsSeq(p) /\ Size(p) = Len(p) /\ Prefix(p, p)
        /\ OfTurn(req, disk, copies, run, p, kept, front.before)
    <3>1. turn \in 1 .. Len(Turns) /\ p = Turns[turn] /\ IsSeq(p) /\ Size(p) = Len(p)
          /\ OfTurn(req, disk, copies, run, p, kept, front.before)
      BY <1>1, <2>1, BusyIs
    <3> QED BY <3>1, TurnIs, RowBridgeAssumption
  <2>4. i \in DOMAIN disk /\ i > front.before /\ UsableWith(kept, x.man) > 0
    BY <1>1, <2>1, <2>2 DEF BlocksInv, FrontTurn
  <2>5. DoneOK(x, p, kept) /\ ParentOK(kept, p)
    <3>1. DirTurn(x, p, kept) /\ ParentOK(kept, p)
      BY <2>1, <2>3, <2>4 DEF OfTurn, TurnOK
    <3> QED BY <2>2, <3>1 DEF DirTurn
  <2>6. /\ DOMAIN files = Layers
        /\ \A li \in Layers :
             /\ GoodFile(files[li], li, p)
             /\ ~x.man.streamed /\ x.man.T = Size(p) /\ DOMAIN x.kvstate.rows[li] # {} =>
                  x.kvstate.rows[li] = TrueRows(p, li, x.man.T, x.man.T) /\ files[li] = TrueFile(p, x.man.T, li)
    BY <2>1, <2>2, <2>3, <2>4, <2>5, PulledFiles
  <2>7. PICK last : /\ stored' = [ids |-> p, blocks |-> UpTo(Assembled(files, x.man.T, p), last)]
                    /\ \/ kept' = kept
                       \/ /\ Usable(x.man) = Len(p) /\ ~x.man.streamed /\ kept' = Remembered(i, p, files, x.kvstate)
    BY <2>1, <2>2 DEF Stores
  <2>8. BlocksAreTrue'
    <3>1. \A b \in DOMAIN stored'.blocks : stored'.blocks[b] = TrueBlock(p, b)
      BY <2>6, <2>7, AssembledIs
    <3> QED BY <2>7, <3>1 DEF BlocksAreTrue
  <2>9. CASE kept' = kept
    <3>1. KeptTurn' /\ StatesOK(disk', copies', kept')
      BY <1>1, <2>9 DEF BlocksInv, KeptTurn
    <3> QED BY <1>2, <2>8, <3>1 DEF BlocksInv
  <2>10. CASE Usable(x.man) = Len(p) /\ ~x.man.streamed /\ kept' = Remembered(i, p, files, x.kvstate)
    <3>1. PICK k : k = kept'
      OBVIOUS
    <3>2. k.stamp = i /\ k.T = Size(p) /\ k.of = p /\ k.files = files /\ k.kvstate = x.kvstate
      BY <2>3, <2>10, <3>1 DEF Remembered
    <3>3. x.man.T = Size(p)
      <4>1. UsableWith(kept, x.man) = x.man.T \/ UsableWith(kept, x.man) = 0
        BY DEF UsableWith
      <4>2. UsableWith(kept, x.man) = Size(p)
        BY <2>3, <2>10, UsableIs
      <4> QED BY <2>4, <4>1, <4>2
    <3>4. x.kvstate.T = Size(p) /\ DOMAIN x.kvstate.rows = Layers
      BY <2>2, <2>5, <3>3 DEF DoneOK
    <3>5. \A li \in Layers : Seeded(k, li) => k.kvstate.rows[li] = TrueRows(k.of, li, k.T, k.T) /\ k.files[li] = TrueFile(k.of, k.T, li)
      BY <2>6, <2>10, <3>2, <3>3 DEF Seeded
    <3>6. ParentOK(k, p)
      BY <2>3, <2>6, <3>2, <3>4, <3>5 DEF ParentOK
    <3>7. KeptTurn'
      <4>1. turn' \in 1 .. turn' /\ p = Turns[turn']
        BY <1>1, <2>3, RowBridgeAssumption
      <4>2. kept' # None => ParentOK(kept', kept'.of) /\ kept'.of = Turns[turn']
        BY <3>1, <3>2, <3>6, <4>1
      <4> QED BY <4>1, <4>2 DEF KeptTurn
    <3>8. StatesOK(disk, copies, k)
      <4>1. StatesOK(disk, copies, kept)
        BY DEF BlocksInv
      <4>2. x.kvstate.stamp = i
        BY <2>1, <2>2, <2>4 DEF TypesInv, PairOK, DirOK
      <4>3. \A s \in copies : /\ s.stamp \in DOMAIN disk /\ disk[s.stamp].state # "open"
                              /\ disk[s.stamp].state = "done" => s = disk[s.stamp].kvstate
        BY <4>1 DEF StatesOK
      <4>4. \A s \in copies : s.stamp = i => s = x.kvstate
        BY <2>1, <2>2, <4>3
      <4> QED BY <2>1, <2>2, <2>4, <3>2, <4>2, <4>3, <4>4 DEF StatesOK
    <3> QED BY <1>1, <1>2, <2>8, <3>1, <3>7, <3>8 DEF BlocksInv
  <2> QED BY <2>7, <2>9, <2>10
<1> QED BY <1>3, <1>4
LEMMA BlocksNext ==
  ASSUME NoneIsApart, Growing, TypesInv, LostInv, BlocksInv, [RowNext]_rowVars
  PROVE  BlocksInv'
<1>1. CASE FrontDoor
  BY <1>1, AskBlocks, ScanBlocks, PickBlocks, SegmentBlocks, StreamBlocks, WaitBlocks, PullBlocks DEF FrontDoor
<1>2. CASE Pair
  BY <1>2, WorkBlocks, WatchBlocks, EngineBlocks DEF Pair
<1>3. CASE UNCHANGED rowVars
  <2>1. UNCHANGED <<req, disk, copies, run, front, stored, kept, turn>>
    BY <1>3 DEF rowVars, hookVars, bridgeVars
  <2>2. OfTurn(req', disk', copies', run', front'.ids, kept', front'.before)
          <=> OfTurn(req, disk, copies, run, front.ids, kept, front.before)
    BY <2>1
  <2>3. FrontTurn'
    BY <2>1, <2>2 DEF FrontTurn, BlocksInv, Busy
  <2>4. BlocksAreTrue' /\ KeptTurn' /\ StatesOK(disk', copies', kept')
    BY <2>1 DEF BlocksInv, BlocksAreTrue, KeptTurn
  <2> QED BY <2>3, <2>4 DEF BlocksInv
<1> QED BY <1>1, <1>2, <1>3 DEF RowNext

LEMMA BlocksAlways ==
  ASSUME NoneIsApart, NL < GuardEvery, Growing
  PROVE  RowSpec => []BlocksInv
<1>1. TypesInv /\ LostInv /\ BlocksInv /\ [RowNext]_rowVars => BlocksInv'
  BY BlocksNext
<1>2. TypesInv /\ LostInv /\ [RowNext]_rowVars => LostInv'
  BY LostNext
<1>3. RowInit => BlocksInv /\ LostInv
  BY BlocksInit, LostInit
<1>4. RowSpec => []TypesInv
  BY TypesAlways
<1> QED BY <1>1, <1>2, <1>3, <1>4, PTL DEF RowSpec

\* A block that is stored under a prompt is what the decoder itself would hold there (BlocksAreTrue): whichever way the
\* capture came, in one go, in segments or as the continuation of the capture of a turn before, whatever the chunks, the
\* prefix hits of the engine, the clients between two turns, and the failures of the disk, the memory and the engine.
THEOREM BlocksAlwaysTrue ==
  ASSUME NoneIsApart, NL < GuardEvery, Growing
  PROVE  RowSpec => []BlocksAreTrue
<1>1. BlocksInv => BlocksAreTrue
  BY DEF BlocksInv
<1>2. RowSpec => []BlocksInv
  BY BlocksAlways
<1> QED BY <1>1, <1>2, PTL

\* The capture that is kept as a parent, merged over as many turns as it may be, is the one-shot capture of its prompt in
\* every layer whose state was saved (KeptIsWhole).
THEOREM KeptAlwaysWhole ==
  ASSUME NoneIsApart, NL < GuardEvery, Growing
  PROVE  RowSpec => []KeptIsWhole
<1>1. BlocksInv => KeptIsWhole
  BY KeptWhole DEF BlocksInv
<1>2. RowSpec => []BlocksInv
  BY BlocksAlways
<1> QED BY <1>1, <1>2, PTL
=============================================================================
