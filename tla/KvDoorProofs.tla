----------------------------- MODULE KvDoorProofs -----------------------------
(***************************************************************************)
(* What the front door of the kv modes tells its client is so: a verdict   *)
(* is taken on the main thread, from the block files that the decoder will *)
(* look for, while the pair, the SSD manager and the decoder write others. *)
(***************************************************************************)
EXTENDS KvDoor, NatLemmas, TLAPS

Verdicts == {"empty", "skipped", "declined", "complete", "partial"}

\* every full block of the prompt of client i is there
Whole(i) == \A j \in 1 .. Pages(Asked[i]) : OnDisk(Asked[i], j)

\* What is told is a verdict, and a complete one is true.
VerdictInv ==
  /\ box \in [Clients -> Verdicts]
  /\ \A i \in Clients : box[i] = "complete" => Whole(i)

\* A prompt has a whole number of pages.
LEMMA PagesType ==
  ASSUME NEW i \in Clients
  PROVE  Pages(Asked[i]) \in Nat
<1>1. Asked[i] \in Seq(Nat)
  BY KvDoorAssumption DEF Clients
<1>2. Len(Asked[i]) \in Nat /\ Page \in Nat \ {0}
  BY <1>1, KvDoorAssumption
<1>3. ASSUME NEW l \in Nat, NEW m \in Nat \ {0} PROVE l \div m \in Nat
  OBVIOUS
<1> QED BY <1>2, <1>3 DEF Pages

\* cached_prefix_tokens: the pages it counts are there, and the next one is not.
LEMMA CachedPagesSpec ==
  ASSUME NEW i \in Clients
  PROVE  LET p == Asked[i]
             n == CachedPages(p)
         IN  /\ n \in 0 .. Pages(p)
             /\ \A j \in 1 .. n : OnDisk(p, j)
             /\ n < Pages(p) => ~OnDisk(p, n + 1)
<1> DEFINE p == Asked[i]
           N == Pages(p)
           Fit(n) == (\A j \in 1 .. n : OnDisk(p, j)) /\ (n < N => ~OnDisk(p, n + 1))
           Missing == {k \in 1 .. N : ~OnDisk(p, k)}
<1>1. N \in Nat
  BY PagesType
<1>2. \E n \in 0 .. N : Fit(n)
  <2>1. CASE Missing = {}
    <3>1. \A j \in 1 .. N : OnDisk(p, j)
      BY <2>1
    <3>2. N \in 0 .. N /\ ~(N < N)
      BY <1>1
    <3> QED BY <3>1, <3>2
  <2>2. CASE Missing # {}
    <3>1. Missing \in SUBSET Nat
      BY <1>1
    <3>2. PICK m \in Missing : \A x \in Missing : m <= x
      <4> HIDE DEF Missing
      <4> QED BY <2>2, <3>1, LeastExists
    <3>3. m \in 1 .. N /\ ~OnDisk(p, m)
      BY <3>2
    <3>4. m - 1 \in 0 .. N /\ (m - 1) + 1 = m
      BY <1>1, <3>3
    <3>5. ASSUME NEW j \in 1 .. m - 1 PROVE OnDisk(p, j)
      <4>1. j \in 1 .. N /\ ~(m <= j)
        BY <1>1, <3>3
      <4> QED BY <3>2, <4>1
    <3> QED BY <3>3, <3>4, <3>5
  <2> QED BY <2>1, <2>2
<1>3. CachedPages(p) = CHOOSE n \in 0 .. N : Fit(n)
  BY DEF CachedPages
<1> HIDE DEF Fit
<1>4. CachedPages(p) \in 0 .. N /\ Fit(CachedPages(p))
  BY <1>2, <1>3
<1> QED BY <1>4 DEF Fit

\* All pages are counted if and only if they are there.
LEMMA CountedIsWhole ==
  ASSUME NEW i \in Clients
  PROVE  CachedPages(Asked[i]) = Pages(Asked[i]) <=> Whole(i)
<1> DEFINE n == CachedPages(Asked[i])
           N == Pages(Asked[i])
<1>1. n \in 0 .. N /\ (\A j \in 1 .. n : OnDisk(Asked[i], j)) /\ (n < N => ~OnDisk(Asked[i], n + 1))
  BY CachedPagesSpec
<1>2. N \in Nat
  BY PagesType
<1>3. n = N => Whole(i)
  BY <1>1 DEF Whole
<1>4. ASSUME Whole(i), n # N PROVE FALSE
  <2> HIDE DEF n, N
  <2>1. n < N /\ n + 1 \in 1 .. N
    BY <1>1, <1>2, <1>4
  <2>2. OnDisk(Asked[i], n + 1)
    BY <1>4, <2>1 DEF Whole, N
  <2> QED BY <1>1, <2>1, <2>2
<1> QED BY <1>3, <1>4

\* A block file is never taken away: whoever writes one, the others stay.
LEMMA FilesStay ==
  ASSUME [KvNext]_kvVars
  PROVE  DOMAIN ssd \subseteq DOMAIN ssd'
<1>1. CASE UNCHANGED ssd
  BY <1>1
<1>2. ASSUME NEW h, NEW rows, ssd' = With(ssd, h, rows) PROVE DOMAIN ssd \subseteq DOMAIN ssd'
  BY <1>2 DEF With
<1>3. ASSUME NEW i \in Clients, Arrive(i) \/ GoesOn(i) \/ CommitsCapture(i) \/ EngineEnds(i) \/ Copies(i) \/ Restores(i)
      PROVE UNCHANGED ssd
  BY <1>3 DEF Arrive, GoesOn, CommitsCapture, EngineEnds, Copies, Restores
<1>4. ASSUME NEW i \in Clients, Sends(i) PROVE DOMAIN ssd \subseteq DOMAIN ssd'
  BY <1>2, <1>4 DEF Sends
<1>5. CASE Bridges
  BY <1>5 DEF Bridges, Takes, GivesUpWaiting, SeesDone, Assembles, PullFails, PullHangs, Drains
<1>6. CASE Commits
  BY <1>2, <1>6 DEF Commits
<1>7. CASE TakesStage
  BY <1>7 DEF TakesStage
<1>8. CASE Serves
  BY <1>8 DEF Serves
<1>9. CASE UNCHANGED kvVars
  BY <1>9 DEF kvVars
<1> QED BY <1>3, <1>4, <1>5, <1>6, <1>7, <1>8, <1>9 DEF KvNext, KvPair, Decodes

\* verdict(): "complete" is said of all pages only.
LEMMA VerdictType ==
  ASSUME NEW n
  PROVE  Verdict(n) \in Verdicts /\ (Verdict(n) = "complete" => n = Pages(Ids))
BY DEF Verdict, Verdicts

\* What the clients are told is true before the step's files are counted.
ToldTruly == box' \in [Clients -> Verdicts] /\ \A k \in Clients : box'[k] = "complete" => Whole(k)

\* One client is told something, and it is true.
LEMMA TellingOne ==
  ASSUME VerdictInv, NEW i, NEW v \in Verdicts, box' = [box EXCEPT ![i] = v],
         v = "complete" /\ i \in Clients => Whole(i)
  PROVE  ToldTruly
<1>1. box' \in [Clients -> Verdicts]
  BY DEF VerdictInv
<1>2. ASSUME NEW k \in Clients, box'[k] = "complete" PROVE Whole(k)
  <2>1. CASE k = i
    BY <1>2, <2>1 DEF VerdictInv
  <2>2. CASE k # i
    BY <1>2, <2>2 DEF VerdictInv
  <2> QED BY <2>1, <2>2
<1> QED BY <1>1, <1>2 DEF ToldTruly

\* The main thread: it tells what it has counted.
LEMMA BridgesTellTruly ==
  ASSUME VerdictInv, Bridges
  PROVE  ToldTruly
<1>1. CASE UNCHANGED box
  BY <1>1 DEF ToldTruly, VerdictInv
<1>2. CASE Declines
  <2>1. box' = [box EXCEPT ![Job] = "declined"] /\ "declined" \in Verdicts
    BY <1>2 DEF Declines, Tells, Verdicts
  <2> QED BY <2>1, TellingOne
<1>3. CASE Takes
  <2>1. UNCHANGED box \/ box' = [box EXCEPT ![Head(queue)] = "skipped"] \/ box' = [box EXCEPT ![Head(queue)] = "declined"]
    BY <1>3 DEF Takes
  <2>2. \A v \in {"skipped", "declined"} : v \in Verdicts /\ v # "complete"
    BY DEF Verdicts
  <2>3. ASSUME NEW i, NEW v \in {"skipped", "declined"}, box' = [box EXCEPT ![i] = v] PROVE ToldTruly
    BY <2>2, <2>3, TellingOne
  <2> QED BY <1>1, <2>1, <2>3
<1>4. CASE Landed
  <2> DEFINE n == CachedPages(Ids)
  <2>1. box' = [box EXCEPT ![Job] = Verdict(n)]
    BY <1>4 DEF Landed, Tells
  <2>2. Verdict(n) \in Verdicts /\ (Verdict(n) = "complete" => n = Pages(Ids))
    BY VerdictType
  <2>3. Verdict(n) = "complete" /\ Job \in Clients => Whole(Job)
    BY <2>2, CountedIsWhole DEF Ids
  <2> HIDE DEF n
  <2> QED BY <2>1, <2>2, <2>3, TellingOne
<1>5. CASE AllWritten /\ Tells(Verdict(main.have))
  <2> DEFINE n == main.have
  <2>1. box' = [box EXCEPT ![Job] = Verdict(n)]
    BY <1>5 DEF Tells
  <2>2. Verdict(n) \in Verdicts /\ (Verdict(n) = "complete" => n = Pages(Ids))
    BY VerdictType
  <2>3. Verdict(n) = "complete" => Whole(Job)
    BY <1>5, <2>2 DEF AllWritten, Whole, Ids
  <2> HIDE DEF n
  <2> QED BY <2>1, <2>2, <2>3, TellingOne
<1>6. CASE GivesUpWaiting
  BY <1>2, <1>6 DEF GivesUpWaiting
<1>7. CASE SeesDone
  BY <1>1, <1>2, <1>4, <1>7 DEF SeesDone
<1>8. CASE Assembles
  BY <1>1, <1>2, <1>8 DEF Assembles
<1>9. CASE PullFails
  BY <1>2, <1>9 DEF PullFails
<1>10. CASE PullHangs
  BY <1>1, <1>10 DEF PullHangs
<1>11. CASE Drains
  BY <1>2, <1>5, <1>11 DEF Drains
<1> QED BY <1>3, <1>6, <1>7, <1>8, <1>9, <1>10, <1>11 DEF Bridges

\* Everything else tells nothing.
LEMMA NextTellsTruly ==
  ASSUME VerdictInv, [KvNext]_kvVars
  PROVE  ToldTruly
<1>1. CASE Bridges
  BY <1>1, BridgesTellTruly
<1>2. ASSUME NEW i \in Clients, Arrive(i) \/ GoesOn(i) \/ Sends(i) \/ CommitsCapture(i) \/ EngineEnds(i) \/ Copies(i) \/ Restores(i)
      PROVE UNCHANGED box
  BY <1>2 DEF Arrive, GoesOn, Sends, CommitsCapture, EngineEnds, Copies, Restores, doorVars
<1>3. ASSUME Commits \/ TakesStage \/ Serves \/ UNCHANGED kvVars PROVE UNCHANGED box
  BY <1>3 DEF Commits, TakesStage, Serves, kvVars, doorVars
<1>4. ASSUME UNCHANGED box PROVE ToldTruly
  BY <1>4 DEF ToldTruly, VerdictInv
<1>5. UNCHANGED box \/ Bridges
  BY <1>2, <1>3 DEF KvNext, KvPair, Decodes
<1> QED BY <1>1, <1>4, <1>5

\* The invariant is inductive.
LEMMA VerdictStep ==
  ASSUME VerdictInv, [KvNext]_kvVars
  PROVE  VerdictInv'
<1>1. ToldTruly
  BY NextTellsTruly
<1>2. DOMAIN ssd \subseteq DOMAIN ssd'
  BY FilesStay
<1>3. ASSUME NEW k \in Clients, Whole(k) PROVE Whole(k)'
  BY <1>2, <1>3 DEF Whole, OnDisk
<1> QED BY <1>1, <1>3 DEF VerdictInv, ToldTruly

\* Nothing has been told yet.
LEMMA VerdictStart ==
  ASSUME KvInit
  PROVE  VerdictInv
<1>1. \A i \in Clients : box[i] = "empty"
  BY DEF KvInit
<1>2. box \in [Clients -> Verdicts]
  BY DEF KvInit, Verdicts
<1> QED BY <1>1, <1>2 DEF VerdictInv

\* "complete" in X-PD-Bridge means that every full block of the prompt is where the decoder looks for it
\* (bridge, kv_stream; _drain), for any prompts, page size, transports and number of failures, and it stays so.
THEOREM VerdictCorrect == KvSpec => []VerdictIsTrue
<1>1. KvInit => VerdictInv
  BY VerdictStart
<1>2. VerdictInv /\ [KvNext]_kvVars => VerdictInv'
  BY VerdictStep
<1>3. VerdictInv => VerdictIsTrue
  <2> SUFFICES ASSUME VerdictInv, NEW i \in Clients, box[i] = "complete" PROVE CachedPages(Asked[i]) = Pages(Asked[i])
    BY DEF VerdictIsTrue
  <2>1. Whole(i)
    BY DEF VerdictInv
  <2> QED BY <2>1, CountedIsWhole
<1> QED BY <1>1, <1>2, <1>3, PTL DEF KvSpec

-----------------------------------------------------------------------------
(* What the door's variables hold, and that the block files, the tails, the stages and a prepared cache hold
   the rows of their prompts. *)

Ats == {"idle", "wait", "pull", "drain", "hung"}

HandInv ==
  /\ hand \in [Clients -> {"new", "waiting", "forwarded", "answered"}]
  /\ via \in Transports /\ woes \in 0 .. MaxWoes

\* A client is in the queue once, and no longer when its job is taken up.
QueueInv ==
  /\ queue \in Seq(Clients) /\ IsInjective(queue)
  /\ main \in [job : Clients \cup {0}, at : Ats, have : Nat] /\ (main.job = 0 <=> main.at = "idle")
  /\ Job \notin Range(queue)
  /\ \A i \in Clients : hand[i] = "new" => i \notin Range(queue) /\ Job # i

Captures == [eng : {"none", "running", "answered", "failed"}, sent : Nat, files : SUBSET Nat, done : BOOLEAN, fits : BOOLEAN]

CapInv ==
  /\ cap \in [Clients -> Captures]
  /\ \A i \in Clients : cap[i].files \subseteq 1 .. cap[i].sent /\ cap[i].sent <= Pages(Asked[i])

\* A stage is announced under its own key, and no two under the same.
StagedInv ==
  /\ staged \in Seq(Clients)
  /\ \A x, y \in DOMAIN staged : Key(staged[x]) = Key(staged[y]) => x = y

\* The pages a filling thread has counted are those of its prompt.
StageInv ==
  /\ stage \in [Clients -> [run : {"none", "copying", "ended"}, ready : Nat, error : BOOLEAN, arrs : BOOLEAN, buf : Seq(Seq(Nat))]]
  /\ \A k \in Clients :
       /\ stage[k].ready <= Len(stage[k].buf)
       /\ stage[k].run = "copying" => Len(stage[k].buf) = Pages(Asked[k]) /\ stage[k].ready < Pages(Asked[k])
       /\ stage[k].ready <= Pages(Asked[k])
       /\ \A j \in 1 .. stage[k].ready : stage[k].buf[j] = PageOf(Asked[k], j)

\* A file, and what the SSD manager has to write, holds the last page of its hash.
FilesInv ==
  /\ \A h \in DOMAIN ssd : ssd[h] = RowsOf(h)
  /\ \A w \in writing : w.rows = RowsOf(w.hash)

TailsInv ==
  \A p \in DOMAIN tails : \E i \in Clients :
    /\ p = Asked[i] /\ tails[p].from = Pages(p) * Page /\ Pages(p) * Page < Len(p) - 1
    /\ tails[p].rows = SubSeq(p, tails[p].from + 1, Len(p) - 1)

\* The pages the scheduler has matched are there, and leave a token.
MatchInv(i, n) ==
  /\ i \in Clients /\ n \in 0 .. Pages(Asked[i]) /\ n * Page < Len(Asked[i])
  /\ \A j \in 1 .. n : OnDisk(Asked[i], j)

DecInv ==
  /\ dec.at \in {"idle", "staged", "serve"} /\ (dec.at # "idle" => MatchInv(dec.req, dec.n))
  /\ dec.at = "staged" =>
       dec.from \in Clients /\ dec.n > 0 /\ dec.n <= Pages(Asked[dec.from]) /\ Hash(Asked[dec.from], dec.n) = Hash(Asked[dec.req], dec.n)
  /\ PreparedIsOwn

RowsInv == HandInv /\ QueueInv /\ CapInv /\ StagedInv /\ StageInv /\ FilesInv /\ TailsInv /\ DecInv

-----------------------------------------------------------------------------
(* Pages and their rows *)

\* The assumption on the constants, as it is used.
LEMMA PromptType ==
  ASSUME NEW i \in Clients
  PROVE  /\ Asked[i] \in Seq(Nat) /\ Len(Asked[i]) \in Nat \ {0} /\ Page \in Nat \ {0}
         /\ Pages(Asked[i]) \in Nat /\ Pages(Asked[i]) * Page <= Len(Asked[i])
<1>1. Asked[i] \in Seq(Nat) \ {<<>>}
  BY KvDoorAssumption DEF Clients
<1>2. Len(Asked[i]) \in Nat \ {0} /\ Page \in Nat \ {0}
  BY <1>1, KvDoorAssumption
<1>3. ASSUME NEW l \in Nat, NEW m \in Nat \ {0} PROVE (l \div m) * m <= l
  OBVIOUS
<1> QED BY <1>1, <1>2, <1>3, PagesType DEF Pages

\* Fewer pages, fewer rows.
LEMMA PagesMonotone ==
  ASSUME NEW j \in Int, NEW k \in Int, j <= k, NEW m \in Nat
  PROVE  j * m <= k * m
OBVIOUS

\* The first rows and the rows that follow them.
LEMMA SubSeqJoins ==
  ASSUME NEW q \in Seq(Nat), NEW a \in Nat, NEW b \in Nat, a <= b, b <= Len(q)
  PROVE  SubSeq(q, 1, a) \o SubSeq(q, a + 1, b) = SubSeq(q, 1, b) /\ Len(SubSeq(q, 1, b)) = b
OBVIOUS

\* The chain hash of page j is as long as j pages, and its last page is page j of the prompt.
LEMMA HashSpec ==
  ASSUME NEW i \in Clients, NEW j \in 1 .. Pages(Asked[i])
  PROVE  LET p == Asked[i]
         IN  /\ j * Page \in Nat /\ j * Page <= Len(p) /\ (j - 1) * Page = j * Page - Page /\ (j - 1) * Page >= 0
             /\ Hash(p, j) \in Seq(Nat) /\ Len(Hash(p, j)) = j * Page /\ Len(Hash(p, j)) \div Page = j
             /\ RowsOf(Hash(p, j)) = PageOf(p, j) /\ PageOf(p, j) \in Seq(Nat)
<1> DEFINE p == Asked[i]
           N == Pages(p)
<1>1. p \in Seq(Nat) /\ Len(p) \in Nat /\ Page \in Nat \ {0} /\ N \in Nat /\ N * Page <= Len(p)
  BY PromptType
<1>2. j \in Nat /\ j >= 1 /\ j <= N
  BY <1>1
<1>3. j * Page <= N * Page
  <2> HIDE DEF N
  <2> QED BY <1>1, <1>2, PagesMonotone
<1>4. j * Page \in Nat /\ (j - 1) * Page = j * Page - Page /\ (j - 1) * Page >= 0 /\ (j * Page) \div Page = j
  BY <1>1, <1>2
<1> DEFINE c == j * Page
           d == (j - 1) * Page
           L == Len(p)
<1>5. c \in Nat /\ d \in Nat /\ d = c - Page /\ c <= L /\ L \in Nat /\ N * Page \in Nat /\ c \div Page = j
  BY <1>1, <1>2, <1>3, <1>4
<1> HIDE DEF c, d, p, N
<1>6. SubSeq(p, 1, c) \in Seq(Nat) /\ Len(SubSeq(p, 1, c)) = c
  BY <1>1, <1>5
<1>7. SubSeq(SubSeq(p, 1, c), c - Page + 1, c) = SubSeq(p, d + 1, c) /\ SubSeq(p, d + 1, c) \in Seq(Nat)
  BY <1>1, <1>5, <1>6
<1> QED BY <1>4, <1>5, <1>6, <1>7 DEF Hash, RowsOf, PageOf, c, d, p

\* Equal chain hashes, equal pages.
LEMMA HashesName ==
  ASSUME NEW i \in Clients, NEW k \in Clients, NEW n \in Nat, n <= Pages(Asked[i]), n <= Pages(Asked[k]),
         Hash(Asked[i], n) = Hash(Asked[k], n), NEW j \in 1 .. n
  PROVE  PageOf(Asked[i], j) = PageOf(Asked[k], j) /\ Hash(Asked[i], j) = Hash(Asked[k], j)
<1> DEFINE p == Asked[i]
           q == Asked[k]
           N == n * Page
           c == j * Page
           d == (j - 1) * Page
<1>1. /\ p \in Seq(Nat) /\ Len(p) \in Nat /\ Page \in Nat \ {0} /\ Pages(p) * Page <= Len(p) /\ Pages(p) \in Nat
      /\ q \in Seq(Nat) /\ Len(q) \in Nat /\ Pages(q) * Page <= Len(q) /\ Pages(q) \in Nat
  BY PromptType
<1>2. j \in Nat /\ n \in Nat /\ j <= n /\ n \in 1 .. Pages(p) /\ n \in 1 .. Pages(q) /\ j \in 1 .. Pages(p)
  BY <1>1
<1>3. N \in Nat /\ N <= Len(p) /\ N <= Len(q)
  BY <1>2, HashSpec
<1>4. c \in Nat /\ d \in Nat /\ d <= c /\ c <= N
  <2>1. c \in Nat /\ d = c - Page /\ d >= 0
    BY <1>2, HashSpec
  <2>2. c <= N
    BY <1>1, <1>2, PagesMonotone
  <2> QED BY <1>1, <2>1, <2>2
<1>5. SubSeq(p, 1, N) = SubSeq(q, 1, N)
  BY DEF Hash
<1> HIDE DEF p, q, N, c, d
<1>6. \A x \in 1 .. N : p[x] = q[x]
  <2> SUFFICES ASSUME NEW x \in 1 .. N PROVE p[x] = q[x]
    OBVIOUS
  <2>1. SubSeq(p, 1, N)[x] = p[x] /\ SubSeq(q, 1, N)[x] = q[x]
    BY <1>1, <1>3
  <2> QED BY <1>5, <2>1
<1>7. SubSeq(p, d + 1, c) = SubSeq(q, d + 1, c) /\ SubSeq(p, 1, c) = SubSeq(q, 1, c)
  BY <1>1, <1>3, <1>4, <1>6
<1> QED BY <1>7 DEF PageOf, Hash, p, q, N, c, d

\* The pages of a prompt in a row are its first rows: what is restored from block files, or from a stage.
LEMMA PagesFlatten ==
  ASSUME NEW i \in Clients, NEW n \in 0 .. Pages(Asked[i]), NEW s, DOMAIN s = 1 .. n, Len(s) = n,
         n = 0 => s = <<>>, \A j \in 1 .. n : s[j] = PageOf(Asked[i], j)
  PROVE  FlattenSeq(s) = SubSeq(Asked[i], 1, n * Page)
<1> DEFINE p == Asked[i]
           F(f) == [j \in 1 .. n |-> IF j = 1 THEN s[j] ELSE f[j - 1] \o s[j]]
           g == [j \in 1 .. n |-> SubSeq(p, 1, j * Page)]
<1>1. p \in Seq(Nat) /\ Len(p) \in Nat /\ Page \in Nat \ {0} /\ Pages(p) \in Nat /\ n \in Nat /\ n <= Pages(p)
  BY PromptType
<1>2. CASE n = 0
  BY <1>1, <1>2 DEF FlattenSeq
<1>3. CASE n > 0
  <2>1. FlattenSeq(s) = (CHOOSE f : f = F(f))[n]
    BY <1>3 DEF FlattenSeq
  <2>2. ASSUME NEW j \in 1 .. n
        PROVE  g[j] = IF j = 1 THEN s[j] ELSE g[j - 1] \o s[j]
    <3> DEFINE c == j * Page
               d == (j - 1) * Page
    <3>1. j \in 1 .. Pages(p) /\ g[j] = SubSeq(p, 1, c) /\ s[j] = SubSeq(p, d + 1, c)
      BY <1>1 DEF PageOf
    <3>2. c \in Nat /\ c <= Len(p) /\ d = c - Page /\ d >= 0
      BY <3>1, HashSpec
    <3>3. CASE j = 1
      <4>1. d = 0
        BY <1>1, <3>3
      <4> HIDE DEF g, c, d, p
      <4> QED BY <3>1, <3>3, <4>1
    <3>4. CASE j # 1
      <4>1. j - 1 \in 1 .. n /\ g[j - 1] = SubSeq(p, 1, d)
        <5>1. j - 1 \in 1 .. n
          BY <1>1, <3>4
        <5> HIDE DEF p
        <5> QED BY <5>1
      <4> HIDE DEF g, c, d, p
      <4>2. SubSeq(p, 1, d) \o SubSeq(p, d + 1, c) = SubSeq(p, 1, c)
        BY <1>1, <3>2
      <4> QED BY <3>1, <3>4, <4>1, <4>2
    <3> QED BY <3>3, <3>4
  <2>3. g = F(g)
    <3>1. [j \in 1 .. n |-> SubSeq(p, 1, j * Page)] = [j \in 1 .. n |-> g[j]]
      BY DEF g
    <3>2. [j \in 1 .. n |-> g[j]] = F(g)
      <4> HIDE DEF g
      <4> QED BY <2>2
    <3> QED BY <3>1, <3>2 DEF g
  <2> DEFINE h == CHOOSE f : f = F(f)
  <2>4. h = F(h)
    <3> HIDE DEF F, g
    <3> QED BY <2>3
  <2>5. \A j \in 1 .. n : h[j] = g[j]
    <3> DEFINE Off == {j \in 1 .. n : h[j] # g[j]}
    <3> SUFFICES ASSUME Off # {} PROVE FALSE
      OBVIOUS
    <3> HIDE DEF h
    <3>1. \A j \in 1 .. n : h[j] = IF j = 1 THEN s[j] ELSE h[j - 1] \o s[j]
      <4>1. \A j \in 1 .. n : F(h)[j] = IF j = 1 THEN s[j] ELSE h[j - 1] \o s[j]
        OBVIOUS
      <4> HIDE DEF F
      <4> QED BY <2>4, <4>1
    <3> HIDE DEF g, F
    <3>2. Off \in SUBSET Nat
      BY <1>1
    <3>3. PICK m \in Off : \A x \in Off : m <= x
      <4> HIDE DEF Off
      <4> QED BY <3>2, LeastExists
    <3>4. m \in 1 .. n /\ h[m] # g[m]
      BY <3>3
    <3>5. m # 1
      BY <2>2, <3>1, <3>4
    <3>6. m - 1 \in 1 .. n /\ m - 1 \notin Off
      BY <1>1, <3>3, <3>4, <3>5
    <3>7. h[m - 1] = g[m - 1]
      BY <3>6
    <3> QED BY <2>2, <3>1, <3>4, <3>5, <3>7
  <2>6. h[n] = g[n]
    <3>1. n \in 1 .. n
      BY <1>1, <1>3
    <3> HIDE DEF h, g
    <3> QED BY <2>5, <3>1
  <2>7. g[n] = SubSeq(p, 1, n * Page)
    BY <1>1, <1>3
  <2> HIDE DEF g, F
  <2> QED BY <2>1, <2>6, <2>7
<1> QED BY <1>1, <1>2, <1>3

-----------------------------------------------------------------------------
(* The operators of the door and of the hooks *)

\* The prefix walk leaves at least one token, and every page it counts is there.
LEMMA MatchedSpec ==
  ASSUME NEW i \in Clients
  PROVE  MatchInv(i, Matched(Asked[i]))
<1> DEFINE p == Asked[i]
           n == CachedPages(p)
           m == Matched(p)
           N == Pages(p)
<1>1. p \in Seq(Nat) /\ Len(p) \in Nat \ {0} /\ Page \in Nat \ {0} /\ N \in Nat /\ N * Page <= Len(p)
  BY PromptType
<1>2. n \in 0 .. N /\ \A j \in 1 .. n : OnDisk(p, j)
  BY CachedPagesSpec
<1>3. m = IF n * Page = Len(p) THEN n - 1 ELSE n
  BY DEF Matched
<1> HIDE DEF p, n, m, N
<1>4. n \in Nat /\ n <= N
  BY <1>1, <1>2
<1>5. n * Page \in Nat /\ n * Page <= Len(p)
  <2>1. n * Page <= N * Page
    BY <1>1, <1>4, PagesMonotone
  <2>2. n * Page \in Nat /\ N * Page \in Nat
    BY <1>1, <1>4
  <2> QED BY <1>1, <2>1, <2>2
<1>6. CASE n * Page = Len(p)
  <2>1. n # 0
    BY <1>1, <1>6
  <2>2. m = n - 1 /\ m \in 0 .. N
    BY <1>1, <1>3, <1>4, <1>6, <2>1
  <2>3. m * Page < Len(p)
    BY <1>1, <1>4, <1>5, <1>6, <2>2
  <2>4. \A j \in 1 .. m : OnDisk(p, j)
    BY <1>2, <1>4, <2>2
  <2> QED BY <2>2, <2>3, <2>4 DEF MatchInv, p, m, N
<1>7. CASE n * Page # Len(p)
  <2>1. m = n /\ m \in 0 .. N
    BY <1>1, <1>3, <1>4, <1>7
  <2>2. m * Page < Len(p)
    BY <1>1, <1>5, <1>7, <2>1
  <2> QED BY <1>2, <2>1, <2>2 DEF MatchInv, p, m, N
<1> QED BY <1>6, <1>7

\* _load_blocks: block k of the prompt is in place k, and there are no more than were wanted.
LEMMA LoadBlocksSpec ==
  ASSUME NEW files, NEW want \in Nat
  PROVE  \E k \in 0 .. want : LoadBlocks(files, want) = [x \in 1 .. k |-> x] /\ 1 .. k \subseteq files
<1> DEFINE run == {k \in 0 .. want : 1 .. k \subseteq files}
<1>1. run \in SUBSET Nat /\ 0 \in run /\ \A x \in run : x <= want
  OBVIOUS
<1>2. \E m \in run : \A l \in run : m >= l
  <2> HIDE DEF run
  <2> QED BY <1>1, GreatestExists
<1>3. \E m \in run : \A l \in run : l <= m
  BY <1>1, <1>2
<1> DEFINE top == CHOOSE k \in run : \A l \in run : l <= k
<1>4. top \in run
  <2> HIDE DEF run
  <2> QED BY <1>3
<1>5. LoadBlocks(files, want) = [x \in 1 .. top |-> x]
  BY DEF LoadBlocks
<1> HIDE DEF top
<1> QED BY <1>4, <1>5

\* The entries that stay do so in their order, and no key appears twice.
LEMMA WithoutSpec ==
  ASSUME StagedInv, NEW gone
  PROVE  /\ StagedWithout(gone) \in Seq(Clients)
         /\ \A x, y \in DOMAIN StagedWithout(gone) : Key(StagedWithout(gone)[x]) = Key(StagedWithout(gone)[y]) => x = y
<1> DEFINE N == Len(staged)
           W(f) == [n \in 0 .. N |-> IF n = 0 THEN <<>> ELSE IF staged[n] \in gone THEN f[n - 1] ELSE Append(f[n - 1], staged[n])]
           \* f is the list of what is kept of the first n entries
           R(f, n) == f = [m \in 0 .. n |-> IF m = 0 THEN <<>> ELSE IF staged[m] \in gone THEN f[m - 1] ELSE Append(f[m - 1], staged[m])]
           kept == CHOOSE f : f = W(f)
<1>1. staged \in Seq(Clients) /\ N \in Nat /\ \A n \in 1 .. N : staged[n] \in Clients /\ n \in DOMAIN staged
  BY DEF StagedInv
<1>2. StagedWithout(gone) = kept[N]
  BY DEF StagedWithout
<1>3. \E f : R(f, N)
  <2> DEFINE Bad == {n \in 0 .. N : ~ \E f : R(f, n)}
  <2> SUFFICES ASSUME Bad # {} PROVE FALSE
    <3>1. N \in 0 .. N
      BY <1>1
    <3> HIDE DEF R
    <3> QED BY <3>1
  <2>1. Bad \in SUBSET Nat
    BY <1>1
  <2>2. PICK b \in Bad : \A x \in Bad : b <= x
    <3> HIDE DEF Bad
    <3> QED BY <2>1, LeastExists
  <2>3. b \in 0 .. N /\ ~ \E f : R(f, b)
    BY <2>2
  <2>4. CASE b = 0
    <3>1. R([m \in 0 .. 0 |-> <<>>], 0)
      OBVIOUS
    <3> QED BY <2>3, <2>4, <3>1
  <2>5. CASE b # 0
    <3>1. b - 1 \in 0 .. N /\ b - 1 \notin Bad
      <4>1. b - 1 \in 0 .. N /\ ~(b <= b - 1)
        BY <1>1, <2>3, <2>5
      <4> HIDE DEF Bad
      <4> QED BY <2>2, <4>1
    <3>2. PICK f : R(f, b - 1)
      BY <3>1
    <3> DEFINE h == [m \in 0 .. b |-> IF m = b THEN IF staged[b] \in gone THEN f[b - 1] ELSE Append(f[b - 1], staged[b]) ELSE f[m]]
    <3>3. \A m \in 0 .. b - 1 : h[m] = f[m]
      BY <2>3
    <3>4. \A m \in 0 .. b - 1 : f[m] = IF m = 0 THEN <<>> ELSE IF staged[m] \in gone THEN f[m - 1] ELSE Append(f[m - 1], staged[m])
      BY <3>2
    <3>5. h[b] = IF staged[b] \in gone THEN f[b - 1] ELSE Append(f[b - 1], staged[b])
      BY <2>3
    <3>6. DOMAIN h = 0 .. b /\ h = [m \in 0 .. b |-> h[m]]
      OBVIOUS
    <3> HIDE DEF h, R
    <3>7. \A m \in 0 .. b : h[m] = IF m = 0 THEN <<>> ELSE IF staged[m] \in gone THEN h[m - 1] ELSE Append(h[m - 1], staged[m])
      BY <2>3, <2>5, <3>3, <3>4, <3>5
    <3>8. R(h, b)
      BY <3>6, <3>7 DEF R
    <3> QED BY <2>3, <3>8
  <2> QED BY <2>4, <2>5
<1>4. kept = W(kept)
  <2>1. \E f : f = W(f)
    BY <1>3
  <2> HIDE DEF W
  <2> QED BY <2>1
<1> HIDE DEF kept
<1>5. \A n \in 0 .. N : kept[n] = IF n = 0 THEN <<>> ELSE IF staged[n] \in gone THEN kept[n - 1] ELSE Append(kept[n - 1], staged[n])
  <2>1. \A n \in 0 .. N : W(kept)[n] = IF n = 0 THEN <<>> ELSE IF staged[n] \in gone THEN kept[n - 1] ELSE Append(kept[n - 1], staged[n])
    OBVIOUS
  <2> HIDE DEF W
  <2> QED BY <1>4, <2>1
<1> HIDE DEF W, R
<1> DEFINE Good(n) == /\ kept[n] \in Seq(Clients)
                      /\ \A x \in DOMAIN kept[n] : \E m \in 1 .. n : kept[n][x] = staged[m]
                      /\ \A x, y \in DOMAIN kept[n] : Key(kept[n][x]) = Key(kept[n][y]) => x = y
<1>6. Good(0)
  <2>1. kept[0] = <<>>
    BY <1>1, <1>5
  <2> QED BY <2>1
<1>7. ASSUME NEW b \in 1 .. N, Good(b - 1) PROVE Good(b)
  <2> DEFINE k == kept[b - 1]
             e == staged[b]
  <2>1. b \in 0 .. N /\ b # 0 /\ b \in Nat /\ kept[b] = IF e \in gone THEN k ELSE Append(k, e)
    BY <1>1, <1>5
  <2>2. \A m \in 1 .. b - 1 : m \in 1 .. b /\ m # b
    BY <1>1
  <2>3. CASE e \in gone
    BY <1>7, <2>1, <2>2, <2>3
  <2>4. CASE e \notin gone
    <3> DEFINE a == Append(k, e)
    <3>1. kept[b] = a /\ e \in Clients /\ k \in Seq(Clients)
      BY <1>1, <1>7, <2>1, <2>4
    <3>2. \A x \in DOMAIN k : \E m \in 1 .. b - 1 : k[x] = staged[m]
      BY <1>7
    <3>3. \A x, y \in DOMAIN k : Key(k[x]) = Key(k[y]) => x = y
      BY <1>7
    <3>4. \A x \in DOMAIN k : Key(k[x]) # Key(e)
      <4> SUFFICES ASSUME NEW x \in DOMAIN k, Key(k[x]) = Key(e) PROVE FALSE
        OBVIOUS
      <4>1. PICK m \in 1 .. b - 1 : k[x] = staged[m]
        BY <3>2
      <4>2. m \in DOMAIN staged /\ b \in DOMAIN staged /\ m # b
        BY <1>1, <2>2
      <4> HIDE DEF k
      <4> QED BY <4>1, <4>2 DEF StagedInv
    <3> HIDE DEF k, e
    <3>5. Len(k) \in Nat /\ DOMAIN k = 1 .. Len(k) /\ DOMAIN a = 1 .. Len(k) + 1 /\ a[Len(k) + 1] = e /\ a \in Seq(Clients)
      BY <3>1
    <3>6. \A x \in DOMAIN k : a[x] = k[x]
      BY <3>1
    <3> HIDE DEF a
    <3>7. ASSUME NEW x \in DOMAIN a PROVE \E m \in 1 .. b : a[x] = staged[m]
      <4>1. CASE x \in DOMAIN k
        BY <2>2, <3>2, <3>6, <4>1
      <4>2. CASE x \notin DOMAIN k
        <5>1. x = Len(k) + 1
          BY <3>5, <4>2
        <5> QED BY <2>1, <3>5, <5>1 DEF e
      <4> QED BY <4>1, <4>2
    <3>8. ASSUME NEW x \in DOMAIN a, NEW y \in DOMAIN a, Key(a[x]) = Key(a[y]) PROVE x = y
      <4>1. x \in DOMAIN k \/ x = Len(k) + 1
        BY <3>5
      <4>2. y \in DOMAIN k \/ y = Len(k) + 1
        BY <3>5
      <4> QED BY <3>3, <3>4, <3>5, <3>6, <3>8, <4>1, <4>2
    <3> QED BY <3>1, <3>5, <3>7, <3>8
  <2> QED BY <2>3, <2>4
<1>8. \A n \in 0 .. N : Good(n)
  <2> DEFINE Bad == {n \in 0 .. N : ~Good(n)}
  <2> SUFFICES ASSUME Bad # {} PROVE FALSE
    BY <1>1
  <2> HIDE DEF Good
  <2>1. Bad \in SUBSET Nat
    BY <1>1
  <2>2. PICK b \in Bad : \A x \in Bad : b <= x
    <3> HIDE DEF Bad
    <3> QED BY <2>1, LeastExists
  <2>3. b \in 0 .. N /\ ~Good(b)
    BY <2>2
  <2>4. b \in 1 .. N /\ b - 1 \in 0 .. N /\ b - 1 \notin Bad
    BY <1>1, <1>6, <2>2, <2>3
  <2>5. Good(b - 1)
    BY <2>4
  <2> QED BY <1>7, <2>3, <2>4, <2>5
<1>9. Good(N)
  <2>1. N \in 0 .. N
    BY <1>1
  <2> HIDE DEF Good
  <2> QED BY <1>8, <2>1
<1> QED BY <1>2, <1>9

-----------------------------------------------------------------------------
(* What each step leaves as it should be *)

\* Handlers go through their states, and failures stay within their bound.
LEMMA HandStep ==
  ASSUME RowsInv, [KvNext]_kvVars
  PROVE  HandInv'
<1>1. UNCHANGED via
  BY DEF KvNext, KvPair, Bridges, Decodes, Arrive, GoesOn, Sends, CommitsCapture, EngineEnds, Copies, Takes,
         GivesUpWaiting, SeesDone, Assembles, PullFails, PullHangs, Drains, Commits, Restores, TakesStage, Serves, kvVars
<1>2. hand' \in [Clients -> {"new", "waiting", "forwarded", "answered"}]
  <2>1. hand \in [Clients -> {"new", "waiting", "forwarded", "answered"}]
    BY DEF RowsInv, HandInv
  <2>2. ASSUME NEW i \in Clients, Arrive(i) PROVE hand' \in [Clients -> {"new", "waiting", "forwarded", "answered"}]
    BY <2>1, <2>2 DEF Arrive
  <2>3. ASSUME NEW i \in Clients, GoesOn(i) PROVE hand' \in [Clients -> {"new", "waiting", "forwarded", "answered"}]
    BY <2>1, <2>3 DEF GoesOn
  <2>4. CASE Serves
    BY <2>1, <2>4 DEF Serves
  <2>5. CASE UNCHANGED hand
    BY <2>1, <2>5
  <2>6. ASSUME NEW i \in Clients, KvPair(i) \/ Copies(i) \/ Restores(i) PROVE UNCHANGED hand
    BY <2>6 DEF KvPair, Sends, CommitsCapture, EngineEnds, Copies, Restores, doorVars
  <2>7. ASSUME Bridges \/ Commits \/ TakesStage \/ UNCHANGED kvVars PROVE UNCHANGED hand
    BY <2>7 DEF Bridges, Takes, GivesUpWaiting, SeesDone, Assembles, PullFails, PullHangs, Drains, Commits, TakesStage, kvVars, doorVars
  <2> QED BY <2>2, <2>3, <2>4, <2>5, <2>6, <2>7 DEF KvNext, Decodes
<1>3. woes' \in 0 .. MaxWoes
  <2>1. woes \in 0 .. MaxWoes /\ MaxWoes \in Nat
    BY KvDoorAssumption DEF RowsInv, HandInv
  <2>2. Woe => woes' \in 0 .. MaxWoes
    BY <2>1 DEF Woe
  <2>3. UNCHANGED woes => woes' \in 0 .. MaxWoes
    BY <2>1
  <2>4. ASSUME NEW i \in Clients, Arrive(i) \/ GoesOn(i) \/ KvPair(i) \/ Copies(i) \/ Restores(i) PROVE Woe \/ UNCHANGED woes
    BY <2>4 DEF Arrive, GoesOn, KvPair, Sends, CommitsCapture, EngineEnds, Copies, Restores
  <2>5. ASSUME Bridges PROVE Woe \/ UNCHANGED woes
    BY <2>5 DEF Bridges, Takes, Stages, GivesUpWaiting, GivesUpOn, SeesDone, Landed, Assembles, PullFails, PullHangs, Drains
  <2>6. ASSUME Commits \/ TakesStage \/ Serves \/ UNCHANGED kvVars PROVE UNCHANGED woes
    BY <2>6 DEF Commits, TakesStage, Serves, kvVars
  <2> QED BY <2>2, <2>3, <2>4, <2>5, <2>6 DEF KvNext, Decodes
<1> QED BY <1>1, <1>2, <1>3 DEF HandInv, RowsInv

\* Taking the head of a queue, or joining its end, keeps everyone in it once.
LEMMA QueueMoves ==
  ASSUME NEW q \in Seq(Clients), IsInjective(q)
  PROVE  /\ q # <<>> => /\ Head(q) \in Clients /\ Tail(q) \in Seq(Clients) /\ IsInjective(Tail(q))
                        /\ Range(Tail(q)) = Range(q) \ {Head(q)} /\ Head(q) \in Range(q)
         /\ \A i \in Clients \ Range(q) :
              Append(q, i) \in Seq(Clients) /\ IsInjective(Append(q, i)) /\ Range(Append(q, i)) = Range(q) \cup {i}
<1>1. Len(q) \in Nat /\ DOMAIN q = 1 .. Len(q) /\ \A x, y \in DOMAIN q : q[x] = q[y] => x = y
  BY DEF IsInjective
<1>2. ASSUME q # <<>>
      PROVE  /\ Head(q) \in Clients /\ Tail(q) \in Seq(Clients) /\ IsInjective(Tail(q))
             /\ Range(Tail(q)) = Range(q) \ {Head(q)} /\ Head(q) \in Range(q)
  <2> DEFINE t == Tail(q)
  <2>1. Len(q) >= 1 /\ Head(q) = q[1] /\ q[1] \in Clients /\ t \in Seq(Clients) /\ 1 \in DOMAIN q
    BY <1>1, <1>2
  <2>2. DOMAIN t = 1 .. Len(q) - 1 /\ \A x \in DOMAIN t : t[x] = q[x + 1] /\ x + 1 \in DOMAIN q /\ x + 1 # 1
    BY <1>1, <1>2
  <2> HIDE DEF t
  <2>3. IsInjective(t)
    BY <1>1, <2>2 DEF IsInjective
  <2>4. Range(t) = Range(q) \ {q[1]}
    <3>1. ASSUME NEW x \in DOMAIN t PROVE t[x] \in Range(q) \ {q[1]}
      BY <1>1, <2>1, <2>2 DEF Range
    <3>2. ASSUME NEW x \in DOMAIN q, q[x] # q[1] PROVE q[x] \in Range(t)
      <4>1. x - 1 \in DOMAIN t /\ x = (x - 1) + 1
        BY <1>1, <2>2, <3>2
      <4>2. t[x - 1] = q[x]
        BY <2>2, <4>1
      <4> QED BY <4>1, <4>2 DEF Range
    <3> QED BY <3>1, <3>2 DEF Range
  <2> QED BY <2>1, <2>3, <2>4 DEF t, Range
<1>3. ASSUME NEW i \in Clients \ Range(q)
      PROVE  Append(q, i) \in Seq(Clients) /\ IsInjective(Append(q, i)) /\ Range(Append(q, i)) = Range(q) \cup {i}
  <2> DEFINE a == Append(q, i)
  <2>1. a \in Seq(Clients) /\ DOMAIN a = 1 .. Len(q) + 1 /\ a[Len(q) + 1] = i /\ \A x \in DOMAIN q : a[x] = q[x] /\ a[x] # i
    BY <1>1 DEF Range
  <2>2. \A x \in DOMAIN a : x \in DOMAIN q \/ x = Len(q) + 1
    BY <1>1, <2>1
  <2> HIDE DEF a
  <2>3. IsInjective(a)
    BY <1>1, <2>1, <2>2 DEF IsInjective
  <2>4. Range(a) = Range(q) \cup {i}
    <3>1. Len(q) + 1 \in DOMAIN a /\ DOMAIN q \subseteq DOMAIN a
      BY <1>1, <2>1
    <3> QED BY <1>1, <2>1, <2>2, <3>1 DEF Range
  <2> QED BY <2>1, <2>3, <2>4 DEF a
<1> QED BY <1>2, <1>3

\* Every client comes once, and its job is taken from the queue when the main thread is free.
LEMMA QueueStep ==
  ASSUME RowsInv, [KvNext]_kvVars
  PROVE  QueueInv'
<1>1. /\ queue \in Seq(Clients) /\ IsInjective(queue) /\ hand \in [Clients -> {"new", "waiting", "forwarded", "answered"}]
      /\ main \in [job : Clients \cup {0}, at : Ats, have : Nat] /\ (main.job = 0 <=> main.at = "idle")
      /\ main.job \notin Range(queue) /\ \A i \in Clients : hand[i] = "new" => i \notin Range(queue) /\ main.job # i
  BY DEF RowsInv, QueueInv, HandInv, Job
<1>0. 0 \notin Clients
  BY KvDoorAssumption DEF Clients
<1>2. ASSUME NEW i \in Clients, Arrive(i) PROVE QueueInv'
  <2>1. i \in Clients \ Range(queue) /\ hand' = [hand EXCEPT ![i] = "waiting"] /\ queue' = Append(queue, i) /\ main' = main /\ main.job # i
    BY <1>1, <1>2 DEF Arrive
  <2>2. queue' \in Seq(Clients) /\ IsInjective(queue') /\ Range(queue') = Range(queue) \cup {i}
    BY <1>1, <2>1, QueueMoves
  <2>3. \A k \in Clients : hand'[k] = "new" => k # i /\ hand[k] = "new"
    BY <1>1, <2>1
  <2> QED BY <1>1, <2>1, <2>2, <2>3 DEF QueueInv, Job
<1>3. ASSUME UNCHANGED queue, main'.job \in {main.job, 0}, main' \in [job : Clients \cup {0}, at : Ats, have : Nat], main'.job = 0 <=> main'.at = "idle",
             \A i \in Clients : hand'[i] = "new" => hand[i] = "new"
      PROVE  QueueInv'
  <2>1. main'.job \notin Range(queue)
    BY <1>0, <1>1, <1>3 DEF Range
  <2>2. \A i \in Clients : main.job # i => main'.job # i
    BY <1>0, <1>3
  <2> QED BY <1>1, <1>3, <2>1, <2>2 DEF QueueInv, Job
<1>4. ASSUME NEW i \in Clients, GoesOn(i) PROVE QueueInv'
  <2>1. \A k \in Clients : hand'[k] = "new" => hand[k] = "new"
    BY <1>1, <1>4 DEF GoesOn
  <2>2. UNCHANGED <<queue, main>>
    BY <1>4 DEF GoesOn
  <2> QED BY <1>1, <1>3, <2>1, <2>2
<1>5. CASE Serves
  <2>1. \A k \in Clients : hand'[k] = "new" => hand[k] = "new"
    BY <1>1, <1>5 DEF Serves
  <2>2. UNCHANGED <<queue, main>>
    BY <1>5 DEF Serves
  <2> QED BY <1>1, <1>3, <2>1, <2>2
<1>6. CASE UNCHANGED <<queue, main, hand>>
  BY <1>1, <1>3, <1>6
<1>7. CASE Takes
  <2> DEFINE i == Head(queue)
  <2>1. main.job = 0 /\ queue # <<>> /\ queue' = Tail(queue) /\ hand' = hand
        /\ (main' = main \/ main' = [Free EXCEPT !.job = i, !.at = "wait"])
    BY <1>7 DEF Takes, QueueLeft, Job
  <2>2. i \in Clients /\ i \in Range(queue) /\ queue' \in Seq(Clients) /\ IsInjective(queue') /\ Range(queue') = Range(queue) \ {i}
    BY <1>1, <2>1, QueueMoves
  <2>3. main'.job \in {0, i} /\ main' \in [job : Clients \cup {0}, at : Ats, have : Nat] /\ (main'.job = 0 <=> main'.at = "idle")
    <3>1. main' = main => main'.job \in {0, i} /\ main' \in [job : Clients \cup {0}, at : Ats, have : Nat] /\ (main'.job = 0 <=> main'.at = "idle")
      BY <1>1, <2>1
    <3> HIDE DEF i
    <3> DEFINE m == [Free EXCEPT !.job = i, !.at = "wait"]
    <3>2. m \in [job : Clients \cup {0}, at : Ats, have : Nat]
      BY <2>2 DEF Free, Ats
    <3>3. m.job = i /\ m.at = "wait" /\ i # 0
      BY <1>0, <2>2 DEF Free
    <3> HIDE DEF m
    <3> QED BY <2>1, <3>1, <3>2, <3>3 DEF m
  <2>4. main'.job \notin Range(queue')
    BY <1>1, <2>1, <2>2, <2>3
  <2> HIDE DEF i
  <2>5. \A k \in Clients : hand'[k] = "new" => k \notin Range(queue') /\ main'.job # k
    BY <1>0, <1>1, <2>1, <2>2, <2>3
  <2> QED BY <2>2, <2>3, <2>4, <2>5 DEF QueueInv, Job
<1>8. ASSUME GivesUpWaiting \/ SeesDone \/ Assembles \/ PullFails \/ PullHangs \/ Drains PROVE QueueInv'
  <2>1. UNCHANGED <<queue, hand>> /\ main.at # "idle"
    BY <1>8 DEF GivesUpWaiting, SeesDone, Assembles, PullFails, PullHangs, Drains
  <2>2. \/ main' = Free \/ main' = [main EXCEPT !.at = "pull"] \/ main' = [main EXCEPT !.at = "hung"]
        \/ \E n \in Nat : main' = [main EXCEPT !.at = "drain", !.have = n]
    <3>1. CASE Assembles
      <4> DEFINE want == IF cap[Job].sent < Pages(Ids) THEN cap[Job].sent ELSE Pages(Ids)
                 loaded == LoadBlocks(cap[Job].files, want)
      <4>1. Job \in Clients /\ want \in Nat
        BY <1>1, <2>1, PagesType DEF Job, Ids, RowsInv, CapInv, Captures
      <4>2. Len(loaded) \in Nat
        <5> HIDE DEF want
        <5>1. PICK k \in 0 .. want : loaded = [x \in 1 .. k |-> x]
          BY <4>1, LoadBlocksSpec
        <5> HIDE DEF loaded
        <5> QED BY <5>1
      <4>3. main' = Free \/ main' = [main EXCEPT !.at = "drain", !.have = Len(loaded)]
        BY <3>1 DEF Assembles, Declines, Tells
      <4> QED BY <4>2, <4>3
    <3> QED BY <1>8, <3>1 DEF GivesUpWaiting, SeesDone, Landed, PullFails, PullHangs, Drains, Declines, Tells
  <2>3. main'.job \in {main.job, 0} /\ main' \in [job : Clients \cup {0}, at : Ats, have : Nat] /\ (main'.job = 0 <=> main'.at = "idle")
    <3>1. Free \in [job : Clients \cup {0}, at : Ats, have : Nat] /\ Free.job = 0 /\ Free.at = "idle"
      BY DEF Free, Ats
    <3>2. main.job # 0
      BY <1>1, <2>1
    <3>3. ASSUME NEW a \in {"pull", "hung"}, main' = [main EXCEPT !.at = a]
          PROVE  main'.job = main.job /\ main' \in [job : Clients \cup {0}, at : Ats, have : Nat] /\ main'.at # "idle"
      BY <1>1, <3>3 DEF Ats
    <3>4. ASSUME NEW n \in Nat, main' = [main EXCEPT !.at = "drain", !.have = n]
          PROVE  main'.job = main.job /\ main' \in [job : Clients \cup {0}, at : Ats, have : Nat] /\ main'.at # "idle"
      BY <1>1, <3>4 DEF Ats
    <3> QED BY <2>2, <3>1, <3>2, <3>3, <3>4
  <2> QED BY <1>1, <1>3, <2>1, <2>3
<1>9. ASSUME NEW i \in Clients, KvPair(i) \/ Copies(i) \/ Restores(i) PROVE UNCHANGED <<queue, main, hand>>
  BY <1>9 DEF KvPair, Sends, CommitsCapture, EngineEnds, Copies, Restores, doorVars
<1>10. ASSUME Commits \/ TakesStage \/ UNCHANGED kvVars PROVE UNCHANGED <<queue, main, hand>>
  BY <1>10 DEF Commits, TakesStage, kvVars, doorVars
<1> QED BY <1>2, <1>4, <1>5, <1>6, <1>7, <1>8, <1>9, <1>10 DEF KvNext, Decodes, Bridges

\* What the pair has sent of a capture is part of the prompt.
LEMMA CapStep ==
  ASSUME RowsInv, [KvNext]_kvVars
  PROVE  CapInv'
<1>1. cap \in [Clients -> Captures] /\ \A i \in Clients : cap[i].files \subseteq 1 .. cap[i].sent /\ cap[i].sent <= Pages(Asked[i])
  BY DEF RowsInv, CapInv
<1>2. UNCHANGED cap => CapInv'
  BY <1>1 DEF CapInv
<1>3. ASSUME NEW i \in Clients, NEW c \in Captures, cap' = [cap EXCEPT ![i] = c],
             c.files \subseteq 1 .. c.sent, c.sent <= Pages(Asked[i])
      PROVE  CapInv'
  <2>1. cap' \in [Clients -> Captures]
    BY <1>1, <1>3
  <2>2. ASSUME NEW k \in Clients PROVE cap'[k].files \subseteq 1 .. cap'[k].sent /\ cap'[k].sent <= Pages(Asked[k])
    BY <1>1, <1>3
  <2> QED BY <2>1, <2>2 DEF CapInv
<1>4. ASSUME NEW i \in Clients, NEW e \in {"running", "answered", "failed"}, cap' = [cap EXCEPT ![i].eng = e] PROVE CapInv'
  <2> DEFINE c == [cap[i] EXCEPT !.eng = e]
  <2>1. cap[i] \in Captures
    BY <1>1
  <2>2. c \in Captures /\ c.files = cap[i].files /\ c.sent = cap[i].sent
    BY <2>1 DEF Captures
  <2>3. cap' = [cap EXCEPT ![i] = c]
    BY <1>1, <1>4
  <2> HIDE DEF c
  <2> QED BY <1>1, <1>3, <2>2, <2>3
<1>5. CASE Takes
  <2>1. UNCHANGED cap \/ (queue # <<>> /\ cap' = [cap EXCEPT ![Head(queue)].eng = "running"])
    BY <1>5 DEF Takes
  <2>2. queue # <<>> => Head(queue) \in Clients
    BY DEF RowsInv, QueueInv
  <2> QED BY <1>2, <1>4, <2>1, <2>2
<1>6. ASSUME NEW i \in Clients, EngineEnds(i) PROVE CapInv'
  BY <1>4, <1>6 DEF EngineEnds
<1>7. ASSUME NEW i \in Clients, CommitsCapture(i) PROVE CapInv'
  <2> DEFINE c == [cap[i] EXCEPT !.done = TRUE]
             d == [cap[i] EXCEPT !.done = TRUE, !.fits = FALSE]
  <2>1. cap[i] \in Captures
    BY <1>1
  <2>2. c \in Captures /\ c.files = cap[i].files /\ c.sent = cap[i].sent
    BY <2>1 DEF Captures
  <2>3. d \in Captures /\ d.files = cap[i].files /\ d.sent = cap[i].sent
    BY <2>1 DEF Captures
  <2>4. cap' = [cap EXCEPT ![i] = c] \/ cap' = [cap EXCEPT ![i] = d]
    BY <1>1, <1>7 DEF CommitsCapture
  <2> HIDE DEF c, d
  <2> QED BY <1>1, <1>3, <2>2, <2>3, <2>4
<1>8. ASSUME NEW i \in Clients, Sends(i) PROVE CapInv'
  <2> DEFINE j == cap[i].sent + 1
             c == [cap[i] EXCEPT !.sent = j]
             d == [cap[i] EXCEPT !.sent = j, !.files = @ \cup {j}]
  <2>1. cap[i] \in Captures /\ cap[i].sent \in Nat /\ cap[i].files \in SUBSET Nat /\ cap[i].sent < Pages(Asked[i]) /\ Pages(Asked[i]) \in Nat
    BY <1>1, <1>8, PagesType DEF Sends, Captures
  <2>2. j \in Nat /\ j <= Pages(Asked[i]) /\ cap[i].files \subseteq 1 .. j /\ cap[i].files \cup {j} \subseteq 1 .. j
    BY <1>1, <2>1
  <2>3. cap' = [cap EXCEPT ![i] = c] \/ cap' = [cap EXCEPT ![i] = d]
    BY <1>1, <1>8 DEF Sends
  <2> HIDE DEF j
  <2>4. c \in Captures /\ c.files = cap[i].files /\ c.sent = j
    BY <2>1, <2>2 DEF Captures
  <2>5. d \in Captures /\ d.files = cap[i].files \cup {j} /\ d.sent = j
    BY <2>1, <2>2 DEF Captures
  <2> HIDE DEF c, d
  <2> QED BY <1>3, <2>2, <2>3, <2>4, <2>5
<1>9. ASSUME GivesUpWaiting \/ SeesDone \/ Assembles \/ PullFails \/ PullHangs \/ Drains \/ Commits \/ TakesStage \/ Serves \/ UNCHANGED kvVars
      PROVE  UNCHANGED cap
  BY <1>9 DEF GivesUpWaiting, SeesDone, Assembles, PullFails, PullHangs, Drains, Commits, TakesStage, Serves, kvVars, pairVars
<1>10. ASSUME NEW i \in Clients, Arrive(i) \/ GoesOn(i) \/ Copies(i) \/ Restores(i) PROVE UNCHANGED cap
  BY <1>10 DEF Arrive, GoesOn, Copies, Restores, pairVars
<1> QED BY <1>2, <1>5, <1>6, <1>7, <1>8, <1>9, <1>10 DEF KvNext, Decodes, Bridges, KvPair

\* _STAGED[e.key] = e, after the old entries went; and pop(e.key).
LEMMA StagedStep ==
  ASSUME RowsInv, [KvNext]_kvVars
  PROVE  StagedInv'
<1>1. StagedInv
  BY DEF RowsInv
<1>2. ASSUME NEW gone, staged' = StagedWithout(gone) PROVE StagedInv'
  BY <1>1, <1>2, WithoutSpec DEF StagedInv, Key
<1>3. ASSUME NEW i \in Clients, NEW gone, staged' = Entered(StagedWithout(gone), i) PROVE StagedInv'
  <2> DEFINE s == StagedWithout(gone)
  <2>1. s \in Seq(Clients) /\ \A x, y \in DOMAIN s : Key(s[x]) = Key(s[y]) => x = y
    BY <1>1, WithoutSpec
  <2> HIDE DEF s
  <2>2. CASE \E k \in Range(s) : Key(k) = Key(i)
    <3> DEFINE t == [x \in DOMAIN s |-> IF Key(s[x]) = Key(i) THEN i ELSE s[x]]
    <3>1. staged' = t
      BY <1>3, <2>2 DEF Entered, s
    <3>2. Len(s) \in Nat /\ DOMAIN s = 1 .. Len(s) /\ \A x \in DOMAIN s : s[x] \in Clients
      BY <2>1
    <3>3. t \in Seq(Clients) /\ DOMAIN t = DOMAIN s
      BY <3>2
    <3>4. \A x \in DOMAIN t : Key(t[x]) = Key(s[x])
      OBVIOUS
    <3> HIDE DEF t
    <3>5. \A x, y \in DOMAIN t : Key(t[x]) = Key(t[y]) => x = y
      BY <2>1, <3>3, <3>4
    <3> QED BY <3>1, <3>3, <3>5 DEF StagedInv, Key
  <2>3. CASE ~ \E k \in Range(s) : Key(k) = Key(i)
    <3> DEFINE a == Append(s, i)
    <3>1. staged' = a
      BY <1>3, <2>3 DEF Entered, s
    <3>2. a \in Seq(Clients) /\ DOMAIN a = 1 .. Len(s) + 1 /\ DOMAIN s = 1 .. Len(s) /\ Len(s) \in Nat /\ a[Len(s) + 1] = i
          /\ \A x \in DOMAIN s : a[x] = s[x]
      BY <2>1
    <3>3. \A x \in DOMAIN s : Key(s[x]) # Key(i)
      BY <2>3 DEF Range
    <3> HIDE DEF a
    <3>4. ASSUME NEW x \in DOMAIN a, NEW y \in DOMAIN a, Key(a[x]) = Key(a[y]) PROVE x = y
      <4>1. x \in DOMAIN s \/ x = Len(s) + 1
        BY <3>2
      <4>2. y \in DOMAIN s \/ y = Len(s) + 1
        BY <3>2
      <4> QED BY <2>1, <3>2, <3>3, <3>4, <4>1, <4>2
    <3> QED BY <3>1, <3>2, <3>4 DEF StagedInv, Key
  <2> QED BY <2>2, <2>3
<1>4. CASE Takes
  <2>1. UNCHANGED staged \/ (queue # <<>> /\ \E gone : staged' = Entered(StagedWithout(gone), Head(queue)))
    BY <1>4 DEF Takes, Stages
  <2>2. queue # <<>> => Head(queue) \in Clients
    BY DEF RowsInv, QueueInv
  <2>3. UNCHANGED staged => StagedInv'
    BY <1>1 DEF StagedInv, Key
  <2> QED BY <1>3, <2>1, <2>2, <2>3
<1>5. CASE TakesStage
  <2>1. UNCHANGED staged \/ \E gone : staged' = StagedWithout(gone)
    BY <1>5 DEF TakesStage, Popped
  <2>2. UNCHANGED staged => StagedInv'
    BY <1>1 DEF StagedInv, Key
  <2> QED BY <1>2, <2>1, <2>2
<1>6. ASSUME UNCHANGED staged PROVE StagedInv'
  BY <1>1, <1>6 DEF StagedInv, Key
<1>7. ASSUME GivesUpWaiting \/ SeesDone \/ Assembles \/ PullFails \/ PullHangs \/ Drains \/ Commits \/ Serves \/ UNCHANGED kvVars
      PROVE  UNCHANGED staged
  BY <1>7 DEF GivesUpWaiting, SeesDone, Assembles, PullFails, PullHangs, Drains, Commits, Serves, kvVars
<1>8. ASSUME NEW i \in Clients, Arrive(i) \/ GoesOn(i) \/ KvPair(i) \/ Copies(i) \/ Restores(i) PROVE UNCHANGED staged
  BY <1>8 DEF Arrive, GoesOn, KvPair, Sends, CommitsCapture, EngineEnds, Copies, Restores
<1> QED BY <1>4, <1>5, <1>6, <1>7, <1>8 DEF KvNext, Decodes, Bridges

\* what StageInv says of one job
StageOf(k, s) ==
  /\ s \in [run : {"none", "copying", "ended"}, ready : Nat, error : BOOLEAN, arrs : BOOLEAN, buf : Seq(Seq(Nat))]
  /\ s.ready <= Len(s.buf)
  /\ s.run = "copying" => Len(s.buf) = Pages(Asked[k]) /\ s.ready < Pages(Asked[k])
  /\ s.ready <= Pages(Asked[k])
  /\ \A j \in 1 .. s.ready : s.buf[j] = PageOf(Asked[k], j)

\* One stage changes, as it may.
LEMMA StageChanges ==
  ASSUME StageInv, NEW k \in Clients, NEW s, StageOf(k, s), stage' = [stage EXCEPT ![k] = s]
  PROVE  StageInv'
<1> DEFINE T == [run : {"none", "copying", "ended"}, ready : Nat, error : BOOLEAN, arrs : BOOLEAN, buf : Seq(Seq(Nat))]
<1>1. stage \in [Clients -> T] /\ s \in T
  BY DEF StageInv, StageOf
<1>2. stage' \in [Clients -> T]
  <2> HIDE DEF T
  <2> QED BY <1>1
<1>3. \A i \in Clients : stage'[i] = IF i = k THEN s ELSE stage[i]
  <2> HIDE DEF T
  <2> QED BY <1>1
<1>4. \A i \in Clients : StageOf(i, stage[i])
  BY DEF StageInv, StageOf
<1>5. \A i \in Clients : StageOf(i, stage'[i])
  BY <1>3, <1>4
<1> QED BY <1>2, <1>5 DEF StageInv, StageOf

\* A stage is announced with no page, and the filling thread adds the next page of its prompt, from its file.
LEMMA StageStep ==
  ASSUME RowsInv, [KvNext]_kvVars
  PROVE  StageInv'
<1> DEFINE T == [run : {"none", "copying", "ended"}, ready : Nat, error : BOOLEAN, arrs : BOOLEAN, buf : Seq(Seq(Nat))]
<1>1. StageInv /\ stage \in [Clients -> T] /\ \A k \in Clients : StageOf(k, stage[k])
  BY DEF RowsInv, StageInv, StageOf
<1>2. UNCHANGED stage => StageInv'
  BY <1>1 DEF StageInv
<1>3. CASE Takes
  <2> DEFINE i == Head(queue)
             N == Pages(Asked[i])
             s == [NoStage EXCEPT !.run = "copying", !.arrs = TRUE, !.buf = [j \in 1 .. N |-> <<>>]]
  <2>1. UNCHANGED stage \/ (queue # <<>> /\ ~(Len(Asked[i]) < MinTokens) /\ stage' = [stage EXCEPT ![i] = s])
    BY <1>3 DEF Takes, Stages
  <2>2. ASSUME queue # <<>>, ~(Len(Asked[i]) < MinTokens) PROVE i \in Clients /\ N \in Nat /\ N >= 1
    <3>1. i \in Clients
      BY <2>2 DEF RowsInv, QueueInv
    <3>2. Len(Asked[i]) \in Nat /\ Page \in Nat \ {0} /\ N \in Nat /\ MinTokens \in Nat /\ MinTokens >= Page
      BY <3>1, PromptType, KvDoorAssumption
    <3>3. ASSUME NEW l \in Nat, NEW m \in Nat \ {0}, l >= m PROVE l \div m >= 1
      BY <3>3
    <3>4. Len(Asked[i]) >= Page
      BY <2>2, <3>2
    <3>5. Len(Asked[i]) \div Page >= 1
      BY <3>2, <3>3, <3>4
    <3> QED BY <3>1, <3>2, <3>5 DEF Pages
  <2>3. ASSUME i \in Clients, N \in Nat, N >= 1 PROVE StageOf(i, s)
    <3> DEFINE b == [j \in 1 .. N |-> <<>>]
    <3>1. b \in Seq(Seq(Nat)) /\ Len(b) = N
      <4> HIDE DEF N
      <4>1. \A j \in 1 .. N : <<>> \in Seq(Nat)
        OBVIOUS
      <4> QED BY <2>3, <4>1
    <3> HIDE DEF b, N
    <3>2. NoStage \in T /\ NoStage.ready = 0
      BY DEF NoStage
    <3>3. s \in T /\ s.run = "copying" /\ s.ready = 0 /\ s.buf = b
      <4>1. s = [NoStage EXCEPT !.run = "copying", !.arrs = TRUE, !.buf = b]
        BY DEF b
      <4> HIDE DEF s
      <4> QED BY <3>1, <3>2, <4>1
    <3> HIDE DEF s
    <3> QED BY <2>3, <3>1, <3>3 DEF StageOf, N
  <2> HIDE DEF i, N, s
  <2> QED BY <1>1, <1>2, <2>1, <2>2, <2>3, StageChanges
<1>4. ASSUME NEW k \in Clients, Copies(k) PROVE StageInv'
  <2> DEFINE s == stage[k]
             j == s.ready + 1
             f == ssd[Hash(Asked[k], j)]
             N == Pages(Asked[k])
             e == [s EXCEPT !.error = TRUE, !.run = "ended"]
             r == IF j = N THEN "ended" ELSE "copying"
             g == [s EXCEPT !.buf[j] = f, !.ready = j, !.run = r]
  <2>1. s \in T /\ s.run = "copying" /\ StageOf(k, s) /\ s.ready \in Nat /\ s.buf \in Seq(Seq(Nat))
    BY <1>1, <1>4 DEF Copies
  <2>2. N \in Nat /\ j \in 1 .. N /\ Len(s.buf) = N /\ \A x \in 1 .. s.ready : s.buf[x] = PageOf(Asked[k], x)
    BY <2>1, PagesType DEF StageOf
  <2>3. CASE stage' = [stage EXCEPT ![k].error = TRUE, ![k].run = "ended"]
    <3>1. stage' = [stage EXCEPT ![k] = e]
      BY <1>1, <2>3
    <3>2. e \in T /\ e.run = "ended" /\ e.ready = s.ready /\ e.buf = s.buf
      BY <2>1
    <3> HIDE DEF s, j, N, e
    <3>3. StageOf(k, e)
      BY <2>1, <3>2 DEF StageOf
    <3> QED BY <1>1, <3>1, <3>3, StageChanges
  <2>4. CASE OnDisk(Asked[k], j) /\ stage' = [stage EXCEPT ![k].buf[j] = f, ![k].ready = j, ![k].run = r]
    <3>1. stage' = [stage EXCEPT ![k] = g]
      BY <1>1, <2>4
    <3>2. f = PageOf(Asked[k], j) /\ f \in Seq(Nat)
      <4>1. f = RowsOf(Hash(Asked[k], j))
        BY <2>4 DEF OnDisk, RowsInv, FilesInv
      <4>2. RowsOf(Hash(Asked[k], j)) = PageOf(Asked[k], j) /\ PageOf(Asked[k], j) \in Seq(Nat)
        BY <2>2, HashSpec
      <4> HIDE DEF f, j, N
      <4> QED BY <4>1, <4>2
    <3> DEFINE b == [s.buf EXCEPT ![j] = f]
    <3>3. g \in T /\ g.run = r /\ g.ready = j /\ g.buf = b
      <4> HIDE DEF s, j, N, f
      <4>1. b \in Seq(Seq(Nat)) /\ j \in Nat /\ r \in {"ended", "copying"}
        BY <2>1, <2>2, <3>2
      <4> HIDE DEF r
      <4> QED BY <2>1, <4>1
    <3>4. Len(b) = N /\ \A x \in 1 .. j : b[x] = PageOf(Asked[k], x)
      <4>1. DOMAIN s.buf = 1 .. N /\ \A x \in 1 .. j : x \in 1 .. N /\ (x = j \/ x \in 1 .. s.ready)
        BY <2>1, <2>2
      <4> HIDE DEF s, N, f, j
      <4>2. Len(b) = N
        BY <2>1, <2>2
      <4> QED BY <2>1, <2>2, <3>2, <4>1, <4>2
    <3> HIDE DEF g, b, f, s
    <3>5. StageOf(k, g)
      <4> HIDE DEF j
      <4> QED BY <2>2, <3>3, <3>4 DEF StageOf
    <3> QED BY <1>1, <3>1, <3>5, StageChanges
  <2> QED BY <1>4, <2>3, <2>4 DEF Copies
<1>5. CASE TakesStage
  <2> DEFINE k == dec.from
             s == [stage[k] EXCEPT !.arrs = FALSE]
  <2>1. UNCHANGED stage \/ (dec.at = "staged" /\ stage' = [stage EXCEPT ![k].arrs = FALSE])
    BY <1>5 DEF TakesStage
  <2>2. ASSUME dec.at = "staged", stage' = [stage EXCEPT ![k].arrs = FALSE] PROVE StageInv'
    <3>1. k \in Clients
      BY <2>2 DEF RowsInv, DecInv
    <3>2. stage' = [stage EXCEPT ![k] = s] /\ stage[k] \in T
      BY <1>1, <2>2, <3>1
    <3>3. s \in T /\ s.run = stage[k].run /\ s.ready = stage[k].ready /\ s.buf = stage[k].buf
      BY <3>2
    <3> HIDE DEF s, k
    <3>4. StageOf(k, s)
      BY <1>1, <3>1, <3>3 DEF StageOf
    <3> QED BY <1>1, <3>1, <3>2, <3>4, StageChanges
  <2> QED BY <1>2, <2>1, <2>2
<1>6. ASSUME GivesUpWaiting \/ SeesDone \/ Assembles \/ PullFails \/ PullHangs \/ Drains \/ Commits \/ Serves \/ UNCHANGED kvVars
      PROVE  UNCHANGED stage
  BY <1>6 DEF GivesUpWaiting, SeesDone, Assembles, PullFails, PullHangs, Drains, Commits, Serves, kvVars
<1>7. ASSUME NEW i \in Clients, Arrive(i) \/ GoesOn(i) \/ KvPair(i) \/ Restores(i) PROVE UNCHANGED stage
  BY <1>7 DEF Arrive, GoesOn, KvPair, Sends, CommitsCapture, EngineEnds, Restores
<1> QED BY <1>2, <1>3, <1>4, <1>5, <1>6, <1>7 DEF KvNext, Decodes, Bridges

\* A file is written under the hash whose rows it holds: when it lands, when the manager commits it, and when
\* the decoder stores what it has prefilled after a restored prefix that is the prompt's own.
LEMMA FilesStep ==
  ASSUME RowsInv, [KvNext]_kvVars
  PROVE  FilesInv'
<1>1. (\A h \in DOMAIN ssd : ssd[h] = RowsOf(h)) /\ \A w \in writing : w.rows = RowsOf(w.hash)
  BY DEF RowsInv, FilesInv
<1>2. UNCHANGED <<ssd, writing>> => FilesInv'
  BY <1>1 DEF FilesInv, RowsOf
<1>3. ASSUME NEW h, NEW rows, rows = RowsOf(h), ssd' = With(ssd, h, rows), writing' \subseteq writing PROVE FilesInv'
  <2>1. ASSUME NEW x \in DOMAIN ssd' PROVE ssd'[x] = RowsOf(x)
    <3>1. x \in DOMAIN ssd \cup {h} /\ ssd'[x] = IF x \in DOMAIN ssd THEN ssd[x] ELSE rows
      BY <1>3, <2>1 DEF With
    <3> QED BY <1>1, <1>3, <3>1
  <2>2. \A w \in writing' : w.rows = RowsOf(w.hash)
    BY <1>1, <1>3
  <2> QED BY <2>1, <2>2 DEF FilesInv, RowsOf
<1>4. CASE Commits
  <2>1. PICK w \in writing : ssd' = With(ssd, w.hash, w.rows) /\ writing' = writing \ {w}
    BY <1>4 DEF Commits
  <2> QED BY <1>1, <1>3, <2>1
<1>5. ASSUME NEW i \in Clients, Sends(i) PROVE FilesInv'
  <2> DEFINE j == cap[i].sent + 1
  <2>1. UNCHANGED writing /\ (UNCHANGED ssd \/ ssd' = With(ssd, Hash(Asked[i], j), PageOf(Asked[i], j)))
    BY <1>5 DEF Sends
  <2>2. j \in 1 .. Pages(Asked[i])
    BY <1>5, PagesType DEF Sends, RowsInv, CapInv, Captures
  <2>3. PageOf(Asked[i], j) = RowsOf(Hash(Asked[i], j))
    <3> HIDE DEF j
    <3> QED BY <2>2, HashSpec
  <2> HIDE DEF j
  <2> QED BY <1>2, <1>3, <2>1, <2>3
<1>6. CASE Assembles
  <2> DEFINE want == IF cap[Job].sent < Pages(Ids) THEN cap[Job].sent ELSE Pages(Ids)
             loaded == LoadBlocks(cap[Job].files, want)
             new == {[hash |-> Hash(Ids, j), rows |-> PageOf(Ids, loaded[j])] : j \in DOMAIN loaded}
  <2>1. UNCHANGED ssd /\ (writing' = writing \/ writing' = writing \cup new)
    BY <1>6 DEF Assembles
  <2>2. Job \in Clients /\ main.at = "pull"
    BY <1>6 DEF Assembles, RowsInv, QueueInv, Job
  <2>3. Pages(Ids) \in Nat /\ want \in Nat /\ want <= Pages(Ids)
    BY <2>2, PagesType DEF RowsInv, CapInv, Captures, Ids
  <2>4. ASSUME NEW j \in DOMAIN loaded PROVE PageOf(Ids, loaded[j]) = RowsOf(Hash(Ids, j))
    <3> HIDE DEF want
    <3>1. PICK k \in 0 .. want : loaded = [x \in 1 .. k |-> x]
      BY <2>3, LoadBlocksSpec
    <3> HIDE DEF loaded
    <3>2. loaded[j] = j /\ j \in 1 .. Pages(Ids)
      BY <2>3, <2>4, <3>1
    <3> QED BY <2>2, <3>2, HashSpec DEF Ids
  <2>5. \A w \in new : w.rows = RowsOf(w.hash)
    <3> HIDE DEF loaded
    <3> QED BY <2>4
  <2> HIDE DEF new
  <2> QED BY <1>1, <2>1, <2>5 DEF FilesInv, RowsOf
<1>7. CASE Serves
  <2> DEFINE p == Asked[dec.req]
             at(j) == PageOf(p, j)
             new == {Hash(p, j) : j \in dec.n + 1 .. Pages(p)} \ DOMAIN ssd
  <2>1. dec.at = "serve" /\ dec.req \in Clients /\ dec.n \in Nat /\ dec.rows = SubSeq(p, 1, Len(dec.rows))
    BY <1>7, PagesType DEF Serves, RowsInv, DecInv, MatchInv, PreparedIsOwn
  <2>2. UNCHANGED writing /\ ssd' = [h \in DOMAIN ssd \cup new |-> IF h \in new THEN PageOf(p, Len(h) \div Page) ELSE ssd[h]]
    BY <1>7, <2>1 DEF Serves
  <2>3. ASSUME NEW h \in new PROVE PageOf(p, Len(h) \div Page) = RowsOf(h)
    <3>1. PICK j \in dec.n + 1 .. Pages(p) : h = Hash(p, j)
      BY <2>3
    <3>2. j \in 1 .. Pages(p)
      BY <2>1, PagesType
    <3>3. Len(Hash(p, j)) \div Page = j /\ RowsOf(Hash(p, j)) = PageOf(p, j)
      BY <2>1, <3>2, HashSpec
    <3> QED BY <3>1, <3>3
  <2> HIDE DEF new, p
  <2>4. ASSUME NEW h \in DOMAIN ssd' PROVE ssd'[h] = RowsOf(h)
    BY <1>1, <2>2, <2>3, <2>4
  <2> QED BY <1>1, <2>2, <2>4 DEF FilesInv, RowsOf
<1>8. ASSUME Takes \/ GivesUpWaiting \/ SeesDone \/ PullFails \/ PullHangs \/ Drains \/ TakesStage \/ UNCHANGED kvVars
      PROVE  UNCHANGED <<ssd, writing>>
  BY <1>8 DEF Takes, GivesUpWaiting, SeesDone, PullFails, PullHangs, Drains, TakesStage, kvVars
<1>9. ASSUME NEW i \in Clients, Arrive(i) \/ GoesOn(i) \/ CommitsCapture(i) \/ EngineEnds(i) \/ Copies(i) \/ Restores(i)
      PROVE UNCHANGED <<ssd, writing>>
  BY <1>9 DEF Arrive, GoesOn, CommitsCapture, EngineEnds, Copies, Restores
<1> QED BY <1>2, <1>4, <1>5, <1>6, <1>7, <1>8, <1>9 DEF KvNext, Decodes, Bridges, KvPair

\* A tail is written for the rows that follow the last page, when there are any.
LEMMA TailsStep ==
  ASSUME RowsInv, [KvNext]_kvVars
  PROVE  TailsInv'
<1> DEFINE TailOf(p, t) == \E i \in Clients :
             /\ p = Asked[i] /\ t.from = Pages(p) * Page /\ Pages(p) * Page < Len(p) - 1
             /\ t.rows = SubSeq(p, t.from + 1, Len(p) - 1)
<1>1. \A p \in DOMAIN tails : TailOf(p, tails[p])
  BY DEF RowsInv, TailsInv
<1>2. UNCHANGED tails => TailsInv'
  BY <1>1 DEF TailsInv, Pages
<1>3. CASE SeesDone
  <2> DEFINE shipped == Len(Ids) - 1 - Pages(Ids) * Page
             tail == [from |-> Pages(Ids) * Page, rows |-> SubSeq(Ids, Pages(Ids) * Page + 1, Len(Ids) - 1)]
  <2>1. UNCHANGED tails \/ (shipped > 0 /\ tails' = [x \in DOMAIN tails \cup {Ids} |-> IF x = Ids THEN tail ELSE tails[x]])
    BY <1>3 DEF SeesDone, Landed
  <2>2. ASSUME shipped > 0, tails' = [x \in DOMAIN tails \cup {Ids} |-> IF x = Ids THEN tail ELSE tails[x]]
        PROVE  TailsInv'
    <3>1. Job \in Clients
      BY <1>3 DEF SeesDone, RowsInv, QueueInv, Job
    <3>2. Pages(Ids) * Page < Len(Ids) - 1
      <4>1. Len(Ids) \in Nat /\ Pages(Ids) \in Nat /\ Page \in Nat
        BY <3>1, PromptType DEF Ids
      <4>2. Pages(Ids) * Page \in Nat
        BY <4>1
      <4> QED BY <2>2, <4>1, <4>2
    <3>3. TailOf(Ids, tail)
      <4>1. tail.from = Pages(Ids) * Page /\ tail.rows = SubSeq(Ids, tail.from + 1, Len(Ids) - 1)
        OBVIOUS
      <4> HIDE DEF tail
      <4> QED BY <3>1, <3>2, <4>1 DEF Ids
    <3> HIDE DEF TailOf, tail, shipped
    <3>4. \A p \in DOMAIN tails' : TailOf(p, tails'[p])
      BY <1>1, <2>2, <3>3
    <3> QED BY <3>4 DEF TailOf, TailsInv, Pages
  <2> QED BY <1>2, <2>1, <2>2
<1>4. ASSUME Takes \/ GivesUpWaiting \/ Assembles \/ PullFails \/ PullHangs \/ Drains \/ Commits \/ TakesStage \/ Serves \/ UNCHANGED kvVars
      PROVE  UNCHANGED tails
  BY <1>4 DEF Takes, GivesUpWaiting, Assembles, PullFails, PullHangs, Drains, Commits, TakesStage, Serves, kvVars
<1>5. ASSUME NEW i \in Clients, Arrive(i) \/ GoesOn(i) \/ KvPair(i) \/ Copies(i) \/ Restores(i) PROVE UNCHANGED tails
  BY <1>5 DEF Arrive, GoesOn, KvPair, Sends, CommitsCapture, EngineEnds, Copies, Restores
<1> QED BY <1>2, <1>3, <1>4, <1>5 DEF KvNext, Decodes, Bridges

\* The restored rows, with the tail of the prompt if it joins them: it does only after all pages.
LEMMA PreparedSpec ==
  ASSUME TailsInv, NEW i, NEW n, MatchInv(i, n), NEW rows, rows = SubSeq(Asked[i], 1, n * Page), Prepared(i, n, rows)
  PROVE  /\ dec'.at = "serve" /\ dec'.req = i /\ dec'.n = n /\ dec'.rows = SubSeq(Asked[i], 1, Len(dec'.rows))
         /\ Len(dec'.rows) >= n * Page /\ Len(dec'.rows) < Len(Asked[i])
<1> DEFINE p == Asked[i]
           N == Pages(p)
           c == n * Page
           t == tails[p].rows
           L == Len(p)
<1>1. i \in Clients /\ n \in 0 .. N /\ c < L
  BY DEF MatchInv
<1>2. p \in Seq(Nat) /\ L \in Nat /\ Page \in Nat \ {0} /\ N \in Nat /\ N * Page <= L /\ n \in Nat /\ c \in Nat
  BY <1>1, PromptType
<1>3. dec'.at = "serve" /\ dec'.req = i /\ dec'.n = n
      /\ (dec'.rows = rows \/ (p \in DOMAIN tails /\ c + Len(t) = L - 1 /\ dec'.rows = rows \o t))
  BY DEF Prepared
<1>4. CASE dec'.rows = rows
  <2>1. rows = SubSeq(p, 1, c)
    OBVIOUS
  <2> HIDE DEF p, c, L
  <2>2. Len(SubSeq(p, 1, c)) = c
    BY <1>1, <1>2 DEF L
  <2> QED BY <1>1, <1>2, <1>3, <1>4, <2>1, <2>2 DEF p, c, L
<1>5. CASE p \in DOMAIN tails /\ c + Len(t) = L - 1 /\ dec'.rows = rows \o t
  <2> DEFINE d == N * Page
  <2>1. d < L - 1 /\ t = SubSeq(p, d + 1, L - 1)
    <3>1. PICK k \in Clients : tails[p].from = Pages(p) * Page /\ Pages(p) * Page < Len(p) - 1
                               /\ tails[p].rows = SubSeq(p, tails[p].from + 1, Len(p) - 1)
      BY <1>5 DEF TailsInv
    <3> QED BY <3>1
  <2>2. rows = SubSeq(p, 1, c) /\ d \in Nat
    BY <1>2
  <2> HIDE DEF p, c, d, L, t
  <2>3. L = Len(p)
    BY DEF L
  <2>4. Len(t) = L - 1 - d
    BY <1>2, <2>1, <2>2, <2>3
  <2>5. c = d
    BY <1>2, <1>5, <2>2, <2>4
  <2>6. SubSeq(p, 1, d) \o SubSeq(p, d + 1, L - 1) = SubSeq(p, 1, L - 1) /\ Len(SubSeq(p, 1, L - 1)) = L - 1
    <3>1. L - 1 \in Nat /\ L - 1 <= Len(p) /\ d <= L - 1
      BY <1>2, <2>1, <2>2, <2>3
    <3> QED BY <1>2, <2>2, <3>1, SubSeqJoins
  <2>7. dec'.rows = SubSeq(p, 1, L - 1) /\ Len(dec'.rows) = L - 1
    BY <1>5, <2>1, <2>2, <2>5, <2>6
  <2>8. L - 1 >= c /\ L - 1 < L
    BY <1>1, <1>2
  <2> QED BY <1>3, <2>7, <2>8 DEF p, c, L
<1> QED BY <1>3, <1>4, <1>5

\* reconstruct_cache from the block files: each holds its page of the prompt.
LEMMA FromDiskSpec ==
  ASSUME FilesInv, TailsInv, NEW i, NEW n, MatchInv(i, n), FromDisk(i, n)
  PROVE  \E rows : rows = SubSeq(Asked[i], 1, n * Page) /\ Prepared(i, n, rows)
<1> DEFINE s == [j \in 1 .. n |-> ssd[Hash(Asked[i], j)]]
<1>1. i \in Clients /\ n \in 0 .. Pages(Asked[i]) /\ Pages(Asked[i]) \in Nat /\ \A j \in 1 .. n : OnDisk(Asked[i], j)
  BY PagesType DEF MatchInv
<1>2. ASSUME NEW j \in 1 .. n PROVE s[j] = PageOf(Asked[i], j)
  <2>1. j \in 1 .. Pages(Asked[i]) /\ OnDisk(Asked[i], j)
    BY <1>1
  <2>2. ssd[Hash(Asked[i], j)] = RowsOf(Hash(Asked[i], j))
    BY <2>1 DEF OnDisk, FilesInv
  <2> QED BY <1>1, <2>1, <2>2, HashSpec
<1>3. DOMAIN s = 1 .. n /\ Len(s) = n /\ (n = 0 => s = <<>>)
  <2>1. n \in Nat
    BY <1>1
  <2>2. n = 0 => s = <<>>
    OBVIOUS
  <2> QED BY <2>1, <2>2
<1>4. Prepared(i, n, FlattenSeq(s))
  BY DEF FromDisk
<1> HIDE DEF s
<1>5. FlattenSeq(s) = SubSeq(Asked[i], 1, n * Page)
  BY <1>1, <1>2, <1>3, PagesFlatten
<1> QED BY <1>4, <1>5

\* What the scheduler prepares is the prompt's own, from a stage or from the files; and once prepared it stays.
LEMMA DecStep ==
  ASSUME RowsInv, [KvNext]_kvVars
  PROVE  DecInv'
<1>1. DecInv /\ TailsInv /\ FilesInv /\ StageInv /\ StagedInv
  BY DEF RowsInv
<1>2. ASSUME NEW i, NEW n, MatchInv(i, n) PROVE MatchInv(i, n)'
  BY <1>2, FilesStay DEF MatchInv, OnDisk
<1>3. UNCHANGED dec => DecInv'
  BY <1>1, <1>2 DEF DecInv, PreparedIsOwn
<1>4. ASSUME NEW i, NEW n, MatchInv(i, n), FromDisk(i, n) \/ \E rows : rows = SubSeq(Asked[i], 1, n * Page) /\ Prepared(i, n, rows)
      PROVE  DecInv'
  <2>1. PICK rows : rows = SubSeq(Asked[i], 1, n * Page) /\ Prepared(i, n, rows)
    BY <1>1, <1>4, FromDiskSpec
  <2>2. /\ dec'.at = "serve" /\ dec'.req = i /\ dec'.n = n /\ dec'.rows = SubSeq(Asked[i], 1, Len(dec'.rows))
        /\ Len(dec'.rows) >= n * Page /\ Len(dec'.rows) < Len(Asked[i])
    BY <1>1, <1>4, <2>1, PreparedSpec
  <2>3. MatchInv(dec.req, dec.n)'
    <3>1. MatchInv(i, n)'
      BY <1>2, <1>4
    <3> QED BY <2>2, <3>1 DEF MatchInv, OnDisk
  <2> QED BY <2>2, <2>3 DEF DecInv, PreparedIsOwn
<1>5. ASSUME NEW i \in Clients, Restores(i) PROVE DecInv'
  <2>0. PICK n : n = Matched(Asked[i])
    OBVIOUS
  <2> DEFINE fit == {x \in DOMAIN staged : Fills(staged[x], Asked[i], n)}
             k == staged[Min(fit)]
             d == [NoRequest EXCEPT !.req = i, !.at = "staged", !.from = k, !.n = n]
  <2>1. MatchInv(i, n)
    BY <2>0, MatchedSpec
  <2>2. FromDisk(i, n) \/ (fit # {} /\ dec' = d)
    BY <1>5, <2>0 DEF Restores
  <2>3. CASE FromDisk(i, n)
    BY <1>4, <2>1, <2>3
  <2>4. CASE fit # {} /\ dec' = d
    <3>1. fit \in SUBSET Nat
      BY <1>1 DEF StagedInv
    <3>2. Min(fit) \in fit
      <4> HIDE DEF fit
      <4> QED BY <2>4, <3>1, MinOf
    <3>3. k \in Clients /\ Fills(k, Asked[i], n)
      BY <1>1, <3>2 DEF StagedInv
    <3>4. n > 0 /\ n <= Pages(Asked[k]) /\ Hash(Asked[k], n) = Hash(Asked[i], n)
      BY <3>3 DEF Fills
    <3> HIDE DEF k, fit
    <3>5. dec'.req = i /\ dec'.at = "staged" /\ dec'.from = k /\ dec'.n = n
      BY <2>4 DEF NoRequest
    <3>6. MatchInv(dec.req, dec.n)'
      <4>1. MatchInv(i, n)'
        BY <1>2, <2>1
      <4> HIDE DEF d
      <4> QED BY <3>5, <4>1 DEF MatchInv, OnDisk
    <3> HIDE DEF d
    <3> QED BY <3>3, <3>4, <3>5, <3>6 DEF DecInv, PreparedIsOwn, Hash, Pages
  <2> QED BY <2>2, <2>3, <2>4
<1>6. CASE TakesStage
  <2> DEFINE k == dec.from
             i == dec.req
             n == dec.n
             s == SubSeq(stage[k].buf, 1, n)
  <2>1. /\ k \in Clients /\ n > 0 /\ n <= Pages(Asked[k]) /\ Hash(Asked[k], n) = Hash(Asked[i], n) /\ MatchInv(i, n)
        /\ i \in Clients /\ n \in 0 .. Pages(Asked[i]) /\ Pages(Asked[i]) \in Nat
    BY <1>1, <1>6, PagesType DEF TakesStage, DecInv, MatchInv
  <2>2. FromDisk(i, n) \/ (stage[k].ready >= n /\ Prepared(i, n, FlattenSeq(s)))
    BY <1>6 DEF TakesStage, Ready
  <2>3. CASE FromDisk(i, n)
    BY <1>4, <2>1, <2>3
  <2>4. CASE stage[k].ready >= n /\ Prepared(i, n, FlattenSeq(s))
    <3> DEFINE b == stage[k].buf
               r == stage[k].ready
    <3>1. b \in Seq(Seq(Nat)) /\ r \in Nat /\ r <= Len(b) /\ \A j \in 1 .. r : b[j] = PageOf(Asked[k], j)
      BY <1>1, <2>1 DEF StageInv
    <3>2. n \in Nat /\ n <= r /\ r >= n
      BY <2>1, <2>4
    <3>3. FlattenSeq(s) = SubSeq(Asked[i], 1, n * Page)
      <4> HIDE DEF b, r, n, i, k
      <4>1. s = SubSeq(b, 1, n)
        BY DEF b
      <4> HIDE DEF s
      <4>2. DOMAIN s = 1 .. n /\ Len(s) = n /\ \A j \in 1 .. n : s[j] = b[j] /\ j \in 1 .. r
        BY <3>1, <3>2, <4>1
      <4>3. \A j \in 1 .. n : s[j] = PageOf(Asked[i], j)
        <5> SUFFICES ASSUME NEW j \in 1 .. n PROVE s[j] = PageOf(Asked[i], j)
          OBVIOUS
        <5>1. PageOf(Asked[k], j) = PageOf(Asked[i], j)
          BY <2>1, <3>2, HashesName
        <5> QED BY <3>1, <4>2, <5>1
      <4>4. n # 0
        BY <2>1, <3>2
      <4> QED BY <2>1, <4>2, <4>3, <4>4, PagesFlatten
    <3> HIDE DEF s, n, i, k
    <3> QED BY <1>4, <2>1, <2>4, <3>3
  <2> QED BY <2>2, <2>3, <2>4
<1>7. CASE Serves
  <2>1. dec'.at = "idle"
    BY <1>7 DEF Serves, NoRequest
  <2> QED BY <2>1 DEF DecInv, PreparedIsOwn
<1>8. ASSUME Bridges \/ Commits \/ UNCHANGED kvVars PROVE UNCHANGED dec
  BY <1>8 DEF Bridges, Takes, GivesUpWaiting, SeesDone, Assembles, PullFails, PullHangs, Drains, Commits, kvVars
<1>9. ASSUME NEW i \in Clients, Arrive(i) \/ GoesOn(i) \/ KvPair(i) \/ Copies(i) PROVE UNCHANGED dec
  BY <1>9 DEF Arrive, GoesOn, KvPair, Sends, CommitsCapture, EngineEnds, Copies
<1> QED BY <1>3, <1>5, <1>6, <1>7, <1>8, <1>9 DEF KvNext, Decodes

-----------------------------------------------------------------------------
\* The invariant holds at the start, when nothing is queued, captured, staged or stored.
LEMMA RowsStart ==
  ASSUME KvInit
  PROVE  RowsInv
<1>1. HandInv
  BY KvDoorAssumption DEF KvInit, HandInv
<1>2. QueueInv
  <2>1. main = Free /\ queue = <<>>
    BY DEF KvInit
  <2>2. main \in [job : Clients \cup {0}, at : Ats, have : Nat] /\ main.job = 0 /\ main.at = "idle"
    BY <2>1 DEF Free, Ats
  <2>3. queue \in Seq(Clients) /\ IsInjective(queue) /\ Range(queue) = {}
    BY <2>1 DEF IsInjective, Range
  <2>4. 0 \notin Clients
    BY KvDoorAssumption DEF Clients
  <2> QED BY <2>2, <2>3, <2>4 DEF QueueInv, Job
<1>3. CapInv
  <2>1. NoCapture \in Captures /\ NoCapture.files = {} /\ NoCapture.sent = 0
    BY DEF NoCapture, Captures
  <2>2. cap = [i \in Clients |-> NoCapture]
    BY DEF KvInit
  <2>3. \A i \in Clients : 0 <= Pages(Asked[i])
    BY PagesType
  <2> QED BY <2>1, <2>2, <2>3 DEF CapInv
<1>4. StagedInv
  BY DEF KvInit, StagedInv
<1>5. StageInv
  <2> DEFINE T == [run : {"none", "copying", "ended"}, ready : Nat, error : BOOLEAN, arrs : BOOLEAN, buf : Seq(Seq(Nat))]
  <2>1. NoStage \in T /\ NoStage.ready = 0 /\ NoStage.run = "none" /\ NoStage.buf = <<>>
    BY DEF NoStage
  <2>2. stage = [i \in Clients |-> NoStage]
    BY DEF KvInit
  <2>3. \A i \in Clients : Pages(Asked[i]) \in Nat
    BY PagesType
  <2> QED BY <2>1, <2>2, <2>3 DEF StageInv
<1>6. FilesInv /\ TailsInv
  BY DEF KvInit, Blank, FilesInv, TailsInv
<1>7. DecInv
  BY DEF KvInit, NoRequest, DecInv, PreparedIsOwn
<1> QED BY <1>1, <1>2, <1>3, <1>4, <1>5, <1>6, <1>7 DEF RowsInv

\* The invariant is inductive.
LEMMA RowsStep ==
  ASSUME RowsInv, [KvNext]_kvVars
  PROVE  RowsInv'
BY HandStep, QueueStep, CapStep, StagedStep, StageStep, FilesStep, TailsStep, DecStep DEF RowsInv

\* So it always holds.
LEMMA RowsAlways == KvSpec => []RowsInv
<1>1. KvInit => RowsInv
  BY RowsStart
<1>2. RowsInv /\ [KvNext]_kvVars => RowsInv'
  BY RowsStep
<1> QED BY <1>1, <1>2, PTL DEF KvSpec

\* Every block file of the decoder, and every tail file, holds the rows it is named for: what lands block by
\* block (rdma4), what _load_blocks and store_cache make of a capture with blocks missing, what a stalled drain
\* leaves to the manager, and what the decoder adds to a restored prefix.
THEOREM FilesCorrect == KvSpec => []FilesAreTrue
<1>1. RowsInv => FilesAreTrue
  BY DEF RowsInv, FilesInv, TailsInv, FilesAreTrue
<1> QED BY <1>1, RowsAlways, PTL

\* The cache a request decodes from holds the rows of its own prompt, all the pages that were matched and never
\* the last token (_staged_restore, reconstruct_cache, _install_tail), whichever job's stage it was taken from.
THEOREM PreparedCorrect == KvSpec => []PreparedIsOwn
<1>1. RowsInv => PreparedIsOwn
  BY DEF RowsInv, DecInv
<1> QED BY <1>1, RowsAlways, PTL

\* The types, one job at a time on the main thread, no job queued twice, and no stage kept twice (bridge_via_main,
\* _STAGED).
THEOREM KvTypes == KvSpec => []KvTypeOK
<1>1. RowsInv /\ VerdictInv => KvTypeOK
  <2> SUFFICES ASSUME RowsInv, VerdictInv PROVE KvTypeOK
    OBVIOUS
  <2>1. IsInjective(staged)
    BY DEF RowsInv, StagedInv, IsInjective
  <2>2. /\ via \in Transports /\ hand \in [Clients -> {"new", "waiting", "forwarded", "answered"}] /\ woes \in 0 .. MaxWoes
        /\ box \in [Clients -> {"empty", "skipped", "declined", "complete", "partial"}]
    BY DEF RowsInv, HandInv, VerdictInv, Verdicts
  <2>3. /\ main.job \in Clients \cup {0} /\ main.at \in {"idle", "wait", "pull", "drain", "hung"}
        /\ (main.job = 0 <=> main.at = "idle") /\ IsInjective(queue) /\ Job \notin Range(queue)
    BY DEF RowsInv, QueueInv, Ats
  <2>4. \A i \in Clients : cap[i].files \subseteq 1 .. cap[i].sent /\ cap[i].sent <= Pages(Asked[i])
    BY DEF RowsInv, CapInv
  <2>5. \A i \in Clients : stage[i].ready <= Len(stage[i].buf)
    BY DEF RowsInv, StageInv
  <2> QED BY <2>1, <2>2, <2>3, <2>4, <2>5 DEF KvTypeOK
<1>2. KvSpec => []VerdictInv
  <2>1. KvInit => VerdictInv
    BY VerdictStart
  <2>2. VerdictInv /\ [KvNext]_kvVars => VerdictInv'
    BY VerdictStep
  <2> QED BY <2>1, <2>2, PTL DEF KvSpec
<1> QED BY <1>1, <1>2, RowsAlways, PTL

=============================================================================
