-------------------------------- MODULE KvDoor --------------------------------
(***************************************************************************)
(* The front door in kv mode and the decoder behind it: handler threads    *)
(* that hand their request to the one main thread and wait for it with a   *)
(* timeout (studio/pd_front.py), the main thread that bridges one prompt   *)
(* at a time over one of four transports, the writer that commits what it  *)
(* assembled (pd_assemble_kv.py, omlx_block_writer.py), and the hooks      *)
(* inside oMLX that fill a cache while the pair prefills and hand it to    *)
(* the request (pd_omlx_hooks.py).  The pair is seen from here only: what  *)
(* its connector does is in KvConnector and KvStream.                      *)
(*                                                                         *)
(* A prompt is the sequence of its rows; a row is named by a number that   *)
(* stands for its token and all tokens before it (RowsNameHistory).  The   *)
(* chain hash of page j is the prefix that ends with it: equal hashes,     *)
(* equal prefixes.                                                         *)
(***************************************************************************)
EXTENDS Integers, FiniteSets, Sequences, SequencesExt

CONSTANTS
  Asked,       \* Asked[i]: the prompt that client i posts
  BridgeOnly,  \* the clients that send X-PD-Bridge-Only
  Transports,  \* the values of PD_TRANSPORT: "tcp", "rdma", "rdma2", "rdma4"
  Page,        \* PD_BLOCK in kv mode
  MinTokens, MinTail,  \* PD_MIN_TOKENS, PD_MIN_TAIL
  MaxWoes      \* bound on failures, of any kind

Clients == DOMAIN Asked

ASSUME KvDoorAssumption ==
  /\ Asked \in Seq(Seq(Nat) \ {<<>>}) /\ BridgeOnly \subseteq Clients   \* a chat template renders something
  /\ Transports \subseteq {"tcp", "rdma", "rdma2", "rdma4"}
  /\ Page \in Nat \ {0} /\ MinTokens \in Nat /\ MinTokens >= Page /\ MinTail \in Nat /\ MaxWoes \in Nat

ASSUME RowsNameHistory ==
  \A i, k \in Clients : \A r \in DOMAIN Asked[i] \cap DOMAIN Asked[k] :
    Asked[i][r] = Asked[k][r] => SubSeq(Asked[i], 1, r) = SubSeq(Asked[k], 1, r)

VARIABLES
  via,      \* PD_TRANSPORT of this door
  hand,     \* the handler thread of each client
  box,      \* what the main thread has told it: "empty" until then
  queue,    \* _BRIDGE_Q
  main,     \* the main thread: its job (0: none), where it is, and the blocks it waits for
  cap,      \* the capture of each job, as the door can see it
  ssd,      \* the decoder's block files: hash -> rows
  tails,    \* pd_tail: prompt -> where its rows begin, and the rows
  writing,  \* blocks given to the SSD manager and not yet committed
  stage,    \* _Stage of each job: the filling thread and the buffers
  staged,   \* the jobs in _STAGED, oldest first
  dec,      \* the decoder's scheduler: the request it prepares or runs
  woes

pairVars == <<cap>>
doorVars == <<hand, box, queue, main>>
kvVars == <<via, doorVars, pairVars, ssd, tails, writing, stage, staged, dec, woes>>

Woe == woes < MaxWoes /\ woes' = woes + 1

-----------------------------------------------------------------------------
(* Pages, hashes, files *)

Pages(p) == Len(p) \div Page
Hash(p, j) == SubSeq(p, 1, j * Page)
PageOf(p, j) == SubSeq(p, (j - 1) * Page + 1, j * Page)
RowsOf(h) == SubSeq(h, Len(h) - Page + 1, Len(h))
OnDisk(p, j) == Hash(p, j) \in DOMAIN ssd

\* cached_prefix_tokens, in pages: the longest run of block files from the first on
CachedPages(p) == CHOOSE n \in 0 .. Pages(p) : (\A j \in 1 .. n : OnDisk(p, j)) /\ (n < Pages(p) => ~OnDisk(p, n + 1))

\* a file that is there already stays
With(files, h, rows) == [x \in DOMAIN files \cup {h} |-> IF x \in DOMAIN files THEN files[x] ELSE rows]

Blank == [j \in {} |-> 0]
Free == [job |-> 0, at |-> "idle", have |-> 0]
NoCapture == [eng |-> "none", sent |-> 0, files |-> {}, done |-> FALSE, fits |-> TRUE]
NoStage == [run |-> "none", ready |-> 0, error |-> FALSE, arrs |-> FALSE, buf |-> <<>>]
NoRequest == [req |-> 0, at |-> "idle", from |-> 0, n |-> 0, rows |-> <<>>]

-----------------------------------------------------------------------------
(* Handler threads *)

Job == main.job

Arrive(i) ==
  /\ hand[i] = "new" /\ hand' = [hand EXCEPT ![i] = "waiting"] /\ queue' = Append(queue, i)
  /\ UNCHANGED <<via, box, main, pairVars, ssd, tails, writing, stage, staged, dec, woes>>

\* defect: the handler waits as long as it takes
WaitsForMain(i) == box[i] # "empty"

\* done.wait returns: the main thread has answered; or the time is up while the job is queued or being worked
\* on, which it stays
WaitIsOver(i) == box[i] # "empty" \/ i \in Range(queue) \/ Job = i

GoesOn(i) ==
  /\ hand[i] = "waiting" /\ WaitIsOver(i)
  /\ hand' = [hand EXCEPT ![i] = IF i \in BridgeOnly THEN "answered" ELSE "forwarded"]
  /\ UNCHANGED <<via, box, queue, main, pairVars, ssd, tails, writing, stage, staged, dec, woes>>

-----------------------------------------------------------------------------
(* The main thread: bridge(), one job at a time *)

Ids == Asked[Job]

Tells(verdict) == box' = [box EXCEPT ![Job] = verdict] /\ main' = Free
Declines == Tells("declined")

\* _STAGED is keyed by the last hash of the prompt
Key(k) == Hash(Asked[k], Pages(Asked[k]))

\* the jobs of _STAGED without some, in their order
StagedWithout(gone) ==
  LET kept[n \in 0 .. Len(staged)] ==
        IF n = 0 THEN <<>> ELSE IF staged[n] \in gone THEN kept[n - 1] ELSE Append(kept[n - 1], staged[n])
  IN  kept[Len(staged)]

\* the entries that may be over 900 s old: their threads gave up at 600 s, unless they had finished
Ended == {k \in Range(staged) : stage[k].run = "ended"}

\* _STAGED[e.key] = e: the entry of the same last hash is replaced in its place
Entered(seq, i) ==
  LET same(k) == Key(k) = Key(i)
  IN  IF \E k \in Range(seq) : same(k) THEN [x \in DOMAIN seq |-> IF same(seq[x]) THEN i ELSE seq[x]] ELSE Append(seq, i)

\* POST /pd/stage, which may fail
Stages(i) ==
  \/ /\ via = "rdma4" /\ UNCHANGED woes
     /\ stage' = [stage EXCEPT ![i] = [NoStage EXCEPT !.run = "copying", !.arrs = TRUE,
                                                      !.buf = [j \in 1 .. Pages(Asked[i]) |-> <<>>]]]
     /\ \E gone \in SUBSET Ended : staged' = Entered(StagedWithout(gone), i)
  \/ via = "rdma4" /\ Woe /\ UNCHANGED <<stage, staged>>
  \/ via # "rdma4" /\ UNCHANGED <<stage, staged, woes>>

\* defect: the job is looked at and stays in the queue
QueueKept == queue

\* _BRIDGE_Q after its get
QueueLeft == Tail(queue)

\* the next job: it cannot be rendered, is too short or warm, or the pair is asked for it under a fresh tag
Takes ==
  /\ Job = 0 /\ queue # <<>> /\ queue' = QueueLeft
  /\ LET i == Head(queue)
         small == Len(Asked[i]) < MinTokens \/ Len(Asked[i]) - CachedPages(Asked[i]) * Page < MinTail
     IN  \/ Woe /\ box' = [box EXCEPT ![i] = "declined"] /\ UNCHANGED <<main, cap, stage, staged>>
         \/ small /\ box' = [box EXCEPT ![i] = "skipped"] /\ UNCHANGED <<main, cap, stage, staged, woes>>
         \/ /\ ~small /\ main' = [Free EXCEPT !.job = i, !.at = "wait"] /\ UNCHANGED box
            /\ cap' = [cap EXCEPT ![i].eng = "running"] /\ Stages(i)
  /\ UNCHANGED <<via, hand, ssd, tails, writing, dec>>

\* defect: no grace
PollsOn(c) == c.eng = "failed" /\ UNCHANGED woes

\* the engine failed; or it has answered and the grace is over; or, polling the share, no directory for long
GivesUpOn(c) ==
  \/ c.eng \in {"failed", "answered"} /\ UNCHANGED woes
  \/ via \in {"tcp", "rdma"} /\ c.files = {} /\ Woe

GivesUpWaiting ==
  /\ main.at = "wait" /\ ~cap[Job].done /\ GivesUpOn(cap[Job]) /\ Declines
  /\ UNCHANGED <<via, hand, queue, pairVars, ssd, tails, writing, stage, staged, dec>>

Verdict(n) ==
  IF n = 0 \/ 2 * n * Page < Len(Ids) THEN "declined" ELSE IF n = Pages(Ids) THEN "complete" ELSE "partial"

\* rdma4: nothing to assemble; the files are counted where the decoder will look, and the rows after the last
\* block go to pd_tail if they were shipped and join them
Landed ==
  LET n == CachedPages(Ids)
      shipped == Len(Ids) - 1 - Pages(Ids) * Page
      fits == shipped > 0 /\ n * Page + shipped = Len(Ids) - 1
      tail == [from |-> Pages(Ids) * Page, rows |-> SubSeq(Ids, Pages(Ids) * Page + 1, Len(Ids) - 1)]
  IN  /\ Tells(Verdict(n))
      /\ \/ UNCHANGED woes /\ tails' = IF fits THEN [x \in DOMAIN tails \cup {Ids} |-> IF x = Ids THEN tail ELSE tails[x]] ELSE tails
         \/ Woe /\ UNCHANGED tails

\* DONE is seen: a manifest for another length, or of another format, declines
SeesDone ==
  /\ main.at = "wait" /\ cap[Job].done
  /\ \/ ~cap[Job].fits /\ Declines /\ UNCHANGED <<tails, woes>>
     \/ cap[Job].fits /\ via = "rdma4" /\ Landed
     \/ cap[Job].fits /\ via # "rdma4" /\ main' = [main EXCEPT !.at = "pull"] /\ UNCHANGED <<box, tails, woes>>
  /\ UNCHANGED <<via, hand, queue, pairVars, ssd, writing, stage, staged, dec>>

\* defect: a missing file is passed over
LoadPresent(files, want) == SetToSortSeq(files \cap 1 .. want, <)

\* _load_blocks: the files in order, up to the first that is missing
LoadBlocks(files, want) ==
  LET run == {k \in 0 .. want : 1 .. k \subseteq files} IN [x \in 1 .. (CHOOSE k \in run : \A l \in run : l <= k) |-> x]

\* the blocks are here (pulled, or landed by rdma2) and assembled, and store_cache gives them to the SSD manager
Assembles ==
  LET want == IF cap[Job].sent < Pages(Ids) THEN cap[Job].sent ELSE Pages(Ids)
      loaded == LoadBlocks(cap[Job].files, want)
  IN  /\ main.at = "pull"
      /\ IF loaded = <<>> THEN Declines /\ UNCHANGED writing
         ELSE /\ main' = [main EXCEPT !.at = "drain", !.have = Len(loaded)] /\ UNCHANGED box
              /\ writing' = writing \cup {[hash |-> Hash(Ids, j), rows |-> PageOf(Ids, loaded[j])] : j \in DOMAIN loaded}
      /\ UNCHANGED <<via, hand, queue, pairVars, ssd, tails, stage, staged, dec, woes>>

\* a file cannot be read from the share, or the pd_rdma client says so
PullFails ==
  /\ main.at = "pull" /\ via # "rdma2" /\ Woe /\ Declines
  /\ UNCHANGED <<via, hand, queue, pairVars, ssd, tails, writing, stage, staged, dec>>

\* the pd_rdma client is read without a timeout
PullHangs ==
  /\ main.at = "pull" /\ via = "rdma" /\ Woe /\ main' = [main EXCEPT !.at = "hung"]
  /\ UNCHANGED <<via, hand, box, queue, pairVars, ssd, tails, writing, stage, staged, dec>>

Commits ==
  /\ \E w \in writing : ssd' = With(ssd, w.hash, w.rows) /\ writing' = writing \ {w}
  /\ UNCHANGED <<via, doorVars, pairVars, tails, stage, staged, dec, woes>>

\* defect: the verdict does not wait for the files
DrainEnds == TRUE

\* _drain and the test after it: every block file is there
AllWritten == \A j \in 1 .. main.have : OnDisk(Ids, j)

Drains ==
  /\ main.at = "drain"
  /\ \/ AllWritten /\ Tells(Verdict(main.have)) /\ UNCHANGED woes
     \/ ~AllWritten /\ Woe /\ Declines   \* 45 s, or 30 s without progress; the manager's thread may go on
  /\ UNCHANGED <<via, hand, queue, pairVars, ssd, tails, writing, stage, staged, dec>>

-----------------------------------------------------------------------------
(* The pair, as seen from the door: blocks in order, then the manifest, then DONE.  The connector goes on *)
(* although the door's own engine call has failed, as its timeout does not stop the engine.              *)

Sends(i) ==
  /\ cap[i].eng # "none" /\ ~cap[i].done /\ cap[i].sent < Pages(Asked[i])
  /\ LET j == cap[i].sent + 1
     IN  \/ /\ via = "rdma4" /\ ssd' = With(ssd, Hash(Asked[i], j), PageOf(Asked[i], j))
            /\ cap' = [cap EXCEPT ![i].sent = j] /\ UNCHANGED woes
         \/ /\ via # "rdma4" /\ cap' = [cap EXCEPT ![i].sent = j, ![i].files = @ \cup {j}] /\ UNCHANGED <<ssd, woes>>
         \/ Woe /\ cap' = [cap EXCEPT ![i].sent = j] /\ UNCHANGED ssd   \* counted, and never landed
  /\ UNCHANGED <<via, doorVars, tails, writing, stage, staged, dec>>

\* a capture with a gap or an error is committed with the blocks it has; the manifest may be for another
\* rendering of the prompt; a DONE that comes after the door has left the job is read by nobody
CommitsCapture(i) ==
  /\ Job = i /\ ~cap[i].done
  /\ \/ cap[i].sent = Pages(Asked[i]) /\ cap' = [cap EXCEPT ![i].done = TRUE] /\ UNCHANGED woes
     \/ cap' = [cap EXCEPT ![i].done = TRUE] /\ Woe
     \/ cap' = [cap EXCEPT ![i].done = TRUE, ![i].fits = FALSE] /\ Woe
  /\ UNCHANGED <<via, doorVars, ssd, tails, writing, stage, staged, dec>>

\* the engine call answers, whatever the connector still has to send, or fails or times out
EngineEnds(i) ==
  /\ cap[i].eng = "running"
  /\ \/ cap' = [cap EXCEPT ![i].eng = "answered"] /\ UNCHANGED woes
     \/ cap' = [cap EXCEPT ![i].eng = "failed"] /\ Woe
  /\ UNCHANGED <<via, doorVars, ssd, tails, writing, stage, staged, dec>>

-----------------------------------------------------------------------------
(* The hooks in oMLX *)

\* the filling thread: the next block file is copied as soon as it is there, or has been waited for too long
Copies(k) ==
  /\ stage[k].run = "copying"
  /\ LET j == stage[k].ready + 1
         last == j = Pages(Asked[k])
     IN  \/ /\ OnDisk(Asked[k], j)
            /\ stage' = [stage EXCEPT ![k].buf[j] = ssd[Hash(Asked[k], j)], ![k].ready = j,
                                      ![k].run = IF last THEN "ended" ELSE "copying"]
         \/ /\ ~OnDisk(Asked[k], j)
            /\ stage' = [stage EXCEPT ![k].error = TRUE, ![k].run = "ended"]
  /\ UNCHANGED <<via, doorVars, pairVars, ssd, tails, writing, staged, dec, woes>>

\* oMLX's prefix walk: every page it holds, but never the whole prompt
Matched(p) == LET n == CachedPages(p) IN IF n * Page = Len(p) THEN n - 1 ELSE n

\* a stage without an error whose hashes start with the matched ones
Fills(k, p, n) == ~stage[k].error /\ n > 0 /\ n <= Pages(Asked[k]) /\ Hash(Asked[k], n) = Hash(p, n)

\* the restored cache, and _install_tail in the same call: the tail of this very prompt, if it starts where
\* the restored rows end and leaves one token
Prepared(i, n, rows) ==
  LET p == Asked[i]
      fits == p \in DOMAIN tails /\ n * Page + Len(tails[p].rows) = Len(p) - 1
  IN  dec' = [req |-> i, at |-> "serve", from |-> 0, n |-> n, rows |-> IF fits THEN rows \o tails[p].rows ELSE rows]

FromDisk(i, n) == Prepared(i, n, FlattenSeq([j \in 1 .. n |-> ssd[Hash(Asked[i], j)]]))

\* reconstruct_cache: the first stage that fits is waited for, else the block files are read
Restores(i) ==
  /\ dec.req = 0 /\ hand[i] = "forwarded"
  /\ LET n == Matched(Asked[i])
         fit == {x \in DOMAIN staged : Fills(staged[x], Asked[i], n)}
     IN  IF fit = {} THEN FromDisk(i, n)
         ELSE dec' = [NoRequest EXCEPT !.req = i, !.at = "staged", !.from = staged[Min(fit)], !.n = n]
  /\ UNCHANGED <<via, doorVars, pairVars, ssd, tails, writing, stage, staged, woes>>

\* pop(e.key): whichever stage has that key by now
Popped(k) == StagedWithout({x \in Clients : Key(x) = Key(k)})

\* defect: the stage is taken as it is when the wait is over
ReadyOrLate(k, n) == TRUE

Ready(k, n) == stage[k].ready >= n

\* _staged_restore after its wait of at most 15 s: the buffers change owner, or the block files are read
TakesStage ==
  LET k == dec.from
  IN  /\ dec.at = "staged"
      /\ \/ /\ Ready(k, dec.n) /\ stage[k].arrs
            /\ Prepared(dec.req, dec.n, FlattenSeq(SubSeq(stage[k].buf, 1, dec.n)))
            /\ stage' = [stage EXCEPT ![k].arrs = FALSE] /\ staged' = Popped(k)
         \/ /\ ~Ready(k, dec.n) \/ ~stage[k].arrs
            /\ FromDisk(dec.req, dec.n) /\ UNCHANGED <<stage, staged>>
      /\ UNCHANGED <<via, doorVars, pairVars, ssd, tails, writing, woes>>

\* the decoder prefills the rest, answers, and stores the pages that follow the restored ones
Serves ==
  LET p == Asked[dec.req]
      own == dec.rows = SubSeq(p, 1, Len(dec.rows))
      at(j) == IF own THEN PageOf(p, j) ELSE <<>>
      new == {Hash(p, j) : j \in dec.n + 1 .. Pages(p)} \ DOMAIN ssd
  IN  /\ dec.at = "serve" /\ dec' = NoRequest
      /\ hand' = [hand EXCEPT ![dec.req] = "answered"]
      /\ ssd' = [h \in DOMAIN ssd \cup new |-> IF h \in new THEN at(Len(h) \div Page) ELSE ssd[h]]
      /\ UNCHANGED <<via, box, queue, main, pairVars, tails, writing, stage, staged, woes>>

-----------------------------------------------------------------------------
KvInit ==
  /\ via \in Transports /\ hand = [i \in Clients |-> "new"] /\ box = [i \in Clients |-> "empty"] /\ queue = <<>>
  /\ main = Free /\ cap = [i \in Clients |-> NoCapture] /\ ssd = Blank /\ tails = Blank /\ writing = {}
  /\ stage = [i \in Clients |-> NoStage] /\ staged = <<>> /\ dec = NoRequest /\ woes = 0

Bridges == Takes \/ GivesUpWaiting \/ SeesDone \/ Assembles \/ PullFails \/ PullHangs \/ Drains
KvPair(i) == Sends(i) \/ CommitsCapture(i) \/ EngineEnds(i)
Decodes == (\E i \in Clients : Restores(i)) \/ TakesStage \/ Serves

KvNext ==
  \/ \E i \in Clients : Arrive(i) \/ GoesOn(i) \/ KvPair(i) \/ Copies(i)
  \/ Bridges \/ Commits \/ Decodes

\* threads are scheduled, timers expire, the SSD manager writes and the engine's call ends (PD_LONG_TIMEOUT);
\* nothing obliges the connector to commit, or a client to come
KvFairness ==
  /\ \A i \in Clients : WF_kvVars(GoesOn(i)) /\ WF_kvVars(EngineEnds(i))
  /\ WF_kvVars(Takes \/ GivesUpWaiting \/ SeesDone \/ Assembles \/ Drains)
  /\ WF_kvVars(Commits) /\ WF_kvVars(Decodes)

KvSpec == KvInit /\ [][KvNext]_kvVars /\ KvFairness

-----------------------------------------------------------------------------
(* Properties *)

KvTypeOK ==
  /\ via \in Transports /\ hand \in [Clients -> {"new", "waiting", "forwarded", "answered"}]
  /\ box \in [Clients -> {"empty", "skipped", "declined", "complete", "partial"}]
  /\ main.job \in Clients \cup {0} /\ main.at \in {"idle", "wait", "pull", "drain", "hung"} /\ (main.job = 0 <=> main.at = "idle")
  /\ \A i \in Clients : cap[i].files \subseteq 1 .. cap[i].sent /\ cap[i].sent <= Pages(Asked[i])
  /\ \A i \in Clients : stage[i].ready <= Len(stage[i].buf)
  /\ IsInjective(staged) /\ IsInjective(queue) /\ Job \notin Range(queue)
  /\ woes \in 0 .. MaxWoes

\* Every block file of the decoder holds the rows its chain hash stands for: what lands block by block, what is
\* assembled with blocks missing, what a stalled drain leaves to the manager, and what the decoder adds to a
\* restored prefix.  A tail file holds the rows of its prompt from the row it is said to start at.
FilesAreTrue ==
  /\ \A h \in DOMAIN ssd : ssd[h] = RowsOf(h)
  /\ \A p \in DOMAIN tails : tails[p].rows = SubSeq(p, tails[p].from + 1, Len(p) - 1)

\* The cache a request decodes from, restored from a stage that another job announced or from the files, with
\* or without a tail, holds the rows of its own prompt, all pages that were matched, and never the last token.
PreparedIsOwn ==
  dec.at = "serve" =>
    LET p == Asked[dec.req]
    IN  dec.rows = SubSeq(p, 1, Len(dec.rows)) /\ Len(dec.rows) >= dec.n * Page /\ Len(dec.rows) < Len(p)

\* "complete" in X-PD-Bridge: every full block of the prompt is where the decoder looks for it.
VerdictIsTrue == \A i \in Clients : box[i] = "complete" => CachedPages(Asked[i]) = Pages(Asked[i])

\* Whatever becomes of the bridge, a client that has come is answered; also when the main thread hangs.
ClientsAreAnswered == \A i \in Clients : hand[i] = "waiting" ~> hand[i] = "answered"

\* The main thread comes back from every job, unless the pd_rdma client never answers.
BridgeReturns == Job # 0 ~> (Job = 0 \/ main.at = "hung")

=============================================================================
