------------------------------- MODULE TfSplit -------------------------------
(***************************************************************************)
(* The GLM-5.3 split (glm53-flash-split/tf_split.py): a long prompt's      *)
(* stable prefix is prefilled by the Spark pair, pulled through the MCDMA  *)
(* door into the decode box's shared memory, and built there into the      *)
(* prompt store, from which the prompt's own fill then resumes.            *)
(*                                                                         *)
(* Three kinds of thread: one per request, in Scheduler.submit (sweep,     *)
(* plan, budget, prefill, door, pull); the scheduler's one thread, in      *)
(* PromptFill._start_fill (build, chunk starts); and clients that go away. *)
(* They share PENDING, BUDGET, the marker file, the door (a flock taken on *)
(* a descriptor) and the daemon's shared memory, which holds the blobs of  *)
(* the last pull.  Time is abstracted to what it allows: a wait may run    *)
(* out, and a pending handoff may grow older than 600 s.                   *)
(***************************************************************************)
EXTENDS Integers, FiniteSets, FiniteSetsExt

CONSTANTS
  Jobs,           \* requests, each submitted at most once
  Asks,           \* the prompt of each request (see Prompt)
  MinTokens,      \* min_tokens
  MinDelta,       \* min_delta
  MaxHandoffs,    \* values max_handoff_tokens may have when a request reads the config
  DefaultCap,     \* the capacity used for the budget when max_handoff_tokens is 0
  BigTokens,      \* big_handoff_tokens
  MaxStarts,      \* entries prompt_chunks keeps in _EXTRA_STARTS
  ChunkStep,      \* TensorFold's own chunk starts are the multiples of it
  SweepPreempted, \* a thread may be switched out in the middle of _sweep
  None            \* no value

(* A prompt: the text it is a prefix of, its length, the history boundary  *)
(* (0 when unset) and the positions at which messages start.               *)
Prompt == [text : {"x", "y"}, n : Nat \ {0}, hist : Nat, msgs : SUBSET Nat]

ASSUME SplitAssumption ==
  /\ IsFiniteSet(Jobs) /\ Asks \in [Jobs -> Prompt]
  /\ MinTokens \in Nat \ {0} /\ MinDelta \in Nat \ {0} /\ BigTokens \in Nat
  /\ MaxHandoffs \subseteq Nat /\ DefaultCap \in Nat \ {0}
  /\ MaxStarts \in Nat \ {0} /\ ChunkStep \in Nat \ {0}
  /\ SweepPreempted \in BOOLEAN
  /\ None \notin Jobs

VARIABLES
  pc,       \* where each request is
  engine,   \* _ENGINE[0] is known
  mx,       \* max_handoff_tokens as it read it
  bound,    \* its handoff boundary, 0 for no split
  fd,       \* the descriptor its thread or its pending entry holds, 0 for none
  todo,     \* pending handoffs its sweep found expired and has yet to free
  pending,  \* PENDING: jobs with an entry
  old,      \* entries older than 600 s
  budget,   \* BUDGET[0]
  open,     \* descriptors of the door file that are open
  door,     \* descriptor that holds the lock, 0 for none
  shm,      \* job whose blobs are in the daemon's shared memory
  marker,   \* /tmp/tf_split_inflight exists
  store,    \* prompt store: text, length, and the job whose blobs it was built from
  starts,   \* _EXTRA_STARTS: boundary and text
  resume    \* where a filled request starts computing, -1 before

planVars == <<engine, mx, bound>>
lockVars == <<pending, old, open, door>>
pairVars == <<budget, marker>>
storeVars == <<store, starts, resume>>
vars == <<pc, planVars, fd, todo, lockVars, pairVars, shm, storeVars>>

-----------------------------------------------------------------------------
(* Pure parts *)

\* PromptStore.longest (external): the longest stored prefix of the prompt
Longest(p) == Max({x.len : x \in {x \in store : x.text = p.text /\ x.len <= p.n}} \cup {0})

Aligned4(k) == k - (k % 4)

\* stable history: the history boundary, strictly inside the prompt
Stable(p) == Min({IF p.hist > 0 THEN p.hist ELSE p.n - 1, p.n - 1})

\* _last_message_start: strictly inside the history; 0 also when the engine is unknown
LastMessageStart(p) ==
  IF engine THEN Max({0} \cup {m \in p.msgs : 0 < m /\ m < Stable(p) - 8}) ELSE 0

\* prefer the start of the last message when that still hands off enough
StableHandoff(p) ==
  IF LastMessageStart(p) > 0 /\ Aligned4(LastMessageStart(p)) - Longest(p) >= MinDelta
  THEN LastMessageStart(p) ELSE Stable(p)

\* defect: the capacity is taken as the boundary, whatever its remainder
CappedUnaligned(b, cap) == IF cap > 0 /\ b > cap THEN cap ELSE b

\* the boundary within the pair's capacity; 0 stands for no capacity limit
Capped(b, cap) == IF cap > 0 /\ b > cap THEN Aligned4(cap) ELSE b

\* plan(): 0 for no split
Plan(p, cap) ==
  LET b == Aligned4(StableHandoff(p))
  IN  IF b < MinTokens \/ Capped(b, cap) - Longest(p) < MinDelta THEN 0 ELSE Capped(b, cap)

\* the budget's capacity
BudgetCap(j) == IF mx[j] = 0 THEN DefaultCap ELSE mx[j]

Big(j) == bound[j] >= BigTokens

\* os.open returns the lowest descriptor that is free
LowestFd == Min((1 .. Cardinality(Jobs)) \ open)

\* defect: the smallest boundaries are kept
PruneLargest(S) ==
  IF Cardinality(S) <= MaxStarts THEN S
  ELSE {x \in S : Cardinality({y \in S : y.b < x.b}) < MaxStarts}

\* defect: one too many is kept
PruneLate(S) ==
  IF Cardinality(S) <= MaxStarts + 1 THEN S
  ELSE {x \in S : Cardinality({y \in S : y.b > x.b}) < MaxStarts}

\* prompt_chunks: all but the MaxStarts largest boundaries are forgotten
PruneStarts(S) ==
  IF Cardinality(S) <= MaxStarts THEN S
  ELSE {x \in S : Cardinality({y \in S : y.b > x.b}) < MaxStarts}

\* chunk starts of a prompt: TensorFold's own, and the handoffs' that are its prefixes
ChunkStarts(p, S) ==
  {k \in 0 .. p.n - 1 : k % ChunkStep = 0} \cup {x.b : x \in {x \in S : x.text = p.text /\ x.b < p.n}}

\* where a fill resumes (external): the longest stored prefix that ends at a chunk start
ResumeAt(p, S, T) ==
  Max({0} \cup {x.len : x \in {x \in T : x.text = p.text /\ x.len \in ChunkStarts(p, S)}})

-----------------------------------------------------------------------------
(* The request's thread: Scheduler.submit, network_phase *)

\* CONFIG.get: the file may have changed since the last request read it
ReadConfig(j) == \E m \in MaxHandoffs : mx' = [mx EXCEPT ![j] = m]

\* the snapshot of _sweep: entries older than 600 s
Expired == {[job |-> k, fd |-> fd[k]] : k \in pending \cap old}

Submit(j) ==
  /\ pc[j] = "new"
  /\ ReadConfig(j)
  /\ engine' = TRUE
  /\ todo' = [todo EXCEPT ![j] = Expired]
  /\ pc' = [pc EXCEPT ![j] = "sweep"]
  /\ UNCHANGED <<bound, fd, lockVars, pairVars, shm, storeVars>>

\* _door_unlock on an open descriptor: the lock goes if this descriptor holds it
Unlock(f) ==
  /\ open' = open \ {f}
  /\ door' = IF door = f THEN 0 ELSE door

\* one entry is popped and its descriptor closed.  A descriptor that is already
\* closed raises EBADF: the hook's handler then submits the job without a split.
SweepOne(j) ==
  /\ pc[j] = "sweep"
  /\ \E e \in todo[j] :
       /\ pending' = pending \ {e.job}
       /\ old' = old \ {e.job}
       /\ IF e.fd \in open
          THEN /\ Unlock(e.fd)
               /\ todo' = [todo EXCEPT ![j] = @ \ {e}]
               /\ UNCHANGED pc
          ELSE /\ todo' = [todo EXCEPT ![j] = {}]
               /\ pc' = [pc EXCEPT ![j] = "queued"]
               /\ UNCHANGED <<open, door>>
  /\ UNCHANGED <<planVars, fd, pairVars, shm, storeVars>>

\* plan(): submit without a split (the mode is off, or the job has images or labels or is
\* a background one), or go on to the budget
Decide(j) ==
  /\ pc[j] = "sweep"
  /\ todo[j] = {}
  /\ \E b \in {0, Plan(Asks[j], mx[j])} :
         /\ bound' = [bound EXCEPT ![j] = b]
         /\ pc' = [pc EXCEPT ![j] = IF b = 0 THEN "queued" ELSE "budget"]
  /\ UNCHANGED <<engine, mx, fd, todo, lockVars, pairVars, shm, storeVars>>

\* defect: the budget only looks at the requests before this one
FitsBefore(j) == budget < BudgetCap(j)

\* _budget_take's condition: room for it, or nobody else in flight
Fits(j) == budget + bound[j] <= BudgetCap(j) \/ budget = 0

\* the tokens are reserved; a big handoff writes its marker after it has waited,
\* at most a minute, for the other consumer's
BudgetTake(j) ==
  /\ pc[j] = "budget"
  /\ Fits(j)
  /\ budget' = budget + bound[j]
  /\ marker' = (marker \/ Big(j))
  /\ pc' = [pc EXCEPT ![j] = "prefill"]
  /\ UNCHANGED <<planVars, fd, todo, lockVars, shm, storeVars>>

\* timeout_s is over and the budget is still full: no split
BudgetTimeout(j) ==
  /\ pc[j] = "budget"
  /\ ~Fits(j)
  /\ pc' = [pc EXCEPT ![j] = "queued"]
  /\ UNCHANGED <<planVars, fd, todo, lockVars, pairVars, shm, storeVars>>

\* _budget_give, and a big handoff's unlink of the marker
Give(j) ==
  /\ budget' = Max({0, budget - bound[j]})
  /\ marker' = (marker /\ ~Big(j))

\* a descriptor is closed, unless somebody has closed it already
CloseIfOpen(f) == IF f \in open THEN Unlock(f) ELSE UNCHANGED <<open, door>>

\* vllm_prefill returns; _door_lock opens a descriptor of its own
Prefilled(j) ==
  /\ pc[j] = "prefill"
  /\ fd' = [fd EXCEPT ![j] = LowestFd]
  /\ open' = open \cup {LowestFd}
  /\ pc' = [pc EXCEPT ![j] = "door"]
  /\ UNCHANGED <<planVars, todo, pending, old, pairVars, door, shm, storeVars>>

\* the prefill fails, or runs past its time
PrefillFails(j) ==
  /\ pc[j] = "prefill"
  /\ Give(j)
  /\ pc' = [pc EXCEPT ![j] = "queued"]
  /\ UNCHANGED <<planVars, fd, todo, lockVars, shm, storeVars>>

\* defect: the lock is not asked for
DoorTakeAnyway(j) ==
  /\ pc[j] = "door"
  /\ door' = fd[j]
  /\ pc' = [pc EXCEPT ![j] = "pull"]
  /\ UNCHANGED <<planVars, fd, todo, pending, old, pairVars, open, shm, storeVars>>

\* flock succeeds: from here the blobs in shared memory are this job's to replace
DoorTake(j) ==
  /\ pc[j] = "door"
  /\ door = 0 /\ fd[j] \in open
  /\ door' = fd[j]
  /\ pc' = [pc EXCEPT ![j] = "pull"]
  /\ UNCHANGED <<planVars, fd, todo, pending, old, pairVars, open, shm, storeVars>>

\* defect: the wait for the door has no end
DoorNoTimeout(j) ==
  /\ pc[j] = "door"
  /\ fd[j] \notin open
  /\ fd' = [fd EXCEPT ![j] = 0]
  /\ Give(j)
  /\ pc' = [pc EXCEPT ![j] = "queued"]
  /\ UNCHANGED <<planVars, todo, lockVars, shm, storeVars>>

\* timeout_s is over and the door is still held, by another handoff or by another
\* process (the descriptor is closed), or somebody has closed this descriptor
DoorTimeout(j) ==
  /\ pc[j] = "door"
  /\ CloseIfOpen(fd[j])
  /\ fd' = [fd EXCEPT ![j] = 0]
  /\ Give(j)
  /\ pc' = [pc EXCEPT ![j] = "queued"]
  /\ UNCHANGED <<planVars, todo, pending, old, shm, storeVars>>

\* defect: the door is given up when the pull is over, before the blobs are built
PulledEarly(j) ==
  /\ pc[j] = "pull"
  /\ shm' = j
  /\ Give(j)
  /\ pending' = pending \cup {j}
  /\ door' = 0
  /\ pc' = [pc EXCEPT ![j] = "queued"]
  /\ UNCHANGED <<planVars, fd, todo, old, open, storeVars>>

\* Follower.run returns: the blobs are in shared memory, the pair's own copy is free
Pulled(j) ==
  /\ pc[j] = "pull"
  /\ shm' = j
  /\ Give(j)
  /\ pending' = pending \cup {j}
  /\ pc' = [pc EXCEPT ![j] = "queued"]
  /\ UNCHANGED <<planVars, fd, todo, old, open, door, storeVars>>

\* defect: the handler gives back the door only
FailKeepingBudget(j) ==
  /\ pc[j] = "pull"
  /\ shm' = None
  /\ CloseIfOpen(fd[j])
  /\ fd' = [fd EXCEPT ![j] = 0]
  /\ pc' = [pc EXCEPT ![j] = "queued"]
  /\ UNCHANGED <<planVars, todo, pending, old, pairVars, storeVars>>

\* the pull fails half-way: what was in shared memory is lost.  The handler gives
\* back the door, then the budget: not if the unlock raises (EBADF).
PullFails(j) ==
  /\ pc[j] = "pull"
  /\ shm' = None
  /\ CloseIfOpen(fd[j])
  /\ IF fd[j] \in open THEN Give(j) ELSE UNCHANGED <<pairVars>>
  /\ fd' = [fd EXCEPT ![j] = 0]
  /\ pc' = [pc EXCEPT ![j] = "queued"]
  /\ UNCHANGED <<planVars, todo, pending, old, storeVars>>

-----------------------------------------------------------------------------
(* The scheduler's thread: _start_fill, build_phase *)

SchedulerFree == \A k \in Jobs : pc[k] # "build"

\* the fill begins: the pending entry, if there is one, is popped
StartFill(j) ==
  /\ pc[j] = "queued"
  /\ SchedulerFree
  /\ pending' = pending \ {j}
  /\ old' = old \ {j}
  /\ IF j \in pending
     THEN pc' = [pc EXCEPT ![j] = "build"] /\ UNCHANGED resume
     ELSE /\ pc' = [pc EXCEPT ![j] = "filled"]
          /\ resume' = [resume EXCEPT ![j] = ResumeAt(Asks[j], starts, store)]
  /\ UNCHANGED <<planVars, fd, todo, pairVars, open, door, shm, store, starts>>

\* build_cache: every layer's rows and pooled rows must be those of the boundary
BlobsFit(j) == shm # None /\ bound[shm] = bound[j]

\* the blobs are assembled and the door is unlocked; the prefix is stored and the
\* fill's chunk starts are computed again with it.  When the descriptor is
\* already closed the unlock raises, and the prefix is not stored.
Build(j) ==
  /\ pc[j] = "build"
  /\ BlobsFit(j)
  /\ pc' = [pc EXCEPT ![j] = "filled"]
  /\ fd' = [fd EXCEPT ![j] = 0]
  /\ IF fd[j] \in open
     THEN LET here == [b |-> bound[j], text |-> Asks[j].text]
              all == PruneStarts({x \in starts : x.b # bound[j]} \cup {here})
          IN  /\ Unlock(fd[j])
              /\ store' = store \cup {[text |-> Asks[j].text, len |-> bound[j], blob |-> shm]}
              /\ starts' = all
              /\ resume' = [resume EXCEPT ![j] = ResumeAt(Asks[j], all, store')]
     ELSE /\ resume' = [resume EXCEPT ![j] = ResumeAt(Asks[j], starts, store)]
          /\ UNCHANGED <<open, door, store, starts>>
  /\ UNCHANGED <<planVars, todo, pending, old, pairVars, shm>>

\* the build raises: the door is unlocked all the same
BuildFails(j) ==
  /\ pc[j] = "build"
  /\ pc' = [pc EXCEPT ![j] = "filled"]
  /\ fd' = [fd EXCEPT ![j] = 0]
  /\ resume' = [resume EXCEPT ![j] = ResumeAt(Asks[j], starts, store)]
  /\ CloseIfOpen(fd[j])
  /\ UNCHANGED <<planVars, todo, pending, old, pairVars, shm, store, starts>>

-----------------------------------------------------------------------------
(* Clients and time *)

\* the client goes away before the scheduler reaches its job
Cancel(j) ==
  /\ pc[j] = "queued"
  /\ pc' = [pc EXCEPT ![j] = "cancelled"]
  /\ UNCHANGED <<planVars, fd, todo, lockVars, pairVars, shm, storeVars>>

\* 600 s pass since the handoff was put aside
Expire(j) ==
  /\ j \in pending \ old
  /\ old' = old \cup {j}
  /\ UNCHANGED <<pc, planVars, fd, todo, pending, pairVars, open, door, shm, storeVars>>

\* the module's file has changed: it is loaded again over its running functions.  What
\* tf_split_state holds survives, the list with the engine does not.
Reload ==
  /\ engine
  /\ engine' = FALSE
  /\ UNCHANGED <<pc, mx, bound, fd, todo, lockVars, pairVars, shm, storeVars>>

-----------------------------------------------------------------------------

Init ==
  /\ pc = [j \in Jobs |-> "new"] /\ engine = FALSE
  /\ mx = [j \in Jobs |-> 0] /\ bound = [j \in Jobs |-> 0]
  /\ fd = [j \in Jobs |-> 0] /\ todo = [j \in Jobs |-> {}]
  /\ pending = {} /\ old = {} /\ budget = 0
  /\ open = {} /\ door = 0 /\ shm = None /\ marker = FALSE
  /\ store = {} /\ starts = {} /\ resume = [j \in Jobs |-> -1]

\* requests in the middle of a sweep, which runs through unless it may be preempted
Sweeping == {j \in Jobs : todo[j] # {}}

Thread(j) ==
  \/ SweepOne(j) \/ Decide(j) \/ BudgetTake(j) \/ BudgetTimeout(j)
  \/ Prefilled(j) \/ PrefillFails(j) \/ DoorTake(j) \/ DoorTimeout(j) \/ Pulled(j) \/ PullFails(j)

Scheduler(j) == StartFill(j) \/ Build(j) \/ BuildFails(j)

Step(j) == Submit(j) \/ Thread(j) \/ Scheduler(j) \/ Cancel(j) \/ Expire(j)

Next ==
  \/ (SweepPreempted \/ Sweeping = {}) /\ ((\E j \in Jobs : Step(j)) \/ Reload)
  \/ ~SweepPreempted /\ \E j \in Sweeping : SweepOne(j)

Spec == Init /\ [][Next]_vars

\* Threads run on, and every wait has an end.  Submissions, cancellations, reloads, failures and
\* the age of pending handoffs are left to chance.
FairSpec ==
  Spec /\ \A j \in Jobs : WF_vars(Thread(j)) /\ WF_vars(Scheduler(j))

-----------------------------------------------------------------------------
(* Properties *)

\* Every variable keeps its type.
TypeOK ==
  /\ pc \in [Jobs -> {"new", "sweep", "budget", "prefill", "door", "pull", "queued", "build",
                      "filled", "cancelled"}]
  /\ engine \in BOOLEAN
  /\ mx \in [Jobs -> MaxHandoffs \cup {0}]
  /\ bound \in [Jobs -> Nat] /\ fd \in [Jobs -> 0 .. Cardinality(Jobs)]
  /\ todo \in [Jobs -> SUBSET [job : Jobs, fd : 0 .. Cardinality(Jobs)]]
  /\ pending \subseteq Jobs /\ old \subseteq pending /\ budget \in Nat
  /\ open \subseteq 1 .. Cardinality(Jobs) /\ door \in open \cup {0}
  /\ shm \in Jobs \cup {None} /\ marker \in BOOLEAN
  /\ store \subseteq [text : {"x", "y"}, len : Nat, blob : Jobs \cup {None}]
  /\ starts \subseteq [b : Nat, text : {"x", "y"}] /\ Cardinality(starts) <= MaxStarts
  /\ resume \in [Jobs -> Nat \cup {-1}]

\* requests whose tokens are reserved
InFlight == {j \in Jobs : pc[j] \in {"prefill", "door", "pull"}}

\* The budget is the sum of what the requests in flight have reserved: no outcome of a
\* prefill, of the wait for the door or of a pull leaks tokens or gives them back twice.
BudgetExact == budget = MapThenSumSet(LAMBDA j : bound[j], InFlight)

\* Handoffs that share the pair fit together into a capacity it was configured with; one that exceeds it
\* runs alone.
PairNotOverfull == (\E c \in MaxHandoffs \cup {DefaultCap} : budget <= c) \/ Cardinality(InFlight) = 1

\* handoffs whose blobs are being written to shared memory, or have yet to be read from it
Holders == {j \in Jobs : pc[j] \in {"pull", "build"} \/ j \in pending}

\* One puller on the device, held until the blobs are built: the door is locked by the one
\* handoff that needs the shared memory, and by nobody when none does.
OneDoor == IF door = 0 THEN Holders = {} ELSE \E j \in Jobs : Holders = {j} /\ fd[j] = door

\* A stored prefix was built from a handoff of exactly its own tokens, although all handoffs
\* pass through one shared memory and may be cancelled, expire or fail in between.
StoreIsOwn ==
  \A x \in store : x.blob # None /\ Asks[x.blob].text = x.text /\ bound[x.blob] = x.len

\* A boundary is a whole number of pooled rows, strictly inside the prompt's history, within the
\* capacity, and long enough to be worth it: build_cache asserts the first, the resumed fill needs
\* the second.
BoundaryIsUsable ==
  \A j \in Jobs : bound[j] # 0 =>
    /\ bound[j] % 4 = 0 /\ bound[j] <= Stable(Asks[j]) /\ bound[j] < Asks[j].n
    /\ mx[j] > 0 => bound[j] <= mx[j]
    /\ bound[j] >= MinDelta

\* A request whose handoff was built computes only what comes after its boundary ("so the
\* store's own lookup hits it", tf_split.py 11-13), unless MaxStarts longer handoffs are remembered:
\* then its boundary is the one prompt_chunks forgets, and it computes what was handed over again.
SplitIsUsed ==
  \A j \in Jobs : pc[j] = "filled" /\ (\E x \in store : x.blob = j) =>
    resume[j] >= bound[j] \/ Cardinality({x \in starts : x.b > bound[j]}) >= MaxStarts

\* A submitted request is filled unless its client goes away: whatever happens to the pair, the
\* budget, the door and the pull, and to the other requests, it is never left waiting.
EveryJobIsFilled == \A j \in Jobs : pc[j] # "new" ~> pc[j] \in {"filled", "cancelled"}
=============================================================================
