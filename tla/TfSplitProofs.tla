---------------------------- MODULE TfSplitProofs ----------------------------
(***************************************************************************)
(* Proofs about the GLM split: types, one holder of the door, stored       *)
(* prefixes are their own, boundaries are usable, the budget is exact,     *)
(* what was built is used.  They are for sweeps that run through           *)
(* (SweepPreempted = FALSE): a preempted one may close a descriptor twice. *)
(***************************************************************************)
EXTENDS TfSplit, NatLemmas, FiniteSetTheorems, TLAPS

-----------------------------------------------------------------------------
(* The pure parts *)

\* A boundary is cut down to a multiple of 4.
LEMMA AlignedType ==
  ASSUME NEW k \in Nat
  PROVE  Aligned4(k) \in Nat /\ Aligned4(k) <= k /\ Aligned4(k) % 4 = 0
BY DEF Aligned4

\* What is stored of a prompt is not longer than it.
LEMMA LongestType ==
  ASSUME TypeOK, NEW p \in Prompt
  PROVE  Longest(p) \in Nat
<1> DEFINE L == {x.len : x \in {x \in store : x.text = p.text /\ x.len <= p.n}} \cup {0}
<1>1. L \in SUBSET Nat /\ L # {} /\ \A x \in L : x <= p.n
  BY DEF TypeOK, Prompt
<1>2. p.n \in Nat
  BY DEF Prompt
<1>3. Max(L) \in L
  <2> HIDE DEF L
  <2> QED BY <1>1, <1>2, MaxOf
<1> QED BY <1>1, <1>3 DEF Longest

\* The stable history is strictly inside the prompt.
LEMMA StableType ==
  ASSUME NEW p \in Prompt
  PROVE  Stable(p) \in Nat /\ Stable(p) < p.n
<1> DEFINE S == {IF p.hist > 0 THEN p.hist ELSE p.n - 1, p.n - 1}
<1>1. p.n \in Nat \ {0} /\ p.hist \in Nat
  BY DEF Prompt
<1>2. S \in SUBSET Nat /\ S # {}
  BY <1>1
<1>3. Min(S) \in S /\ \A x \in S : Min(S) <= x
  <2> HIDE DEF S
  <2> QED BY <1>2, MinOf
<1>4. Min(S) <= p.n - 1 /\ Min(S) \in Nat
  BY <1>2, <1>3
<1> QED BY <1>1, <1>4 DEF Stable

\* The start of the last message is inside the stable history.
LEMMA LastMessageType ==
  ASSUME NEW p \in Prompt
  PROVE  LastMessageStart(p) \in Nat /\ LastMessageStart(p) <= Stable(p)
<1> DEFINE M == {0} \cup {m \in p.msgs : 0 < m /\ m < Stable(p) - 8}
<1>1. Stable(p) \in Nat
  BY StableType
<1>2. p.msgs \in SUBSET Nat
  BY DEF Prompt
<1>3. M \in SUBSET Nat /\ M # {} /\ \A x \in M : x <= Stable(p)
  BY <1>1, <1>2
<1>4. Max(M) \in M
  <2> HIDE DEF M
  <2> QED BY <1>1, <1>3, MaxOf
<1>5. Max(M) \in Nat /\ Max(M) <= Stable(p)
  BY <1>3, <1>4
<1> QED BY <1>1, <1>5 DEF LastMessageStart

\* plan() gives up, or gives a boundary that build_cache and the resumed fill can use, within the capacity.
LEMMA PlanIsUsable ==
  ASSUME TypeOK, NEW p \in Prompt, NEW cap \in Nat
  PROVE  /\ Plan(p, cap) \in Nat
         /\ Plan(p, cap) # 0 =>
              /\ Plan(p, cap) % 4 = 0 /\ Plan(p, cap) <= Stable(p) /\ Plan(p, cap) < p.n
              /\ cap > 0 => Plan(p, cap) <= cap
              /\ Plan(p, cap) >= MinDelta
<1> DEFINE h == StableHandoff(p)
           b == Aligned4(h)
           c == Capped(b, cap)
<1>1. Stable(p) \in Nat /\ Stable(p) < p.n /\ p.n \in Nat
  BY StableType DEF Prompt
<1>2. h \in Nat /\ h <= Stable(p)
  BY <1>1, LastMessageType DEF StableHandoff
<1>3. b \in Nat /\ b <= h /\ b % 4 = 0
  <2> HIDE DEF h
  <2> QED BY <1>2, AlignedType
<1>4. Aligned4(cap) \in Nat /\ Aligned4(cap) <= cap /\ Aligned4(cap) % 4 = 0
  BY AlignedType
<1>5. c \in Nat /\ c <= b /\ c % 4 = 0 /\ (cap > 0 => c <= cap)
  <2> HIDE DEF b
  <2>1. CASE cap > 0 /\ b > cap
    <3>1. c = Aligned4(cap)
      BY <2>1 DEF Capped
    <3> QED BY <2>1, <3>1, <1>3, <1>4
  <2>2. CASE ~(cap > 0 /\ b > cap)
    <3>1. c = b
      BY <2>2 DEF Capped
    <3> QED BY <2>2, <3>1, <1>3
  <2> QED BY <2>1, <2>2
<1>6. Longest(p) \in Nat /\ MinDelta \in Nat
  BY LongestType, SplitAssumption
<1>7. Plan(p, cap) = 0 \/ (Plan(p, cap) = c /\ ~(c - Longest(p) < MinDelta))
  BY DEF Plan
<1> HIDE DEF h, b, c
<1> QED BY <1>1, <1>2, <1>3, <1>5, <1>6, <1>7

\* A fill resumes at a length that is stored, or at 0.
LEMMA ResumeType ==
  ASSUME NEW p \in Prompt, NEW S, NEW T \in SUBSET [text : {"x", "y"}, len : Nat, blob : Jobs \cup {None}]
  PROVE  ResumeAt(p, S, T) \in Nat
<1> DEFINE L == {0} \cup {x.len : x \in {x \in T : x.text = p.text /\ x.len \in ChunkStarts(p, S)}}
<1>1. p.n \in Nat
  BY DEF Prompt
<1>2. ASSUME NEW x \in T, x.len \in ChunkStarts(p, S) PROVE x.len \in Nat /\ x.len <= p.n
  <2>1. x.len \in Nat
    OBVIOUS
  <2>2. CASE x.len \in {k \in 0 .. p.n - 1 : k % ChunkStep = 0}
    BY <1>1, <2>1, <2>2
  <2>3. CASE x.len \in {y.b : y \in {y \in S : y.text = p.text /\ y.b < p.n}}
    BY <1>1, <2>1, <2>3
  <2> QED BY <1>2, <2>2, <2>3 DEF ChunkStarts
<1>3. L \in SUBSET Nat /\ L # {} /\ \A x \in L : x <= p.n
  BY <1>1, <1>2
<1>4. Max(L) \in L
  <2> HIDE DEF L
  <2> QED BY <1>1, <1>3, MaxOf
<1> QED BY <1>3, <1>4 DEF ResumeAt

\* The sum of what is in flight stays a natural number.
LEMMA GiveType ==
  ASSUME NEW b \in Nat, NEW c \in Nat
  PROVE  Max({0, b - c}) \in Nat
<1>1. CASE b - c >= 0
  <2>1. {0, b - c} \in SUBSET Nat /\ {0, b - c} # {} /\ \A x \in {0, b - c} : x <= b
    BY <1>1
  <2>2. Max({0, b - c}) \in {0, b - c}
    BY <2>1, MaxOf
  <2> QED BY <2>1, <2>2
<1>2. CASE b - c < 0
  <2>1. \E m \in {0, b - c} : \A x \in {0, b - c} : m >= x
    BY <1>2
  <2>2. Max({0, b - c}) \in {0, b - c} /\ \A x \in {0, b - c} : Max({0, b - c}) >= x
    BY <2>1 DEF Max
  <2> QED BY <1>2, <2>2
<1> QED BY <1>1, <1>2

\* starts have one entry for each boundary.
StartSet == [b : Nat, text : {"x", "y"}]
Distinct(S) == \A x, y \in S : x.b = y.b => x = y

\* prompt_chunks keeps at most MaxStarts entries: the least of them has less than MaxStarts above it.
LEMMA PruneKeeps ==
  ASSUME NEW S \in SUBSET StartSet, IsFiniteSet(S), Distinct(S)
  PROVE  /\ PruneStarts(S) \subseteq S /\ IsFiniteSet(PruneStarts(S))
         /\ Cardinality(PruneStarts(S)) <= MaxStarts
<1> DEFINE T == {x \in S : Cardinality({y \in S : y.b > x.b}) < MaxStarts}
<1>0. MaxStarts \in Nat \ {0}
  BY SplitAssumption
<1>1. CASE Cardinality(S) <= MaxStarts
  BY <1>1 DEF PruneStarts
<1>2. CASE ~(Cardinality(S) <= MaxStarts)
  <2>1. PruneStarts(S) = T
    BY <1>2 DEF PruneStarts
  <2>2. T \subseteq S /\ IsFiniteSet(T)
    BY FS_Subset
  <2>3. CASE T = {}
    <3>1. Cardinality(T) = 0
      BY <2>3, FS_EmptySet
    <3> HIDE DEF T
    <3> QED BY <1>0, <2>1, <2>2, <3>1
  <2>4. CASE T # {}
    <3> DEFINE N == {x.b : x \in T}
    <3>1. N \in SUBSET Nat /\ N # {}
      BY <2>2, <2>4 DEF StartSet
    <3>2. PICK n \in N : \A k \in N : n <= k
      <4> HIDE DEF N
      <4> QED BY <3>1, LeastExists
    <3>3. PICK x \in T : x.b = n
      BY <3>2
    <3> DEFINE U == {y \in S : y.b > x.b}
    <3>4. IsFiniteSet(U) /\ Cardinality(U) < MaxStarts /\ Cardinality(U) \in Nat
      BY <3>3, FS_Subset, FS_CardinalityType
    <3>5. T \ {x} \subseteq U
      <4> SUFFICES ASSUME NEW y \in T, y # x PROVE y \in U
        OBVIOUS
      <4>1. y.b \in N /\ y.b \in Nat /\ x.b \in Nat /\ y \in S /\ x \in S
        BY <2>2, <3>3 DEF StartSet
      <4>2. y.b # x.b
        BY <4>1 DEF Distinct
      <4>3. x.b <= y.b
        BY <3>2, <3>3, <4>1
      <4>4. y.b > x.b
        BY <4>1, <4>2, <4>3
      <4> QED BY <4>1, <4>4
    <3>6. Cardinality(T \ {x}) <= Cardinality(U) /\ Cardinality(T \ {x}) = Cardinality(T) - 1
      <4> HIDE DEF T, U
      <4> QED BY <2>2, <3>3, <3>4, <3>5, FS_Subset, FS_RemoveElement
    <3>7. Cardinality(T) \in Nat
      BY <2>2, FS_CardinalityType
    <3>8. Cardinality(T \ {x}) \in Int
      BY <3>6, <3>7
    <3> HIDE DEF T, U, N
    <3> QED BY <1>0, <2>1, <2>2, <3>4, <3>6, <3>7
  <2> QED BY <2>3, <2>4
<1> QED BY <1>1, <1>2
-----------------------------------------------------------------------------
(* The inductive invariant *)

\* descriptors in use: waiting for the door, or holding it
Using(j) == pc[j] \in {"door", "pull", "build"} \/ j \in pending

\* Every open descriptor has one user, every user an open one.
DoorInv ==
  /\ \A j \in pending : pc[j] \in {"queued", "cancelled"}
  /\ \A j \in Jobs : Using(j) => fd[j] \in open
  /\ \A i, j \in Jobs : Using(i) /\ Using(j) /\ fd[i] = fd[j] => i = j
  /\ \A f \in open : \E j \in Jobs : Using(j) /\ fd[j] = f
  /\ OneDoor

\* One sweep at a time, and what it has still to free is as it was when it looked.
SweepInv ==
  /\ \A j \in Jobs : todo[j] # {} => pc[j] = "sweep"
  /\ \A i, j \in Jobs : todo[i] # {} /\ todo[j] # {} => i = j
  /\ \A j \in Jobs : \A e \in todo[j] : e.job \in pending /\ e.fd = fd[e.job]

\* The shared memory holds the blobs of the handoff that is to be built, and what was built was its own.
BlobInv ==
  /\ \A j \in Jobs : pc[j] = "build" \/ j \in pending => shm = j
  /\ \A x \in store : x.blob \in Jobs /\ pc[x.blob] = "filled" /\ Asks[x.blob].text = x.text /\ bound[x.blob] = x.len

\* A request has no boundary before it has planned, and a usable one after.
BoundInv ==
  /\ \A j \in Jobs : pc[j] \in {"new", "sweep"} => bound[j] = 0
  /\ BoundaryIsUsable

StartInv == IsFiniteSet(starts) /\ Distinct(starts)

SplitInv == TypeOK /\ DoorInv /\ SweepInv /\ BlobInv /\ BoundInv /\ StartInv

\* The invariant holds at the start.
LEMMA InitSplit == Init => SplitInv
<1> SUFFICES ASSUME Init PROVE SplitInv
  OBVIOUS
<1> USE DEF Init
<1>0. IsFiniteSet(Jobs) /\ Cardinality(Jobs) \in Nat /\ IsFiniteSet({}) /\ Cardinality({}) = 0 /\ MaxStarts \in Nat
  BY SplitAssumption, FS_EmptySet, FS_CardinalityType
<1>1. TypeOK
  <2>1. pc \in [Jobs -> {"new", "sweep", "budget", "prefill", "door", "pull", "queued", "build", "filled", "cancelled"}]
    OBVIOUS
  <2>2. fd \in [Jobs -> 0 .. Cardinality(Jobs)]
    BY <1>0
  <2>3. todo \in [Jobs -> SUBSET [job : Jobs, fd : 0 .. Cardinality(Jobs)]]
    OBVIOUS
  <2>4. mx \in [Jobs -> MaxHandoffs \cup {0}] /\ bound \in [Jobs -> Nat] /\ resume \in [Jobs -> Nat \cup {-1}]
    OBVIOUS
  <2>5. engine \in BOOLEAN /\ marker \in BOOLEAN
    OBVIOUS
  <2>6. pending \subseteq Jobs /\ old \subseteq pending /\ budget \in Nat /\ open \subseteq 1 .. Cardinality(Jobs)
        /\ door \in open \cup {0} /\ shm \in Jobs \cup {None}
    OBVIOUS
  <2>7. store \subseteq [text : {"x", "y"}, len : Nat, blob : Jobs \cup {None}]
    OBVIOUS
  <2>8. starts \subseteq [b : Nat, text : {"x", "y"}] /\ Cardinality(starts) <= MaxStarts
    BY <1>0
  <2> QED BY <2>1, <2>2, <2>3, <2>4, <2>5, <2>6, <2>7, <2>8 DEF TypeOK
<1>2. DoorInv
  BY DEF DoorInv, Using, OneDoor, Holders
<1>3. SweepInv
  BY DEF SweepInv
<1>4. BlobInv
  BY DEF BlobInv
<1>5. BoundInv
  BY DEF BoundInv, BoundaryIsUsable
<1>6. StartInv
  BY <1>0 DEF StartInv, Distinct
<1> QED BY <1>1, <1>2, <1>3, <1>4, <1>5, <1>6 DEF SplitInv

\* The door is locked by the only handoff that needs it.
LEMMA SoleHolder ==
  ASSUME TypeOK, DoorInv, NEW j \in Jobs, j \in Holders
  PROVE  door = fd[j] /\ door # 0 /\ Holders = {j}
<1>1. door # 0
  BY DEF DoorInv, OneDoor
<1>2. PICK k \in Jobs : Holders = {k} /\ fd[k] = door
  BY <1>1 DEF DoorInv, OneDoor
<1>3. j = k
  BY <1>2
<1> QED BY <1>1, <1>2, <1>3

\* os.open finds a descriptor: each of the others has at most one.
LEMMA FdIsFree ==
  ASSUME TypeOK, DoorInv, NEW j \in Jobs, ~Using(j)
  PROVE  LowestFd \in 1 .. Cardinality(Jobs) /\ LowestFd \notin open
<1> DEFINE N == 1 .. Cardinality(Jobs)
           Others == Jobs \ {j}
           user == [f \in N |-> CHOOSE i \in Others : Using(i) /\ fd[i] = f]
<1>0. IsFiniteSet(Jobs) /\ Cardinality(Jobs) \in Nat
  BY SplitAssumption, FS_CardinalityType
<1>1. IsFiniteSet(N) /\ Cardinality(N) = Cardinality(Jobs)
  BY <1>0, FS_Interval
<1>2. IsFiniteSet(Others) /\ Cardinality(Others) = Cardinality(Jobs) - 1
  BY <1>0, FS_RemoveElement
<1>3. N \ open # {}
  <2> SUFFICES ASSUME N \subseteq open PROVE FALSE
    OBVIOUS
  <2>1. \A f \in N : user[f] \in Others /\ Using(user[f]) /\ fd[user[f]] = f
    <3> SUFFICES ASSUME NEW f \in N PROVE user[f] \in Others /\ Using(user[f]) /\ fd[user[f]] = f
      OBVIOUS
    <3>1. \E i \in Others : Using(i) /\ fd[i] = f
      BY DEF DoorInv
    <3> QED BY <3>1
  <2>2. user \in [N -> Others]
    BY <2>1
  <2>3. PICK f, g \in N : f # g /\ user[f] = user[g]
    <3> HIDE DEF N, Others, user
    <3> QED BY <1>0, <1>1, <1>2, <2>2, FS_PigeonHole
  <2> QED BY <2>1, <2>3
<1>4. N \ open \in SUBSET Nat
  BY <1>0
<1>5. Min(N \ open) \in N \ open
  <2> HIDE DEF N
  <2> QED BY <1>3, <1>4, MinOf
<1> QED BY <1>5 DEF LowestFd

-----------------------------------------------------------------------------
(* Every action preserves the invariant *)

\* submit: the sweep takes its snapshot.
LEMMA SubmitStep ==
  ASSUME SplitInv, Sweeping = {}, NEW j \in Jobs, Submit(j)
  PROVE  SplitInv'
<1> USE DEF SplitInv
<1>0. \A k \in Jobs : todo[k] = {}
  BY DEF Sweeping
<1>1. TypeOK'
  <2>1. Expired \in SUBSET [job : Jobs, fd : 0 .. Cardinality(Jobs)]
    BY DEF Expired, TypeOK
  <2>2. mx' \in [Jobs -> MaxHandoffs \cup {0}]
    BY DEF Submit, ReadConfig, TypeOK
  <2>3. todo' \in [Jobs -> SUBSET [job : Jobs, fd : 0 .. Cardinality(Jobs)]]
    BY <2>1 DEF Submit, TypeOK
  <2> QED BY <2>2, <2>3 DEF TypeOK, Submit, lockVars, pairVars, storeVars
<1>2. DoorInv'
  BY DEF TypeOK, DoorInv, Using, OneDoor, Holders, Submit, lockVars, pairVars, storeVars, ReadConfig
<1>3. SweepInv'
  <2>1. todo' = [todo EXCEPT ![j] = Expired] /\ pc' = [pc EXCEPT ![j] = "sweep"] /\ UNCHANGED <<pending, fd>>
    BY DEF Submit, lockVars
  <2>2. \A e \in Expired : e.job \in pending /\ e.fd = fd[e.job]
    BY DEF Expired
  <2>3. \A k \in Jobs : k # j => todo'[k] = {}
    BY <1>0, <2>1 DEF TypeOK
  <2>4. todo'[j] = Expired /\ pc'[j] = "sweep"
    BY <2>1 DEF TypeOK
  <2> QED BY <2>1, <2>2, <2>3, <2>4 DEF SweepInv
<1>4. BlobInv'
  BY DEF TypeOK, BlobInv, Submit, lockVars, pairVars, storeVars, ReadConfig
<1>5. BoundInv'
  BY DEF TypeOK, BoundInv, BoundaryIsUsable, Submit, lockVars, pairVars, storeVars, ReadConfig
<1>6. StartInv'
  BY DEF StartInv, Submit, lockVars, pairVars, storeVars, ReadConfig
<1> QED BY <1>1, <1>2, <1>3, <1>4, <1>5, <1>6

\* plan(): no split, or a usable boundary.
LEMMA DecideStep ==
  ASSUME SplitInv, Sweeping = {}, NEW j \in Jobs, Decide(j)
  PROVE  SplitInv'
<1> USE DEF SplitInv
<1>0. \A k \in Jobs : todo[k] = {}
  BY DEF Sweeping
<1>p. PICK b \in {0, Plan(Asks[j], mx[j])} :
        bound' = [bound EXCEPT ![j] = b] /\ pc' = [pc EXCEPT ![j] = IF b = 0 THEN "queued" ELSE "budget"]
  BY DEF Decide
<1>q. /\ b \in Nat
      /\ b # 0 => /\ b % 4 = 0 /\ b <= Stable(Asks[j]) /\ b < Asks[j].n
                  /\ mx[j] > 0 => b <= mx[j]
                  /\ b >= MinDelta
  <2>1. Asks[j] \in Prompt
    BY SplitAssumption
  <2>2. mx[j] \in Nat
    <3>1. mx[j] \in MaxHandoffs \cup {0}
      BY DEF TypeOK
    <3>2. MaxHandoffs \subseteq Nat
      BY SplitAssumption
    <3>3. \A x \in MaxHandoffs \cup {0} : x \in Nat
      BY ONLY <3>2, SMT
    <3> QED BY ONLY <3>1, <3>3, Zenon
  <2> QED BY <2>1, <2>2, PlanIsUsable
<1>1. TypeOK'
  <2>1. bound' \in [Jobs -> Nat] /\ pc' \in [Jobs -> {"new", "sweep", "budget", "prefill", "door", "pull", "queued", "build", "filled", "cancelled"}]
    BY <1>p, <1>q DEF TypeOK
  <2> QED BY <2>1 DEF TypeOK, Decide, lockVars, pairVars, storeVars
<1>2. DoorInv'
  BY DEF TypeOK, DoorInv, Using, OneDoor, Holders, Decide, lockVars, pairVars, storeVars
<1>3. SweepInv'
  BY <1>0 DEF TypeOK, SweepInv, Decide, lockVars, pairVars, storeVars
<1>4. BlobInv'
  BY DEF TypeOK, BlobInv, Decide, lockVars, pairVars, storeVars
<1>5. BoundInv'
  <2>1. UNCHANGED mx
    BY DEF Decide
  <2>2. bound'[j] = b /\ pc'[j] \notin {"new", "sweep"} /\ \A k \in Jobs : k # j => bound'[k] = bound[k] /\ pc'[k] = pc[k]
    BY <1>p DEF TypeOK
  <2> QED BY <1>q, <2>1, <2>2 DEF BoundInv, BoundaryIsUsable
<1>6. StartInv'
  BY DEF StartInv, Decide, lockVars, pairVars, storeVars
<1> QED BY <1>1, <1>2, <1>3, <1>4, <1>5, <1>6

\* The tokens are reserved.
LEMMA BudgetTakeStep ==
  ASSUME SplitInv, Sweeping = {}, NEW j \in Jobs, BudgetTake(j)
  PROVE  SplitInv'
<1> USE DEF SplitInv
<1>0. \A k \in Jobs : todo[k] = {}
  BY DEF Sweeping
<1>1. TypeOK'
  BY DEF TypeOK, BudgetTake, planVars, lockVars, storeVars
<1>2. DoorInv'
  BY DEF TypeOK, DoorInv, Using, OneDoor, Holders, BudgetTake, planVars, lockVars, storeVars
<1>3. SweepInv'
  BY <1>0 DEF TypeOK, SweepInv, BudgetTake, planVars, lockVars, storeVars
<1>4. BlobInv'
  BY DEF TypeOK, BlobInv, BudgetTake, planVars, lockVars, storeVars
<1>5. BoundInv'
  BY DEF TypeOK, BoundInv, BoundaryIsUsable, BudgetTake, planVars, lockVars, storeVars
<1>6. StartInv'
  BY DEF StartInv, BudgetTake, planVars, lockVars, storeVars
<1> QED BY <1>1, <1>2, <1>3, <1>4, <1>5, <1>6

\* The budget stays full.
LEMMA BudgetTimeoutStep ==
  ASSUME SplitInv, Sweeping = {}, NEW j \in Jobs, BudgetTimeout(j)
  PROVE  SplitInv'
<1> USE DEF SplitInv
<1>0. \A k \in Jobs : todo[k] = {}
  BY DEF Sweeping
<1>1. TypeOK'
  BY DEF TypeOK, BudgetTimeout, planVars, lockVars, pairVars, storeVars
<1>2. DoorInv'
  BY DEF TypeOK, DoorInv, Using, OneDoor, Holders, BudgetTimeout, planVars, lockVars, pairVars, storeVars
<1>3. SweepInv'
  BY <1>0 DEF TypeOK, SweepInv, BudgetTimeout, planVars, lockVars, pairVars, storeVars
<1>4. BlobInv'
  BY DEF TypeOK, BlobInv, BudgetTimeout, planVars, lockVars, pairVars, storeVars
<1>5. BoundInv'
  BY DEF TypeOK, BoundInv, BoundaryIsUsable, BudgetTimeout, planVars, lockVars, pairVars, storeVars
<1>6. StartInv'
  BY DEF StartInv, BudgetTimeout, planVars, lockVars, pairVars, storeVars
<1> QED BY <1>1, <1>2, <1>3, <1>4, <1>5, <1>6

\* The prefill is over, and a descriptor is opened.
LEMMA PrefilledStep ==
  ASSUME SplitInv, Sweeping = {}, NEW j \in Jobs, Prefilled(j)
  PROVE  SplitInv'
<1> USE DEF SplitInv
<1>0. \A k \in Jobs : todo[k] = {}
  BY DEF Sweeping
<1>f. LowestFd \in 1 .. Cardinality(Jobs) /\ LowestFd \notin open
  <2>1. ~Using(j)
    BY DEF Prefilled, Using, DoorInv
  <2> QED BY <2>1, FdIsFree
<1>g. fd' = [fd EXCEPT ![j] = LowestFd] /\ open' = open \cup {LowestFd} /\ pc' = [pc EXCEPT ![j] = "door"]
      /\ pc[j] = "prefill" /\ UNCHANGED <<pending, old, door>>
  BY DEF Prefilled
<1>1. TypeOK'
  <2>1. fd' \in [Jobs -> 0 .. Cardinality(Jobs)] /\ open' \subseteq 1 .. Cardinality(Jobs) /\ door' \in open' \cup {0}
    BY <1>f, <1>g DEF TypeOK
  <2> QED BY <2>1 DEF TypeOK, Prefilled, planVars, pairVars, storeVars
<1>2. DoorInv'
  <2>1. \A k \in Jobs : k # j => fd'[k] = fd[k] /\ pc'[k] = pc[k] /\ (Using(k)' <=> Using(k))
    BY <1>g DEF TypeOK, Using
  <2>2. fd'[j] = LowestFd /\ pc'[j] = "door" /\ Using(j)' /\ j \notin pending
    BY <1>g DEF TypeOK, Using, DoorInv
  <2>3. OneDoor'
    BY <1>g, <2>1, <2>2 DEF TypeOK, DoorInv, OneDoor, Holders
  <2>4. \A k \in pending' : pc'[k] \in {"queued", "cancelled"}
    BY <1>g DEF TypeOK, DoorInv
  <2>5. \A k \in Jobs : Using(k)' => fd'[k] \in open'
    BY <1>g, <2>1, <2>2 DEF DoorInv
  <2>6. \A i, k \in Jobs : Using(i)' /\ Using(k)' /\ fd'[i] = fd'[k] => i = k
    BY <1>f, <2>1, <2>2 DEF DoorInv
  <2>7. \A f \in open' : \E k \in Jobs : Using(k)' /\ fd'[k] = f
    <3>1. ~Using(j)
      BY <1>g, <2>2 DEF Using
    <3> QED BY <3>1, <1>g, <2>1, <2>2 DEF DoorInv
  <2> QED BY <2>3, <2>4, <2>5, <2>6, <2>7 DEF DoorInv
<1>3. SweepInv'
  BY <1>0 DEF TypeOK, SweepInv, Prefilled, planVars, pairVars, storeVars
<1>4. BlobInv'
  BY DEF TypeOK, BlobInv, Prefilled, planVars, pairVars, storeVars
<1>5. BoundInv'
  BY DEF TypeOK, BoundInv, BoundaryIsUsable, Prefilled, planVars, pairVars, storeVars
<1>6. StartInv'
  BY DEF StartInv, Prefilled, planVars, pairVars, storeVars
<1> QED BY <1>1, <1>2, <1>3, <1>4, <1>5, <1>6

\* The prefill fails.
LEMMA PrefillFailsStep ==
  ASSUME SplitInv, Sweeping = {}, NEW j \in Jobs, PrefillFails(j)
  PROVE  SplitInv'
<1> USE DEF SplitInv
<1>0. \A k \in Jobs : todo[k] = {}
  BY DEF Sweeping
<1>1. TypeOK'
  <2>1. budget' \in Nat
    BY GiveType DEF PrefillFails, Give, TypeOK
  <2> QED BY <2>1 DEF TypeOK, PrefillFails, Give, planVars, lockVars, storeVars
<1>2. DoorInv'
  BY DEF TypeOK, DoorInv, Using, OneDoor, Holders, PrefillFails, planVars, lockVars, storeVars, Give
<1>3. SweepInv'
  BY <1>0 DEF TypeOK, SweepInv, PrefillFails, planVars, lockVars, storeVars, Give
<1>4. BlobInv'
  BY DEF TypeOK, BlobInv, PrefillFails, planVars, lockVars, storeVars, Give
<1>5. BoundInv'
  BY DEF TypeOK, BoundInv, BoundaryIsUsable, PrefillFails, planVars, lockVars, storeVars, Give
<1>6. StartInv'
  BY DEF StartInv, PrefillFails, planVars, lockVars, storeVars, Give
<1> QED BY <1>1, <1>2, <1>3, <1>4, <1>5, <1>6

\* flock succeeds.
LEMMA DoorTakeStep ==
  ASSUME SplitInv, Sweeping = {}, NEW j \in Jobs, DoorTake(j)
  PROVE  SplitInv'
<1> USE DEF SplitInv
<1>0. \A k \in Jobs : todo[k] = {}
  BY DEF Sweeping
<1>1. TypeOK'
  BY DEF TypeOK, DoorTake, planVars, pairVars, storeVars
<1>2. DoorInv'
  BY DEF TypeOK, DoorInv, Using, OneDoor, Holders, DoorTake, planVars, pairVars, storeVars
<1>3. SweepInv'
  BY <1>0 DEF TypeOK, SweepInv, DoorTake, planVars, pairVars, storeVars
<1>4. BlobInv'
  BY DEF TypeOK, BlobInv, DoorTake, planVars, pairVars, storeVars
<1>5. BoundInv'
  BY DEF TypeOK, BoundInv, BoundaryIsUsable, DoorTake, planVars, pairVars, storeVars
<1>6. StartInv'
  BY DEF StartInv, DoorTake, planVars, pairVars, storeVars
<1> QED BY <1>1, <1>2, <1>3, <1>4, <1>5, <1>6

\* The door is not had in time: a descriptor without the lock is closed.
LEMMA DoorTimeoutStep ==
  ASSUME SplitInv, Sweeping = {}, NEW j \in Jobs, DoorTimeout(j)
  PROVE  SplitInv'
<1> USE DEF SplitInv
<1>0. \A k \in Jobs : todo[k] = {}
  BY DEF Sweeping
<1>u. Using(j) /\ pc[j] = "door" /\ fd[j] \in open /\ j \notin pending
  BY DEF DoorTimeout, Using, DoorInv
<1>v. open' = open \ {fd[j]} /\ door' = door /\ fd' = [fd EXCEPT ![j] = 0] /\ pc' = [pc EXCEPT ![j] = "queued"]
      /\ UNCHANGED <<pending, old>> /\ door # fd[j]
  <2>1. door # fd[j]
    <3> SUFFICES ASSUME door = fd[j] PROVE FALSE
      OBVIOUS
    <3>1. door # 0
      BY <1>u DEF TypeOK
    <3>2. PICK k \in Jobs : Holders = {k} /\ fd[k] = door
      BY <3>1 DEF DoorInv, OneDoor
    <3>3. Using(k) /\ k # j
      BY <1>u, <3>2 DEF Holders, Using
    <3> QED BY <1>u, <3>2, <3>3 DEF DoorInv
  <2> QED BY <1>u, <2>1 DEF DoorTimeout, CloseIfOpen, Unlock
<1>1. TypeOK'
  <2>1. budget' \in Nat
    BY GiveType DEF DoorTimeout, Give, TypeOK
  <2>2. open' \subseteq 1 .. Cardinality(Jobs) /\ door' \in open' \cup {0} /\ fd' \in [Jobs -> 0 .. Cardinality(Jobs)]
    <3>1. Cardinality(Jobs) \in Nat
      BY SplitAssumption, FS_CardinalityType
    <3>2. open' \subseteq 1 .. Cardinality(Jobs)
      BY <1>v DEF TypeOK
    <3>3. door' \in open' \cup {0}
      BY <1>v DEF TypeOK
    <3>4. fd' \in [Jobs -> 0 .. Cardinality(Jobs)]
      <4>1. 0 \in 0 .. Cardinality(Jobs)
        BY <3>1
      <4> QED BY <1>v, <4>1 DEF TypeOK
    <3> QED BY <3>2, <3>3, <3>4
  <2> QED BY <2>1, <2>2 DEF TypeOK, DoorTimeout, Give, planVars, storeVars
<1>2. DoorInv'
  <2>1. \A k \in Jobs : k # j => fd'[k] = fd[k] /\ pc'[k] = pc[k] /\ (Using(k)' <=> Using(k))
    BY <1>v DEF TypeOK, Using
  <2>2. ~Using(j)' /\ pc'[j] = "queued"
    BY <1>u, <1>v DEF TypeOK, Using
  <2>3. Holders' = Holders /\ j \notin Holders
    BY <1>u, <1>v DEF TypeOK, Holders
  <2>4. OneDoor'
    BY <1>v, <2>1, <2>3 DEF DoorInv, OneDoor
  <2>5. \A k \in pending' : pc'[k] \in {"queued", "cancelled"}
    BY <1>v DEF TypeOK, DoorInv
  <2>6. \A k \in Jobs : Using(k)' => fd'[k] \in open'
    BY <1>u, <1>v, <2>1, <2>2 DEF DoorInv
  <2>7. \A i, k \in Jobs : Using(i)' /\ Using(k)' /\ fd'[i] = fd'[k] => i = k
    BY <2>1, <2>2 DEF DoorInv
  <2>8. \A f \in open' : \E k \in Jobs : Using(k)' /\ fd'[k] = f
    BY <1>v, <2>1 DEF DoorInv
  <2> QED BY <2>4, <2>5, <2>6, <2>7, <2>8 DEF DoorInv
<1>3. SweepInv'
  BY <1>0 DEF TypeOK, SweepInv, DoorTimeout, planVars, storeVars, CloseIfOpen, Unlock, Give
<1>4. BlobInv'
  BY DEF TypeOK, BlobInv, DoorTimeout, planVars, storeVars, CloseIfOpen, Unlock, Give
<1>5. BoundInv'
  BY DEF TypeOK, BoundInv, BoundaryIsUsable, DoorTimeout, planVars, storeVars, CloseIfOpen, Unlock, Give
<1>6. StartInv'
  BY DEF StartInv, DoorTimeout, planVars, storeVars, CloseIfOpen, Unlock, Give
<1> QED BY <1>1, <1>2, <1>3, <1>4, <1>5, <1>6

\* The blobs are in shared memory: nobody else's were needed there.
LEMMA PulledStep ==
  ASSUME SplitInv, Sweeping = {}, NEW j \in Jobs, Pulled(j)
  PROVE  SplitInv'
<1> USE DEF SplitInv
<1>0. \A k \in Jobs : todo[k] = {}
  BY DEF Sweeping
<1>h. pc[j] = "pull" /\ Holders = {j}
  BY SoleHolder DEF Pulled, Holders
<1>1. TypeOK'
  <2>1. budget' \in Nat
    BY GiveType DEF Pulled, Give, TypeOK
  <2> QED BY <2>1 DEF TypeOK, Pulled, Give, planVars, storeVars
<1>2. DoorInv'
  BY DEF TypeOK, DoorInv, Using, OneDoor, Holders, Pulled, planVars, storeVars, Give
<1>3. SweepInv'
  BY <1>0 DEF TypeOK, SweepInv, Pulled, planVars, storeVars, Give
<1>4. BlobInv'
  <2>1. shm' = j /\ pc' = [pc EXCEPT ![j] = "queued"] /\ pending' = pending \cup {j} /\ UNCHANGED <<store, bound>>
    BY DEF Pulled, planVars, storeVars
  <2>2. \A k \in Jobs : pc'[k] = "build" \/ k \in pending' => k = j
    BY <1>h, <2>1 DEF Holders, TypeOK
  <2> QED BY <1>h, <2>1, <2>2 DEF BlobInv, TypeOK
<1>5. BoundInv'
  BY DEF TypeOK, BoundInv, BoundaryIsUsable, Pulled, planVars, storeVars, Give
<1>6. StartInv'
  BY DEF StartInv, Pulled, planVars, storeVars, Give
<1> QED BY <1>1, <1>2, <1>3, <1>4, <1>5, <1>6

\* The pull fails: the door is free again.
LEMMA PullFailsStep ==
  ASSUME SplitInv, Sweeping = {}, NEW j \in Jobs, PullFails(j)
  PROVE  SplitInv'
<1> USE DEF SplitInv
<1>0. \A k \in Jobs : todo[k] = {}
  BY DEF Sweeping
<1>h. j \in Holders /\ pc[j] = "pull" /\ j \notin pending
  BY DEF PullFails, Holders, DoorInv
<1>i. Holders = {j} /\ fd[j] \in open /\ door = fd[j]
  BY <1>h, SoleHolder DEF DoorInv, Using
<1>v. open' = open \ {fd[j]} /\ door' = 0 /\ fd' = [fd EXCEPT ![j] = 0] /\ pc' = [pc EXCEPT ![j] = "queued"]
      /\ UNCHANGED <<pending, old>>
  BY <1>i DEF PullFails, CloseIfOpen, Unlock
<1>1. TypeOK'
  <2>1. budget' \in Nat /\ marker' \in BOOLEAN
    BY <1>i, GiveType DEF PullFails, Give, TypeOK
  <2>2. open' \subseteq 1 .. Cardinality(Jobs) /\ door' \in open' \cup {0} /\ fd' \in [Jobs -> 0 .. Cardinality(Jobs)]
    <3>1. Cardinality(Jobs) \in Nat
      BY SplitAssumption, FS_CardinalityType
    <3>2. open' \subseteq 1 .. Cardinality(Jobs)
      BY <1>v DEF TypeOK
    <3>3. door' \in open' \cup {0}
      BY <1>v DEF TypeOK
    <3>4. fd' \in [Jobs -> 0 .. Cardinality(Jobs)]
      <4>1. 0 \in 0 .. Cardinality(Jobs)
        BY <3>1
      <4> QED BY <1>v, <4>1 DEF TypeOK
    <3> QED BY <3>2, <3>3, <3>4
  <2>3. shm' \in Jobs \cup {None}
    BY DEF PullFails
  <2> QED BY <1>v, <2>1, <2>2, <2>3 DEF TypeOK, PullFails, planVars, pairVars, storeVars
<1>2. DoorInv'
  <2>1. \A k \in Jobs : k # j => fd'[k] = fd[k] /\ pc'[k] = pc[k] /\ (Using(k)' <=> Using(k))
    BY <1>v DEF TypeOK, Using
  <2>2. ~Using(j)' /\ Using(j)
    BY <1>h, <1>v DEF TypeOK, Using
  <2>3. Holders' = {}
    BY <1>h, <1>i, <1>v DEF TypeOK, Holders
  <2>4. \A k \in pending' : pc'[k] \in {"queued", "cancelled"}
    BY <1>h, <1>v DEF TypeOK, DoorInv
  <2>5. \A k \in Jobs : Using(k)' => fd'[k] \in open'
    BY <1>v, <2>1, <2>2 DEF DoorInv
  <2>6. \A i, k \in Jobs : Using(i)' /\ Using(k)' /\ fd'[i] = fd'[k] => i = k
    BY <2>1, <2>2 DEF DoorInv
  <2>7. \A f \in open' : \E k \in Jobs : Using(k)' /\ fd'[k] = f
    BY <1>v, <2>1 DEF DoorInv
  <2> QED BY <1>v, <2>3, <2>4, <2>5, <2>6, <2>7 DEF DoorInv, OneDoor
<1>3. SweepInv'
  BY <1>0 DEF TypeOK, SweepInv, PullFails, planVars, pairVars, storeVars, CloseIfOpen, Unlock, Give
<1>4. BlobInv'
  <2>1. \A k \in Jobs : ~(pc'[k] = "build" \/ k \in pending')
    BY <1>h, <1>i, <1>v DEF Holders, TypeOK
  <2> QED BY <1>h, <1>v, <2>1 DEF BlobInv, TypeOK, PullFails, planVars, storeVars
<1>5. BoundInv'
  BY DEF TypeOK, BoundInv, BoundaryIsUsable, PullFails, planVars, pairVars, storeVars, CloseIfOpen, Unlock, Give
<1>6. StartInv'
  BY DEF StartInv, PullFails, planVars, pairVars, storeVars, CloseIfOpen, Unlock, Give
<1> QED BY <1>1, <1>2, <1>3, <1>4, <1>5, <1>6

\* The scheduler begins a fill.
LEMMA StartFillStep ==
  ASSUME SplitInv, Sweeping = {}, NEW j \in Jobs, StartFill(j)
  PROVE  SplitInv'
<1> USE DEF SplitInv
<1>0. \A k \in Jobs : todo[k] = {}
  BY DEF Sweeping
<1>1. TypeOK'
  <2>1. resume' \in [Jobs -> Nat \cup {-1}]
    <3>1. Asks[j] \in Prompt
      BY SplitAssumption
    <3>2. ResumeAt(Asks[j], starts, store) \in Nat
      BY <3>1, ResumeType DEF TypeOK
    <3> QED BY <3>2 DEF StartFill, TypeOK
  <2>2. pending' \subseteq Jobs /\ old' \subseteq pending'
    BY DEF StartFill, TypeOK
  <2>3. pc' \in [Jobs -> {"new", "sweep", "budget", "prefill", "door", "pull", "queued", "build", "filled", "cancelled"}]
    BY DEF StartFill, TypeOK
  <2> QED BY <2>1, <2>2, <2>3 DEF TypeOK, StartFill, planVars, pairVars
<1>2. DoorInv'
  BY DEF TypeOK, DoorInv, Using, OneDoor, Holders, StartFill, planVars, pairVars
<1>3. SweepInv'
  BY <1>0 DEF TypeOK, SweepInv, StartFill, planVars, pairVars
<1>4. BlobInv'
  BY DEF TypeOK, BlobInv, StartFill, planVars, pairVars
<1>5. BoundInv'
  BY DEF TypeOK, BoundInv, BoundaryIsUsable, StartFill, planVars, pairVars
<1>6. StartInv'
  BY DEF StartInv, StartFill, planVars, pairVars
<1> QED BY <1>1, <1>2, <1>3, <1>4, <1>5, <1>6

\* The blobs are built: they are the request's own.
LEMMA BuildStep ==
  ASSUME SplitInv, Sweeping = {}, NEW j \in Jobs, Build(j)
  PROVE  SplitInv'
<1> USE DEF SplitInv
<1>0. \A k \in Jobs : todo[k] = {}
  BY DEF Sweeping
<1>h. j \in Holders /\ pc[j] = "build" /\ j \notin pending
  BY DEF Build, Holders, DoorInv
<1>i. Holders = {j} /\ fd[j] \in open /\ door = fd[j]
  BY <1>h, SoleHolder DEF DoorInv, Using
<1>v. open' = open \ {fd[j]} /\ door' = 0 /\ fd' = [fd EXCEPT ![j] = 0] /\ pc' = [pc EXCEPT ![j] = "filled"]
      /\ UNCHANGED <<pending, old>>
  BY <1>i DEF Build, Unlock
<1> DEFINE here == [b |-> bound[j], text |-> Asks[j].text]
           all == PruneStarts({x \in starts : x.b # bound[j]} \cup {here})
           new == [text |-> Asks[j].text, len |-> bound[j], blob |-> shm]
<1>s. store' = store \cup {new} /\ starts' = all /\ resume' = [resume EXCEPT ![j] = ResumeAt(Asks[j], all, store')]
      /\ UNCHANGED <<bound, shm>>
  BY <1>i DEF Build, planVars
<1>b. shm = j /\ Asks[j].text \in {"x", "y"} /\ bound[j] \in Nat
  <2>1. Asks[j] \in Prompt
    BY SplitAssumption
  <2> QED BY <1>h, <2>1 DEF BlobInv, TypeOK, Prompt
<1>k. all \subseteq StartSet /\ IsFiniteSet(all) /\ Cardinality(all) <= MaxStarts /\ Distinct(all)
  <2> DEFINE rest == {x \in starts : x.b # bound[j]}
             S == rest \cup {here}
  <2>1. rest \subseteq starts /\ starts \subseteq StartSet /\ IsFiniteSet(rest)
    BY FS_Subset DEF StartInv, TypeOK, StartSet
  <2>2. here \in StartSet
    BY <1>b DEF StartSet
  <2>3. S \in SUBSET StartSet /\ IsFiniteSet(S)
    <3> HIDE DEF rest, here
    <3> QED BY <2>1, <2>2, FS_AddElement
  <2>4. Distinct(S)
    <3>1. \A x, y \in rest : x.b = y.b => x = y
      BY <2>1 DEF StartInv, Distinct
    <3>2. \A x \in rest : x.b # here.b
      OBVIOUS
    <3> HIDE DEF rest, here
    <3> QED BY <3>1, <3>2 DEF Distinct
  <2>5. PruneStarts(S) \subseteq S /\ IsFiniteSet(PruneStarts(S)) /\ Cardinality(PruneStarts(S)) <= MaxStarts
    <3> HIDE DEF S
    <3> QED BY <2>3, <2>4, PruneKeeps
  <2>6. all = PruneStarts(S)
    OBVIOUS
  <2> HIDE DEF S, all
  <2> QED BY <2>3, <2>4, <2>5, <2>6 DEF Distinct
<1>1. TypeOK'
  <2>2. open' \subseteq 1 .. Cardinality(Jobs) /\ door' \in open' \cup {0} /\ fd' \in [Jobs -> 0 .. Cardinality(Jobs)]
    <3>1. Cardinality(Jobs) \in Nat
      BY SplitAssumption, FS_CardinalityType
    <3>2. open' \subseteq 1 .. Cardinality(Jobs)
      BY <1>v DEF TypeOK
    <3>3. door' \in open' \cup {0}
      BY <1>v DEF TypeOK
    <3>4. fd' \in [Jobs -> 0 .. Cardinality(Jobs)]
      <4>1. 0 \in 0 .. Cardinality(Jobs)
        BY <3>1
      <4> QED BY <1>v, <4>1 DEF TypeOK
    <3> QED BY <3>2, <3>3, <3>4
  <2>3. store' \subseteq [text : {"x", "y"}, len : Nat, blob : Jobs \cup {None}]
    BY <1>s, <1>b DEF TypeOK
  <2>4. resume' \in [Jobs -> Nat \cup {-1}]
    <3>1. Asks[j] \in Prompt
      BY SplitAssumption
    <3>2. ResumeAt(Asks[j], all, store') \in Nat
      <4> HIDE DEF all
      <4> QED BY <2>3, <3>1, ResumeType
    <3> HIDE DEF all
    <3> QED BY <1>s, <3>2 DEF TypeOK
  <2>5. starts' \subseteq [b : Nat, text : {"x", "y"}] /\ Cardinality(starts') <= MaxStarts
    <3> HIDE DEF all
    <3> QED BY <1>s, <1>k DEF StartSet
  <2>6. pc' \in [Jobs -> {"new", "sweep", "budget", "prefill", "door", "pull", "queued", "build", "filled", "cancelled"}]
    BY <1>v DEF TypeOK
  <2> HIDE DEF all, new, here
  <2> QED BY <1>v, <2>2, <2>3, <2>4, <2>5, <2>6 DEF TypeOK, Build, planVars, pairVars
<1>2. DoorInv'
  <2>1. \A k \in Jobs : k # j => fd'[k] = fd[k] /\ pc'[k] = pc[k] /\ (Using(k)' <=> Using(k))
    BY <1>v DEF TypeOK, Using
  <2>2. ~Using(j)' /\ Using(j)
    BY <1>h, <1>v DEF TypeOK, Using
  <2>3. Holders' = {}
    BY <1>h, <1>i, <1>v DEF TypeOK, Holders
  <2>4. \A k \in pending' : pc'[k] \in {"queued", "cancelled"}
    BY <1>h, <1>v DEF TypeOK, DoorInv
  <2>5. \A k \in Jobs : Using(k)' => fd'[k] \in open'
    BY <1>v, <2>1, <2>2 DEF DoorInv
  <2>6. \A i, k \in Jobs : Using(i)' /\ Using(k)' /\ fd'[i] = fd'[k] => i = k
    BY <2>1, <2>2 DEF DoorInv
  <2>7. \A f \in open' : \E k \in Jobs : Using(k)' /\ fd'[k] = f
    BY <1>v, <2>1 DEF DoorInv
  <2> QED BY <1>v, <2>3, <2>4, <2>5, <2>6, <2>7 DEF DoorInv, OneDoor
<1>3. SweepInv'
  BY <1>0, <1>v DEF SweepInv, TypeOK, Build
<1>4. BlobInv'
  <2>1. \A k \in Jobs : pc'[k] = "build" \/ k \in pending' => pc[k] = "build" \/ k \in pending
    BY <1>v DEF TypeOK
  <2>2. \A x \in store : x.blob \in Jobs /\ pc'[x.blob] = "filled"
    BY <1>v DEF TypeOK, BlobInv
  <2>3. pc'[j] = "filled"
    BY <1>v DEF TypeOK
  <2>4. \A x \in store' : x.blob \in Jobs /\ pc'[x.blob] = "filled" /\ Asks[x.blob].text = x.text /\ bound'[x.blob] = x.len
    <3> HIDE DEF all
    <3> QED BY <1>s, <1>b, <2>2, <2>3 DEF BlobInv
  <2> QED BY <1>s, <2>1, <2>4 DEF BlobInv
<1>5. BoundInv'
  BY <1>v DEF TypeOK, BoundInv, BoundaryIsUsable, Build, planVars
<1>6. StartInv'
  <2> HIDE DEF all
  <2> QED BY <1>s, <1>k DEF StartInv, Distinct
<1> QED BY <1>1, <1>2, <1>3, <1>4, <1>5, <1>6

\* The build fails: the door is free again.
LEMMA BuildFailsStep ==
  ASSUME SplitInv, Sweeping = {}, NEW j \in Jobs, BuildFails(j)
  PROVE  SplitInv'
<1> USE DEF SplitInv
<1>0. \A k \in Jobs : todo[k] = {}
  BY DEF Sweeping
<1>h. j \in Holders /\ pc[j] = "build" /\ j \notin pending
  BY DEF BuildFails, Holders, DoorInv
<1>i. Holders = {j} /\ fd[j] \in open /\ door = fd[j]
  BY <1>h, SoleHolder DEF DoorInv, Using
<1>v. open' = open \ {fd[j]} /\ door' = 0 /\ fd' = [fd EXCEPT ![j] = 0] /\ pc' = [pc EXCEPT ![j] = "filled"]
      /\ UNCHANGED <<pending, old>>
  BY <1>i DEF BuildFails, CloseIfOpen, Unlock
<1>1. TypeOK'
  <2>2. open' \subseteq 1 .. Cardinality(Jobs) /\ door' \in open' \cup {0} /\ fd' \in [Jobs -> 0 .. Cardinality(Jobs)]
    <3>1. Cardinality(Jobs) \in Nat
      BY SplitAssumption, FS_CardinalityType
    <3>2. open' \subseteq 1 .. Cardinality(Jobs)
      BY <1>v DEF TypeOK
    <3>3. door' \in open' \cup {0}
      BY <1>v DEF TypeOK
    <3>4. fd' \in [Jobs -> 0 .. Cardinality(Jobs)]
      <4>1. 0 \in 0 .. Cardinality(Jobs)
        BY <3>1
      <4> QED BY <1>v, <4>1 DEF TypeOK
    <3> QED BY <3>2, <3>3, <3>4
  <2>4. resume' \in [Jobs -> Nat \cup {-1}]
    <3>1. Asks[j] \in Prompt
      BY SplitAssumption
    <3>2. ResumeAt(Asks[j], starts, store) \in Nat
      BY <3>1, ResumeType DEF TypeOK
    <3> QED BY <3>2 DEF BuildFails, TypeOK
  <2> QED BY <1>v, <2>2, <2>4 DEF TypeOK, BuildFails, planVars, pairVars
<1>2. DoorInv'
  <2>1. \A k \in Jobs : k # j => fd'[k] = fd[k] /\ pc'[k] = pc[k] /\ (Using(k)' <=> Using(k))
    BY <1>v DEF TypeOK, Using
  <2>2. ~Using(j)' /\ Using(j)
    BY <1>h, <1>v DEF TypeOK, Using
  <2>3. Holders' = {}
    BY <1>h, <1>i, <1>v DEF TypeOK, Holders
  <2>4. \A k \in pending' : pc'[k] \in {"queued", "cancelled"}
    BY <1>h, <1>v DEF TypeOK, DoorInv
  <2>5. \A k \in Jobs : Using(k)' => fd'[k] \in open'
    BY <1>v, <2>1, <2>2 DEF DoorInv
  <2>6. \A i, k \in Jobs : Using(i)' /\ Using(k)' /\ fd'[i] = fd'[k] => i = k
    BY <2>1, <2>2 DEF DoorInv
  <2>7. \A f \in open' : \E k \in Jobs : Using(k)' /\ fd'[k] = f
    BY <1>v, <2>1 DEF DoorInv
  <2> QED BY <1>v, <2>3, <2>4, <2>5, <2>6, <2>7 DEF DoorInv, OneDoor
<1>3. SweepInv'
  BY <1>0 DEF TypeOK, SweepInv, BuildFails, planVars, pairVars, CloseIfOpen, Unlock
<1>4. BlobInv'
  BY DEF TypeOK, BlobInv, BuildFails, planVars, pairVars, CloseIfOpen, Unlock
<1>5. BoundInv'
  BY DEF TypeOK, BoundInv, BoundaryIsUsable, BuildFails, planVars, pairVars, CloseIfOpen, Unlock
<1>6. StartInv'
  BY DEF StartInv, BuildFails, planVars, pairVars, CloseIfOpen, Unlock
<1> QED BY <1>1, <1>2, <1>3, <1>4, <1>5, <1>6

\* A client goes away.
LEMMA CancelStep ==
  ASSUME SplitInv, Sweeping = {}, NEW j \in Jobs, Cancel(j)
  PROVE  SplitInv'
<1> USE DEF SplitInv
<1>0. \A k \in Jobs : todo[k] = {}
  BY DEF Sweeping
<1>1. TypeOK'
  BY DEF TypeOK, Cancel, planVars, lockVars, pairVars, storeVars
<1>2. DoorInv'
  BY DEF TypeOK, DoorInv, Using, OneDoor, Holders, Cancel, planVars, lockVars, pairVars, storeVars
<1>3. SweepInv'
  BY <1>0 DEF TypeOK, SweepInv, Cancel, planVars, lockVars, pairVars, storeVars
<1>4. BlobInv'
  BY DEF TypeOK, BlobInv, Cancel, planVars, lockVars, pairVars, storeVars
<1>5. BoundInv'
  BY DEF TypeOK, BoundInv, BoundaryIsUsable, Cancel, planVars, lockVars, pairVars, storeVars
<1>6. StartInv'
  BY DEF StartInv, Cancel, planVars, lockVars, pairVars, storeVars
<1> QED BY <1>1, <1>2, <1>3, <1>4, <1>5, <1>6

\* A handoff grows old.
LEMMA ExpireStep ==
  ASSUME SplitInv, Sweeping = {}, NEW j \in Jobs, Expire(j)
  PROVE  SplitInv'
<1> USE DEF SplitInv
<1>0. \A k \in Jobs : todo[k] = {}
  BY DEF Sweeping
<1>1. TypeOK'
  BY DEF TypeOK, Expire, planVars, pairVars, storeVars
<1>2. DoorInv'
  BY DEF TypeOK, DoorInv, Using, OneDoor, Holders, Expire, planVars, pairVars, storeVars
<1>3. SweepInv'
  BY <1>0 DEF TypeOK, SweepInv, Expire, planVars, pairVars, storeVars
<1>4. BlobInv'
  BY DEF TypeOK, BlobInv, Expire, planVars, pairVars, storeVars
<1>5. BoundInv'
  BY DEF TypeOK, BoundInv, BoundaryIsUsable, Expire, planVars, pairVars, storeVars
<1>6. StartInv'
  BY DEF StartInv, Expire, planVars, pairVars, storeVars
<1> QED BY <1>1, <1>2, <1>3, <1>4, <1>5, <1>6


\* one entry of the sweep is freed: its job was the only holder, and its descriptor open.
LEMMA SweepOneStep ==
  ASSUME SplitInv, NEW j \in Jobs, SweepOne(j)
  PROVE  SplitInv'
<1> USE DEF SplitInv
<1>1. PICK e \in todo[j] :
        /\ pending' = pending \ {e.job} /\ old' = old \ {e.job}
        /\ IF e.fd \in open
           THEN Unlock(e.fd) /\ todo' = [todo EXCEPT ![j] = @ \ {e}] /\ UNCHANGED pc
           ELSE /\ todo' = [todo EXCEPT ![j] = {}]
                /\ pc' = [pc EXCEPT ![j] = "queued"]
                /\ UNCHANGED <<open, door>>
  BY DEF SweepOne
<1>2. UNCHANGED <<planVars, fd, pairVars, shm, storeVars>>
  BY DEF SweepOne
<1>3. e.job \in Jobs /\ e.job \in pending /\ e.fd = fd[e.job]
  BY DEF TypeOK, SweepInv
<1> DEFINE k == e.job
<1>4. k \in Holders /\ Using(k) /\ fd[k] \in open /\ pc[k] \in {"queued", "cancelled"}
  BY <1>3 DEF Holders, Using, DoorInv
<1>5. Holders = {k} /\ door = fd[k]
  BY <1>3, <1>4, SoleHolder
<1>6. open' = open \ {fd[k]} /\ door' = 0 /\ todo' = [todo EXCEPT ![j] = @ \ {e}] /\ UNCHANGED pc
  BY <1>1, <1>3, <1>4, <1>5 DEF Unlock
<1>7. pending = {k} /\ pending' = {} /\ old' = {}
  <2>1. pending \subseteq Holders
    BY DEF Holders, TypeOK
  <2> QED BY <1>1, <1>3, <1>5, <2>1 DEF TypeOK
<1>8. Holders' = {}
  BY <1>4, <1>5, <1>6, <1>7 DEF Holders
<1>9. todo[j] \subseteq {e} /\ \A i \in Jobs : todo'[i] = {}
  <2>1. \A d \in todo[j] : d = e
    <3> SUFFICES ASSUME NEW d \in todo[j] PROVE d = e
      OBVIOUS
    <3>1. d \in [job : Jobs, fd : 0 .. Cardinality(Jobs)] /\ e \in [job : Jobs, fd : 0 .. Cardinality(Jobs)]
      BY DEF TypeOK
    <3>2. d.job = k /\ d.fd = fd[k] /\ e.fd = fd[k]
      BY <1>3, <1>7 DEF SweepInv
    <3> QED BY <3>1, <3>2
  <2>2. \A i \in Jobs : i # j => todo[i] = {}
    BY DEF SweepInv
  <2>3. todo[j] \ {e} = {}
    BY <2>1
  <2> QED BY <1>6, <2>1, <2>2, <2>3 DEF TypeOK
<1> HIDE DEF k
<1>10. TypeOK'
  <2>1. todo' \in [Jobs -> SUBSET [job : Jobs, fd : 0 .. Cardinality(Jobs)]]
    BY <1>6 DEF TypeOK
  <2>2. open' \subseteq 1 .. Cardinality(Jobs) /\ door' \in open' \cup {0} /\ pending' \subseteq Jobs /\ old' \subseteq pending'
    BY <1>6, <1>7 DEF TypeOK
  <2> QED BY <1>2, <1>6, <2>1, <2>2 DEF TypeOK, planVars, pairVars, storeVars
<1>11. DoorInv'
  <2>0. k \in Jobs
    BY <1>3 DEF k
  <2>1. \A i \in Jobs : i # k => (Using(i)' <=> Using(i))
    BY <1>6, <1>7 DEF Using
  <2>2. ~Using(k)'
    BY <1>4, <1>6, <1>7 DEF Using
  <2>3. \A i \in pending' : pc'[i] \in {"queued", "cancelled"}
    BY <1>7
  <2>4. \A i \in Jobs : Using(i)' => fd'[i] \in open'
    BY <1>2, <1>4, <1>6, <2>0, <2>1, <2>2 DEF DoorInv
  <2>5. \A h, i \in Jobs : Using(h)' /\ Using(i)' /\ fd'[h] = fd'[i] => h = i
    BY <1>2, <2>1, <2>2 DEF DoorInv
  <2>6. \A f \in open' : \E i \in Jobs : Using(i)' /\ fd'[i] = f
    BY <1>2, <1>6, <2>1 DEF DoorInv
  <2> QED BY <1>6, <1>8, <2>3, <2>4, <2>5, <2>6 DEF DoorInv, OneDoor
<1>12. SweepInv'
  BY <1>9 DEF SweepInv
<1>13. BlobInv'
  <2>1. \A i \in Jobs : ~(pc'[i] = "build" \/ i \in pending')
    BY <1>8 DEF Holders
  <2> QED BY <1>2, <1>6, <2>1 DEF BlobInv, planVars, storeVars
<1>14. BoundInv'
  BY <1>2, <1>6 DEF BoundInv, BoundaryIsUsable, planVars
<1>15. StartInv'
  BY <1>2 DEF StartInv, storeVars
<1> QED BY <1>10, <1>11, <1>12, <1>13, <1>14, <1>15

\* Nothing but the engine matters to a reload, and nothing to a step that changes nothing.
LEMMA ReloadStep ==
  ASSUME SplitInv, Reload \/ UNCHANGED vars
  PROVE  SplitInv'
<1> USE DEF SplitInv
<1>1. UNCHANGED <<pc, mx, bound, fd, todo, pending, old, open, door, budget, marker, shm, store, starts, resume>>
  BY DEF Reload, vars, planVars, lockVars, pairVars, storeVars
<1>2. engine' \in BOOLEAN
  BY DEF Reload, vars, planVars, TypeOK
<1>3. TypeOK'
  BY <1>1, <1>2 DEF TypeOK
<1>4. DoorInv'
  BY <1>1 DEF DoorInv, Using, OneDoor, Holders
<1>5. SweepInv' /\ BlobInv' /\ StartInv'
  BY <1>1 DEF SweepInv, BlobInv, StartInv
<1>6. BoundInv'
  BY <1>1 DEF BoundInv, BoundaryIsUsable
<1> QED BY <1>3, <1>4, <1>5, <1>6

\* The invariant is inductive while sweeps run through.
LEMMA NextSplit ==
  ASSUME ~SweepPreempted, SplitInv, [Next]_vars
  PROVE  SplitInv'
<1>1. CASE Sweeping = {} /\ \E j \in Jobs : Step(j)
  <2> PICK j \in Jobs : Step(j)
    BY <1>1
  <2>1. CASE Submit(j)
    BY <1>1, <2>1, SubmitStep
  <2>2. CASE SweepOne(j)
    BY <2>2, SweepOneStep
  <2>3. CASE Decide(j)
    BY <1>1, <2>3, DecideStep
  <2>4. CASE BudgetTake(j)
    BY <1>1, <2>4, BudgetTakeStep
  <2>5. CASE BudgetTimeout(j)
    BY <1>1, <2>5, BudgetTimeoutStep
  <2>6. CASE Prefilled(j)
    BY <1>1, <2>6, PrefilledStep
  <2>7. CASE PrefillFails(j)
    BY <1>1, <2>7, PrefillFailsStep
  <2>8. CASE DoorTake(j)
    BY <1>1, <2>8, DoorTakeStep
  <2>9. CASE DoorTimeout(j)
    BY <1>1, <2>9, DoorTimeoutStep
  <2>10. CASE Pulled(j)
    BY <1>1, <2>10, PulledStep
  <2>11. CASE PullFails(j)
    BY <1>1, <2>11, PullFailsStep
  <2>12. CASE StartFill(j)
    BY <1>1, <2>12, StartFillStep
  <2>13. CASE Build(j)
    BY <1>1, <2>13, BuildStep
  <2>14. CASE BuildFails(j)
    BY <1>1, <2>14, BuildFailsStep
  <2>15. CASE Cancel(j)
    BY <1>1, <2>15, CancelStep
  <2>16. CASE Expire(j)
    BY <1>1, <2>16, ExpireStep
  <2> QED BY <2>1, <2>2, <2>3, <2>4, <2>5, <2>6, <2>7, <2>8, <2>9, <2>10, <2>11, <2>12, <2>13, <2>14, <2>15, <2>16
          DEF Step, Thread, Scheduler
<1>2. CASE \E j \in Sweeping : SweepOne(j)
  BY <1>2, SweepOneStep DEF Sweeping
<1>3. CASE Reload \/ UNCHANGED vars
  BY <1>3, ReloadStep
<1> QED BY <1>1, <1>2, <1>3 DEF Next

-----------------------------------------------------------------------------
(* Theorems *)

\* The parts of the invariant are what the properties ask for.
LEMMA SplitInvMeans ==
  ASSUME SplitInv
  PROVE  TypeOK /\ OneDoor /\ StoreIsOwn /\ BoundaryIsUsable
<1>1. TypeOK /\ OneDoor /\ BoundaryIsUsable
  BY DEF SplitInv, DoorInv, BoundInv
<1>2. \A x \in store : x.blob \in Jobs
  BY DEF SplitInv, BlobInv
<1>3. \A x \in store : x.blob # None
  BY <1>2, SplitAssumption
<1>4. StoreIsOwn
  BY <1>3 DEF StoreIsOwn, SplitInv, BlobInv
<1> QED BY <1>1, <1>4

\* The invariant holds in every state, for any requests, prompts, capacities and number of starts.
LEMMA SplitInvariant ==
  ASSUME ~SweepPreempted
  PROVE  Spec => []SplitInv
<1>1. SplitInv /\ [Next]_vars => SplitInv'
  BY NextSplit
<1> QED BY <1>1, InitSplit, PTL DEF Spec

\* Every variable of the split keeps its type; at most MaxStarts starts are remembered.
THEOREM SplitTypeCorrect ==
  ASSUME ~SweepPreempted
  PROVE  Spec => []TypeOK
<1>1. SplitInv => TypeOK
  BY SplitInvMeans
<1> QED BY <1>1, SplitInvariant, PTL

\* The door is locked by exactly the one handoff that needs the shared memory, through every
\* cancellation, expiry, timeout and failure (_door_lock, _door_unlock, _sweep).
THEOREM OneDoorCorrect ==
  ASSUME ~SweepPreempted
  PROVE  Spec => []OneDoor
<1>1. SplitInv => OneDoor
  BY SplitInvMeans
<1> QED BY <1>1, SplitInvariant, PTL

\* A stored prefix was built from the blobs of the handoff that pulled them (build_phase).
THEOREM StoreIsOwnCorrect ==
  ASSUME ~SweepPreempted
  PROVE  Spec => []StoreIsOwn
<1>1. SplitInv => StoreIsOwn
  BY SplitInvMeans
<1> QED BY <1>1, SplitInvariant, PTL

\* plan() gives only boundaries that the builder and the resumed fill can use, whatever capacity
\* was configured when the request was planned.
THEOREM BoundaryCorrect ==
  ASSUME ~SweepPreempted
  PROVE  Spec => []BoundaryIsUsable
<1>1. SplitInv => BoundaryIsUsable
  BY SplitInvMeans
<1> QED BY <1>1, SplitInvariant, PTL
-----------------------------------------------------------------------------
(* The budget *)

\* Who waits for the budget or is in flight has a boundary, and the budget is the sum of those in flight.
BudgetInv ==
  /\ \A j \in Jobs : pc[j] \in {"budget", "prefill", "door", "pull"} => bound[j] # 0
  /\ budget = SumOf(bound, InFlight)
  /\ PairNotOverfull

\* The requests in flight are finitely many, and what they reserve are naturals.
LEMMA FlightType ==
  ASSUME TypeOK
  PROVE  IsFiniteSet(InFlight) /\ \A j \in InFlight : j \in Jobs /\ bound[j] \in Nat
<1>1. IsFiniteSet(Jobs) /\ InFlight \subseteq Jobs
  BY SplitAssumption DEF InFlight
<1> QED BY <1>1, FS_Subset DEF TypeOK

\* Nothing reserved, nobody in flight.
LEMMA NoneInFlight ==
  ASSUME TypeOK, BudgetInv, budget = 0
  PROVE  InFlight = {}
<1> SUFFICES ASSUME NEW x \in InFlight PROVE FALSE
  OBVIOUS
<1>1. IsFiniteSet(InFlight) /\ (\A j \in InFlight : bound[j] \in Nat) /\ InFlight \ {x} \subseteq InFlight /\ bound[x] \in Nat
  BY FlightType
<1>2. SumOf(bound, InFlight) = bound[x] + SumOf(bound, InFlight \ {x})
  BY <1>1, SumTakes
<1>3. IsFiniteSet(InFlight \ {x}) /\ \A j \in InFlight \ {x} : bound[j] \in Nat
  BY <1>1, FS_Subset
<1>4. SumOf(bound, InFlight \ {x}) \in Nat
  BY <1>3, SumTakes
<1>5. bound[x] # 0
  BY DEF BudgetInv, InFlight
<1>6. budget = SumOf(bound, InFlight)
  BY DEF BudgetInv
<1> DEFINE r == SumOf(bound, InFlight \ {x})
<1>7. r \in Nat /\ 0 = bound[x] + r
  BY <1>2, <1>4, <1>6
<1> HIDE DEF r
<1> QED BY <1>1, <1>5, <1>7

\* The requests in flight are the same, and so is the budget.
LEMMA FlightSame ==
  ASSUME TypeOK, BudgetInv, budget' = budget, InFlight' = InFlight, \A j \in InFlight : bound'[j] = bound[j],
         \A j \in Jobs : pc'[j] \in {"budget", "prefill", "door", "pull"} => bound'[j] # 0
  PROVE  BudgetInv'
<1>1. SumOf(bound, InFlight) = SumOf(bound', InFlight)
  BY FlightType, SumSame
<1>2. SumOf(bound, InFlight)' = SumOf(bound', InFlight')
  OBVIOUS
<1> QED BY <1>1, <1>2 DEF BudgetInv, PairNotOverfull

\* A request reserves its tokens (_budget_take).
LEMMA FlightStarts ==
  ASSUME SplitInv, BudgetInv, NEW j \in Jobs, BudgetTake(j)
  PROVE  BudgetInv'
<1>1. TypeOK /\ pc[j] = "budget" /\ budget' = budget + bound[j] /\ pc' = [pc EXCEPT ![j] = "prefill"] /\ UNCHANGED <<bound, mx>> /\ Fits(j)
  BY DEF BudgetTake, SplitInv, planVars
<1>2. j \notin InFlight /\ InFlight' = InFlight \cup {j} /\ InFlight' \ {j} = InFlight
  BY <1>1 DEF TypeOK, InFlight
<1>3. IsFiniteSet(InFlight') /\ \A k \in InFlight' : bound[k] \in Nat
  <2>1. IsFiniteSet(InFlight) /\ \A k \in InFlight : bound[k] \in Nat
    BY <1>1, FlightType
  <2> QED BY <1>1, <1>2, <2>1, FS_AddElement DEF TypeOK
<1>4. SumOf(bound, InFlight') = bound[j] + SumOf(bound, InFlight)
  BY <1>2, <1>3, SumTakes
<1>5. SumOf(bound, InFlight)' = SumOf(bound, InFlight')
  BY <1>1
<1>6. budget' = SumOf(bound, InFlight)'
  BY <1>1, <1>4, <1>5 DEF BudgetInv, TypeOK
<1>7. PairNotOverfull'
  <2>1. CASE budget = 0
    <3>1. InFlight' = {j}
      BY <1>1, <1>2, <2>1, NoneInFlight
    <3>2. Cardinality(InFlight') = 1
      BY <3>1, FS_Singleton
    <3> QED BY <3>2 DEF PairNotOverfull
  <2>2. CASE budget + bound[j] <= BudgetCap(j)
    <3>1. BudgetCap(j) \in MaxHandoffs \cup {DefaultCap}
      BY <1>1 DEF BudgetCap, TypeOK
    <3>2. budget' <= BudgetCap(j)
      BY <1>1, <2>2
    <3> QED BY <3>1, <3>2 DEF PairNotOverfull
  <2> QED BY <1>1, <2>1, <2>2 DEF Fits
<1>8. \A k \in Jobs : pc'[k] \in {"budget", "prefill", "door", "pull"} => bound'[k] # 0
  BY <1>1 DEF TypeOK, BudgetInv
<1> QED BY <1>6, <1>7, <1>8 DEF BudgetInv

\* A request gives its tokens back, once (_budget_give).
LEMMA FlightEnds ==
  ASSUME SplitInv, BudgetInv, NEW j \in InFlight, Give(j), pc' = [pc EXCEPT ![j] = "queued"], UNCHANGED bound
  PROVE  BudgetInv'
<1>1. TypeOK /\ j \in Jobs /\ budget \in Nat
  BY DEF SplitInv, InFlight, TypeOK
<1>2. InFlight' = InFlight \ {j}
  BY <1>1 DEF TypeOK, InFlight
<1>3. IsFiniteSet(InFlight) /\ (\A k \in InFlight : bound[k] \in Nat) /\ bound[j] \in Nat
  BY <1>1, FlightType
<1>4. IsFiniteSet(InFlight') /\ \A k \in InFlight' : bound[k] \in Nat
  BY <1>2, <1>3, FS_Subset
<1>5. SumOf(bound, InFlight) = bound[j] + SumOf(bound, InFlight') /\ SumOf(bound, InFlight') \in Nat
  BY <1>2, <1>3, <1>4, SumTakes
<1>6. budget = bound[j] + SumOf(bound, InFlight')
  BY <1>5 DEF BudgetInv
<1>7. budget' = SumOf(bound, InFlight')
  <2> DEFINE r == SumOf(bound, InFlight')
  <2>0. r \in Nat /\ budget = bound[j] + r
    BY <1>5, <1>6
  <2> HIDE DEF r
  <2>1. budget - bound[j] = r
    BY <1>1, <1>3, <2>0
  <2>2. {0, r} \in SUBSET Nat /\ {0, r} # {} /\ \A x \in {0, r} : x <= r
    BY <2>0
  <2>3. Max({0, r}) \in {0, r} /\ \A x \in {0, r} : Max({0, r}) >= x
    BY <2>0, <2>2, MaxOf
  <2>4. Max({0, r}) = r
    BY <2>0, <2>3
  <2> QED BY <2>1, <2>4 DEF Give, r
<1>8. SumOf(bound, InFlight)' = SumOf(bound, InFlight')
  OBVIOUS
<1>9. PairNotOverfull'
  <2>1. ASSUME NEW c \in MaxHandoffs \cup {DefaultCap}, budget <= c PROVE budget' <= c
    <3>1. c \in Nat
      BY SplitAssumption
    <3>2. budget' \in Nat /\ budget' <= budget
      BY <1>1, <1>3, <1>5, <1>6, <1>7
    <3> QED BY <1>1, <2>1, <3>1, <3>2
  <2>2. CASE Cardinality(InFlight) = 1
    <3>0. Cardinality(InFlight \ {j}) = Cardinality(InFlight) - 1
      BY <1>3, FS_RemoveElement
    <3>1. Cardinality(InFlight') = 0
      BY <1>2, <2>2, <3>0
    <3>2. InFlight' = {}
      BY <1>4, <3>1, FS_EmptySet
    <3>3. budget' = 0
      BY <1>4, <1>7, <3>2, SumTakes
    <3>4. budget' <= DefaultCap
      BY <3>3, SplitAssumption
    <3> QED BY <3>4 DEF PairNotOverfull
  <2> QED BY <2>1, <2>2 DEF BudgetInv, PairNotOverfull
<1>10. \A k \in Jobs : pc'[k] \in {"budget", "prefill", "door", "pull"} => bound'[k] # 0
  BY <1>1 DEF TypeOK, BudgetInv
<1> QED BY <1>7, <1>8, <1>9, <1>10 DEF BudgetInv

\* Every step keeps the budget exact: it is given back by each way out of the flight, also by the handler of a
\* failed pull, whose unlock does not raise because the descriptor is still open (DoorInv).
LEMMA BudgetStep ==
  ASSUME ~SweepPreempted, SplitInv, BudgetInv, [Next]_vars
  PROVE  BudgetInv'
<1>0. TypeOK /\ DoorInv
  BY DEF SplitInv
<1>1. ASSUME NEW j \in Jobs, SweepOne(j) \/ Submit(j) \/ BudgetTimeout(j) \/ Prefilled(j) \/ DoorTake(j)
                             \/ StartFill(j) \/ Build(j) \/ BuildFails(j) \/ Cancel(j) \/ Expire(j)
      PROVE  BudgetInv'
  <2>1. UNCHANGED <<bound, budget>>
    BY <1>1 DEF SweepOne, Submit, BudgetTimeout, Prefilled, DoorTake, StartFill, Build, BuildFails, Cancel, Expire, planVars, pairVars
  <2>2. \/ UNCHANGED pc
        \/ \E v : pc' = [pc EXCEPT ![j] = v] /\
             \/ pc[j] \in {"new", "sweep", "budget", "queued", "build"} /\ v \in {"sweep", "queued", "build", "filled", "cancelled"}
             \/ pc[j] = "prefill" /\ v = "door"
             \/ pc[j] = "door" /\ v = "pull"
    <3>1. CASE SweepOne(j)
      BY <3>1 DEF SweepOne
    <3>2. CASE StartFill(j)
      BY <3>2 DEF StartFill
    <3> QED BY <1>1, <3>1, <3>2 DEF Submit, BudgetTimeout, Prefilled, DoorTake, Build, BuildFails, Cancel, Expire
  <2>3. InFlight' = InFlight /\ \A k \in Jobs : pc'[k] \in {"budget", "prefill", "door", "pull"} => pc[k] \in {"budget", "prefill", "door", "pull"}
    <3>1. CASE UNCHANGED pc
      BY <3>1 DEF InFlight
    <3>2. ASSUME NEW v, pc' = [pc EXCEPT ![j] = v],
                 \/ pc[j] \in {"new", "sweep", "budget", "queued", "build"} /\ v \in {"sweep", "queued", "build", "filled", "cancelled"}
                 \/ pc[j] = "prefill" /\ v = "door"
                 \/ pc[j] = "door" /\ v = "pull"
          PROVE  InFlight' = InFlight /\ \A k \in Jobs : pc'[k] \in {"budget", "prefill", "door", "pull"} => pc[k] \in {"budget", "prefill", "door", "pull"}
      BY <1>0, <3>2 DEF InFlight, TypeOK
    <3> QED BY <2>2, <3>1, <3>2
  <2> QED BY <1>0, <2>1, <2>3, FlightSame DEF BudgetInv
<1>2. ASSUME NEW j \in Jobs, Decide(j) PROVE BudgetInv'
  <2>1. PICK b : bound' = [bound EXCEPT ![j] = b] /\ pc' = [pc EXCEPT ![j] = IF b = 0 THEN "queued" ELSE "budget"]
    BY <1>2 DEF Decide
  <2>2. pc[j] = "sweep" /\ UNCHANGED budget
    BY <1>2 DEF Decide, pairVars
  <2>3. InFlight' = InFlight /\ j \notin InFlight
    BY <1>0, <2>1, <2>2 DEF InFlight, TypeOK
  <2>4. \A k \in InFlight : bound'[k] = bound[k]
    BY <1>0, <2>1, <2>3 DEF TypeOK
  <2>5. \A k \in Jobs : pc'[k] \in {"budget", "prefill", "door", "pull"} => bound'[k] # 0
    BY <1>0, <2>1 DEF TypeOK, BudgetInv
  <2> QED BY <1>0, <2>2, <2>3, <2>4, <2>5, FlightSame
<1>3. ASSUME NEW j \in Jobs, PrefillFails(j) \/ DoorTimeout(j) \/ Pulled(j) \/ PullFails(j) PROVE BudgetInv'
  <2>1. j \in InFlight /\ pc' = [pc EXCEPT ![j] = "queued"] /\ UNCHANGED bound
    BY <1>3 DEF PrefillFails, DoorTimeout, Pulled, PullFails, planVars, InFlight
  <2>2. Give(j)
    <3>1. CASE PullFails(j)
      <4>1. Using(j)
        BY <3>1 DEF PullFails, Using
      <4>2. fd[j] \in open
        BY <1>0, <4>1 DEF DoorInv
      <4> QED BY <3>1, <4>2 DEF PullFails
    <3> QED BY <1>3, <3>1 DEF PrefillFails, DoorTimeout, Pulled
  <2> QED BY <2>1, <2>2, FlightEnds
<1>4. CASE Reload \/ UNCHANGED vars
  <2>1. UNCHANGED <<pc, bound, budget>>
    BY <1>4 DEF Reload, vars, planVars, pairVars
  <2>2. InFlight' = InFlight
    BY <2>1 DEF InFlight
  <2> QED BY <1>0, <2>1, <2>2, FlightSame DEF BudgetInv
<1>5. ASSUME NEW j \in Jobs, Step(j) PROVE BudgetInv'
  BY <1>1, <1>2, <1>3, <1>5, FlightStarts DEF Step, Thread, Scheduler
<1> QED BY <1>1, <1>4, <1>5 DEF Next, Sweeping

\* The invariant of the budget holds in every state.
LEMMA BudgetInvariant ==
  ASSUME ~SweepPreempted
  PROVE  Spec => []BudgetInv
<1>1. Init => BudgetInv
  <2> SUFFICES ASSUME Init PROVE BudgetInv
    OBVIOUS
  <2>1. budget = 0 /\ InFlight = {} /\ \A j \in Jobs : pc[j] = "new"
    BY DEF Init, InFlight
  <2>2. SumOf(bound, InFlight) = 0
    BY <2>1, FS_EmptySet, SumTakes
  <2>3. budget <= DefaultCap
    BY <2>1, SplitAssumption
  <2> QED BY <2>1, <2>2, <2>3 DEF BudgetInv, PairNotOverfull
<1>2. SplitInv /\ BudgetInv /\ [Next]_vars => BudgetInv'
  BY BudgetStep
<1> QED BY <1>1, <1>2, SplitInvariant, PTL DEF Spec

\* BUDGET[0] is exactly what the requests in flight have reserved, whatever becomes of each of them
\* (_budget_take, _budget_give, the handlers of network_phase).
THEOREM BudgetCorrect ==
  ASSUME ~SweepPreempted
  PROVE  Spec => []BudgetExact
<1>1. BudgetInv => BudgetExact
  BY DEF BudgetInv, BudgetExact, SumOf
<1> QED BY <1>1, BudgetInvariant, PTL

\* What shares the pair fits together into a capacity it was configured with, or is alone there
\* (_budget_take's condition, under a config that changes between requests).
THEOREM PairCorrect ==
  ASSUME ~SweepPreempted
  PROVE  Spec => []PairNotOverfull
<1>1. BudgetInv => PairNotOverfull
  BY DEF BudgetInv
<1> QED BY <1>1, BudgetInvariant, PTL

-----------------------------------------------------------------------------
(* The starts that are remembered *)

\* Of one boundary more than are remembered, the least is the one forgotten.
LEMMA PruneDropsLeast ==
  ASSUME NEW S \in SUBSET StartSet, IsFiniteSet(S), Distinct(S), Cardinality(S) = MaxStarts + 1,
         NEW l \in S, \A x \in S : l.b <= x.b
  PROVE  PruneStarts(S) = S \ {l} /\ Cardinality(S \ {l}) = MaxStarts
<1>0. MaxStarts \in Nat \ {0}
  BY SplitAssumption
<1>1. IsFiniteSet(S \ {l}) /\ Cardinality(S \ {l}) = MaxStarts
  <2>1. IsFiniteSet(S \ {l}) /\ Cardinality(S \ {l}) = Cardinality(S) - 1
    BY FS_RemoveElement
  <2> QED BY <1>0, <2>1
<1> DEFINE above(x) == {y \in S : y.b > x.b}
<1>2. \A x \in S : x.b \in Nat
  BY DEF StartSet
<1>3. above(l) = S \ {l}
  <2>1. ASSUME NEW y \in S \ {l} PROVE y.b > l.b
    BY <1>2 DEF Distinct
  <2> QED BY <1>2, <2>1
<1>4. ASSUME NEW x \in S, x # l PROVE Cardinality(above(x)) < MaxStarts
  <2>1. above(x) \in SUBSET ((S \ {l}) \ {x})
    <3>1. ASSUME NEW y \in above(x) PROVE y # l /\ y # x
      BY <1>2
    <3> QED BY <3>1
  <2>2. IsFiniteSet((S \ {l}) \ {x}) /\ Cardinality((S \ {l}) \ {x}) = MaxStarts - 1
    BY <1>1, <1>4, FS_RemoveElement
  <2> DEFINE A == above(x)
             R == (S \ {l}) \ {x}
  <2>3. A \in SUBSET R /\ IsFiniteSet(R) /\ Cardinality(R) = MaxStarts - 1
    BY <2>1, <2>2
  <2> HIDE DEF A, R
  <2>4. Cardinality(A) <= MaxStarts - 1 /\ IsFiniteSet(A)
    BY <2>3, FS_Subset
  <2>5. Cardinality(A) \in Nat
    BY <2>4, FS_CardinalityType
  <2>6. Cardinality(A) < MaxStarts
    BY <1>0, <2>4, <2>5
  <2> QED BY <2>6 DEF A
<1>5. PruneStarts(S) = {x \in S : Cardinality(above(x)) < MaxStarts}
  BY <1>0 DEF PruneStarts
<1>6. ~(Cardinality(above(l)) < MaxStarts)
  BY <1>0, <1>1, <1>3
<1> HIDE DEF above
<1> QED BY <1>1, <1>4, <1>5, <1>6

\* The entries above a boundary.
AboveIn(S, n) == {x \in S : x.b > n}

\* MaxStarts entries above a boundary are all there are.
LEMMA AboveIsAll ==
  ASSUME NEW S \in SUBSET StartSet, IsFiniteSet(S), Cardinality(S) <= MaxStarts, NEW n \in Nat,
         Cardinality(AboveIn(S, n)) >= MaxStarts
  PROVE  Cardinality(S) = MaxStarts /\ \A x \in S : x.b > n
<1> DEFINE A == AboveIn(S, n)
<1>1. A \in SUBSET S /\ MaxStarts \in Nat
  BY SplitAssumption DEF AboveIn
<1>a. Cardinality(A) >= MaxStarts
  OBVIOUS
<1> HIDE DEF A
<1>2. IsFiniteSet(A) /\ Cardinality(A) <= Cardinality(S) /\ (Cardinality(S) = Cardinality(A) => S = A)
  BY <1>1, FS_Subset
<1>3. Cardinality(A) \in Nat /\ Cardinality(S) \in Nat
  BY <1>2, FS_CardinalityType
<1>4. Cardinality(S) = Cardinality(A) /\ Cardinality(S) = MaxStarts
  BY <1>1, <1>2, <1>3, <1>a
<1>5. S = AboveIn(S, n)
  BY <1>2, <1>4 DEF A
<1> QED BY <1>4, <1>5 DEF AboveIn

\* The set that prompt_chunks prunes when a boundary is built.
With(S, h) == {x \in S : x.b # h.b} \cup {h}

\* What prompt_chunks keeps of it: the new boundary unless MaxStarts higher ones are there, and
\* MaxStarts entries above a boundary stay that many.
LEMMA BuiltStarts ==
  ASSUME NEW S \in SUBSET StartSet, IsFiniteSet(S), Cardinality(S) <= MaxStarts, Distinct(S), NEW h \in StartSet
  PROVE  /\ h \in PruneStarts(With(S, h)) \/ Cardinality(AboveIn(PruneStarts(With(S, h)), h.b)) >= MaxStarts
         /\ \A n \in Nat : Cardinality(AboveIn(S, n)) >= MaxStarts
              => Cardinality(AboveIn(PruneStarts(With(S, h)), n)) >= MaxStarts
<1> DEFINE rest == {x \in S : x.b # h.b}
           U == With(S, h)
           P == PruneStarts(U)
<1>0. MaxStarts \in Nat \ {0} /\ \A x \in StartSet : x.b \in Nat
  BY SplitAssumption DEF StartSet
<1>c. Cardinality(S) \in Nat
  BY FS_CardinalityType
<1>1. U = rest \cup {h} /\ rest \subseteq S /\ IsFiniteSet(rest) /\ h \notin rest
  BY FS_Subset DEF With
<1>2. U \in SUBSET StartSet /\ IsFiniteSet(U) /\ Cardinality(U) = Cardinality(rest) + 1
  <2> HIDE DEF rest, U
  <2> QED BY <1>1, FS_AddElement
<1>3. Distinct(U)
  <2>1. \A x, y \in rest : x.b = y.b => x = y
    BY DEF Distinct
  <2>2. \A x \in rest : x.b # h.b
    OBVIOUS
  <2> HIDE DEF rest, U
  <2> QED BY <1>1, <2>1, <2>2 DEF Distinct
<1>4. CASE \E y \in S : y.b = h.b
  <2>1. PICK y \in S : y.b = h.b
    BY <1>4
  <2>2. rest = S \ {y}
    BY <2>1 DEF Distinct
  <2>3. Cardinality(rest) = Cardinality(S) - 1
    BY <2>2, FS_RemoveElement
  <2>4. Cardinality(U) = Cardinality(S)
    <3> HIDE DEF rest, U
    <3> QED BY <1>2, <1>c, <2>3
  <2>5. P = U
    <3> HIDE DEF U
    <3> QED BY <2>4 DEF PruneStarts
  <2>6. h \in P
    BY <1>1, <2>5
  <2>7. ASSUME NEW n \in Nat, Cardinality(AboveIn(S, n)) >= MaxStarts
        PROVE  Cardinality(AboveIn(P, n)) >= MaxStarts
    <3>1. Cardinality(S) = MaxStarts /\ \A x \in S : x.b > n
      BY <2>7, AboveIsAll
    <3>2. \A x \in U : x.b > n
      BY <1>1, <2>1, <3>1
    <3>3. AboveIn(P, n) = U
      BY <2>5, <3>2 DEF AboveIn
    <3> HIDE DEF P, U
    <3> QED BY <1>0, <2>4, <3>1, <3>3
  <2> HIDE DEF P
  <2> QED BY <2>6, <2>7 DEF P, U
<1>5. CASE ~(\E y \in S : y.b = h.b)
  <2>1. rest = S
    BY <1>5
  <2>2. U = S \cup {h} /\ h \notin S /\ Cardinality(U) = Cardinality(S) + 1
    <3> HIDE DEF U
    <3> QED BY <1>1, <1>2, <2>1
  <2>3. CASE Cardinality(S) < MaxStarts
    <3>1. P = U
      <4> HIDE DEF U, rest
      <4> QED BY <1>0, <1>c, <2>2, <2>3 DEF PruneStarts
    <3>2. h \in P
      BY <2>2, <3>1
    <3>3. ASSUME NEW n \in Nat, Cardinality(AboveIn(S, n)) >= MaxStarts PROVE FALSE
      BY <1>0, <1>c, <2>3, <3>3, AboveIsAll
    <3> HIDE DEF P, U, rest
    <3> QED BY <3>2, <3>3 DEF P, U
  <2>4. CASE Cardinality(S) = MaxStarts
    <3>1. Cardinality(U) = MaxStarts + 1
      BY <2>2, <2>4
    <3>2. PICK l \in U : \A x \in U : l.b <= x.b
      <4> DEFINE B == {x.b : x \in U}
      <4>1. B \in SUBSET Nat /\ B # {}
        <5> HIDE DEF U, rest
        <5> QED BY <1>0, <1>2, <2>2
      <4>2. \E m \in B : \A x \in B : m <= x
        <5> HIDE DEF B
        <5> QED BY <4>1, LeastExists
      <4> HIDE DEF U, rest
      <4> QED BY <4>2
    <3>3. P = U \ {l} /\ Cardinality(P) = MaxStarts
      <4> HIDE DEF U, rest
      <4> QED BY <1>2, <1>3, <3>1, <3>2, PruneDropsLeast
    <3>4. h \in P \/ Cardinality(AboveIn(P, h.b)) >= MaxStarts
      <4>1. CASE l # h
        BY <2>2, <3>3, <4>1
      <4>2. CASE l = h
        <5>1. \A x \in P : x.b > h.b
          <6> HIDE DEF U, rest, P
          <6> QED BY <1>0, <1>2, <1>3, <3>2, <3>3, <4>2 DEF Distinct
        <5>2. AboveIn(P, h.b) = P
          BY <5>1 DEF AboveIn
        <5>3. Cardinality(P) >= MaxStarts
          <6> HIDE DEF U, rest, P
          <6> QED BY <1>0, <3>3
        <5> HIDE DEF U, rest, P
        <5> QED BY <5>2, <5>3
      <4> QED BY <4>1, <4>2
    <3>5. ASSUME NEW n \in Nat, Cardinality(AboveIn(S, n)) >= MaxStarts
          PROVE  Cardinality(AboveIn(P, n)) >= MaxStarts
      <4>1. \A x \in S : x.b > n
        BY <3>5, AboveIsAll
      <4>2. \A x \in P : x.b > n
        <5>1. CASE l = h
          <6> HIDE DEF U, rest, P
          <6> QED BY <2>2, <3>3, <4>1, <5>1
        <5>2. CASE l # h
          <6>1. l \in S /\ l.b > n /\ l.b <= h.b /\ l.b \in Nat /\ h.b \in Nat
            <7> HIDE DEF U, rest, P
            <7> QED BY <1>0, <1>2, <2>2, <3>2, <4>1, <5>2
          <6>2. h.b > n
            BY <6>1
          <6> HIDE DEF U, rest, P
          <6> QED BY <2>2, <3>3, <4>1, <6>2
        <5> QED BY <5>1, <5>2
      <4>3. AboveIn(P, n) = P
        BY <4>2 DEF AboveIn
      <4> HIDE DEF U, rest, P
      <4>4. Cardinality(AboveIn(P, n)) = MaxStarts
        BY <3>3, <4>3
      <4> QED BY <1>0, <4>4
    <3> HIDE DEF P, U, rest
    <3> QED BY <3>4, <3>5 DEF P, U
  <2> QED BY <1>0, <1>c, <2>3, <2>4
<1> QED BY <1>4, <1>5

\* A fill resumes no earlier than any stored prefix of its prompt that ends at a chunk start.
LEMMA ResumeReaches ==
  ASSUME NEW p \in Prompt, NEW S, NEW T \in SUBSET [text : {"x", "y"}, len : Nat, blob : Jobs \cup {None}],
         NEW x \in T, x.text = p.text, x.len \in ChunkStarts(p, S)
  PROVE  ResumeAt(p, S, T) >= x.len
<1> DEFINE L == {0} \cup {y.len : y \in {y \in T : y.text = p.text /\ y.len \in ChunkStarts(p, S)}}
<1>1. p.n \in Nat
  BY DEF Prompt
<1>2. ASSUME NEW y \in T, y.len \in ChunkStarts(p, S) PROVE y.len \in Nat /\ y.len <= p.n
  <2>1. y.len \in Nat
    OBVIOUS
  <2>2. CASE y.len \in {k \in 0 .. p.n - 1 : k % ChunkStep = 0}
    BY <1>1, <2>1, <2>2
  <2>3. CASE y.len \in {z.b : z \in {z \in S : z.text = p.text /\ z.b < p.n}}
    BY <1>1, <2>1, <2>3
  <2> QED BY <1>2, <2>2, <2>3 DEF ChunkStarts
<1>3. L \in SUBSET Nat /\ L # {} /\ \A y \in L : y <= p.n
  BY <1>1, <1>2
<1>4. \A y \in L : Max(L) >= y
  <2> HIDE DEF L
  <2> QED BY <1>1, <1>3, MaxOf
<1>5. x.len \in L
  OBVIOUS
<1> QED BY <1>4, <1>5 DEF ResumeAt

\* A step that builds nothing leaves what SplitIsUsed speaks of alone.
LEMMA UsedSame ==
  ASSUME SplitIsUsed, UNCHANGED <<bound, store, starts>>,
         \A j \in Jobs : pc'[j] = "filled" /\ (\E x \in store : x.blob = j) => pc[j] = "filled" /\ resume'[j] = resume[j]
  PROVE  SplitIsUsed'
BY DEF SplitIsUsed

\* A step of the scheduler's thread that stores nothing fills a request no prefix was stored from.
LEMMA UsedFilled ==
  ASSUME SplitInv, SplitIsUsed, NEW j \in Jobs, pc[j] # "filled", pc' = [pc EXCEPT ![j] = "filled"],
         UNCHANGED <<bound, store, starts>>, NEW r, resume' = [resume EXCEPT ![j] = r]
  PROVE  SplitIsUsed'
<1>1. \A x \in store : x.blob # j
  BY DEF SplitInv, BlobInv
<1>2. TypeOK
  BY DEF SplitInv
<1>3. \A k \in Jobs : k # j => pc'[k] = pc[k] /\ resume'[k] = resume[k]
  BY <1>2 DEF TypeOK
<1> QED BY <1>1, <1>3, UsedSame

\* A build: the new prefix is where its own fill resumes, unless its boundary is the one forgotten.
LEMMA UsedBuild ==
  ASSUME SplitInv, SplitIsUsed, NEW j \in Jobs, Build(j)
  PROVE  SplitIsUsed'
<1>0. TypeOK /\ DoorInv /\ BlobInv /\ BoundaryIsUsable /\ IsFiniteSet(starts) /\ Distinct(starts)
  BY DEF SplitInv, BoundInv, StartInv
<1>1. pc[j] = "build" /\ shm = j /\ fd[j] \in open
  BY <1>0 DEF Build, BlobInv, DoorInv, Using
<1> DEFINE here == [b |-> bound[j], text |-> Asks[j].text]
           all == PruneStarts(With(starts, here))
           new == [text |-> Asks[j].text, len |-> bound[j], blob |-> j]
<1>2. /\ store' = store \cup {new} /\ starts' = all /\ resume' = [resume EXCEPT ![j] = ResumeAt(Asks[j], all, store')]
      /\ pc' = [pc EXCEPT ![j] = "filled"] /\ bound' = bound
  BY <1>1 DEF Build, planVars, With
<1>3. Asks[j] \in Prompt /\ Asks[j].text \in {"x", "y"} /\ bound[j] \in Nat /\ Asks[j].n \in Nat
  <2>1. Asks[j] \in Prompt
    BY SplitAssumption
  <2> QED BY <1>0, <2>1 DEF TypeOK, Prompt
<1>4. starts \in SUBSET StartSet /\ Cardinality(starts) <= MaxStarts /\ here \in StartSet
  BY <1>0, <1>3 DEF TypeOK, StartSet
<1>5. /\ here \in all \/ Cardinality(AboveIn(all, here.b)) >= MaxStarts
      /\ \A n \in Nat : Cardinality(AboveIn(starts, n)) >= MaxStarts => Cardinality(AboveIn(all, n)) >= MaxStarts
  <2> HIDE DEF here
  <2> QED BY <1>0, <1>4, BuiltStarts
<1>6. here.b = bound[j] /\ here.text = Asks[j].text /\ new.text = Asks[j].text /\ new.len = bound[j] /\ new.blob = j
  OBVIOUS
<1>7. new \in store' /\ store' \subseteq [text : {"x", "y"}, len : Nat, blob : Jobs \cup {None}]
  BY <1>0, <1>2, <1>3 DEF TypeOK
<1> HIDE DEF here, all, new
<1>8. resume'[j] = ResumeAt(Asks[j], all, store')
  BY <1>0, <1>2 DEF TypeOK
<1>9. resume'[j] >= bound[j] \/ Cardinality(AboveIn(starts', bound[j])) >= MaxStarts
  <2>1. CASE here \in all /\ bound[j] # 0
    <3>1. bound[j] < Asks[j].n
      BY <1>0, <2>1 DEF BoundaryIsUsable
    <3>2. bound[j] \in ChunkStarts(Asks[j], all)
      BY <1>6, <2>1, <3>1 DEF ChunkStarts
    <3>3. ResumeAt(Asks[j], all, store') >= new.len
      BY <1>3, <1>6, <1>7, <3>2, ResumeReaches
    <3> QED BY <1>6, <1>8, <3>3
  <2>2. CASE bound[j] = 0
    <3>1. ResumeAt(Asks[j], all, store') \in Nat
      BY <1>3, <1>7, ResumeType
    <3> QED BY <1>8, <2>2, <3>1
  <2> QED BY <1>2, <1>5, <1>6, <2>1, <2>2
<1>10. ASSUME NEW k \in Jobs, pc'[k] = "filled", NEW x \in store', x.blob = k
       PROVE  resume'[k] >= bound'[k] \/ Cardinality(AboveIn(starts', bound'[k])) >= MaxStarts
  <2>1. CASE k = j
    BY <1>2, <1>9, <2>1
  <2>2. CASE k # j
    <3>1. pc[k] = "filled" /\ resume'[k] = resume[k]
      BY <1>0, <1>2, <1>10, <2>2 DEF TypeOK
    <3>2. x \in store
      BY <1>2, <1>6, <1>10, <2>2
    <3>3. resume[k] >= bound[k] \/ Cardinality(AboveIn(starts, bound[k])) >= MaxStarts
      BY <1>10, <3>1, <3>2 DEF SplitIsUsed, AboveIn
    <3>4. bound[k] \in Nat
      BY <1>0 DEF TypeOK
    <3> QED BY <1>2, <1>5, <3>1, <3>3, <3>4
  <2> QED BY <2>1, <2>2
<1> QED BY <1>10 DEF SplitIsUsed, AboveIn

\* Every step leaves the built handoffs used.
LEMMA UsedStep ==
  ASSUME ~SweepPreempted, SplitInv, SplitIsUsed, [Next]_vars
  PROVE  SplitIsUsed'
<1>0. TypeOK /\ BlobInv
  BY DEF SplitInv
<1>1. ASSUME NEW j \in Jobs, Submit(j) \/ Thread(j) \/ Cancel(j) \/ Expire(j) PROVE SplitIsUsed'
  <2>1. UNCHANGED storeVars
    BY <1>1 DEF Submit, Thread, SweepOne, Decide, BudgetTake, BudgetTimeout, Prefilled, PrefillFails, DoorTake,
                DoorTimeout, Pulled, PullFails, Cancel, Expire
  <2>2. \A k \in Jobs : pc'[k] = "filled" => pc[k] = "filled"
    BY <1>0, <1>1 DEF Submit, Thread, SweepOne, Decide, BudgetTake, BudgetTimeout, Prefilled, PrefillFails, DoorTake,
                DoorTimeout, Pulled, PullFails, Cancel, Expire, TypeOK
  <2>3. \A k \in Jobs : bound'[k] = bound[k] \/ pc[k] # "filled"
    <3>1. CASE Decide(j)
      BY <1>0, <3>1 DEF Decide, TypeOK
    <3>2. CASE ~Decide(j)
      BY <1>1, <3>2 DEF Submit, Thread, SweepOne, BudgetTake, BudgetTimeout, Prefilled, PrefillFails, DoorTake,
                DoorTimeout, Pulled, PullFails, Cancel, Expire, planVars
    <3> QED BY <3>1, <3>2
  <2> QED BY <2>1, <2>2, <2>3 DEF SplitIsUsed, storeVars
<1>2. ASSUME NEW j \in Jobs, StartFill(j) PROVE SplitIsUsed'
  <2>1. CASE j \in pending
    <3>1. pc' = [pc EXCEPT ![j] = "build"] /\ UNCHANGED <<bound, store, starts, resume>>
      BY <1>2, <2>1 DEF StartFill, planVars
    <3>2. \A k \in Jobs : pc'[k] = "filled" => pc[k] = "filled"
      BY <1>0, <3>1 DEF TypeOK
    <3> QED BY <3>1, <3>2, UsedSame
  <2>2. CASE j \notin pending
    BY <1>2, <2>2, UsedFilled DEF StartFill, planVars
  <2> QED BY <2>1, <2>2
<1>3. ASSUME NEW j \in Jobs, BuildFails(j) PROVE SplitIsUsed'
  BY <1>3, UsedFilled DEF BuildFails, planVars
<1>4. CASE Reload \/ UNCHANGED vars
  BY <1>4, UsedSame DEF Reload, vars, planVars, storeVars
<1>5. ASSUME NEW j \in Jobs, Step(j) PROVE SplitIsUsed'
  BY <1>1, <1>2, <1>3, <1>5, UsedBuild DEF Step, Scheduler
<1>6. CASE \E j \in Sweeping : SweepOne(j)
  BY <1>1, <1>6 DEF Sweeping, Thread
<1> QED BY <1>4, <1>5, <1>6 DEF Next

\* A request whose handoff was built computes only what comes after its boundary, unless MaxStarts higher
\* boundaries are remembered (build_phase, prompt_chunks).
THEOREM SplitIsUsedCorrect ==
  ASSUME ~SweepPreempted
  PROVE  Spec => []SplitIsUsed
<1>1. Init => SplitIsUsed
  BY DEF Init, SplitIsUsed
<1>2. SplitInv /\ SplitIsUsed /\ [Next]_vars => SplitIsUsed'
  BY UsedStep
<1> QED BY <1>1, <1>2, SplitInvariant, PTL DEF Spec
=============================================================================
