----------------------------- MODULE CaptureRows -----------------------------
(***************************************************************************)
(* What one layer of a capture holds, row by row: the accumulators of the  *)
(* capture hook (_KVState and _PoolState), the chunked pooling they call   *)
(* (spark/pd_pool_torch.py, pool_layer), the layer file they export, and   *)
(* the rule by which the decode box joins a resumed capture to its parent  *)
(* (studio/kv_return/pd_kv_return.py, merge_prefix).                       *)
(*                                                                         *)
(* A raw row (hidden state, projections of it) depends on its token and on *)
(* all tokens before it.  It is named by a number, and a prompt is the     *)
(* sequence of the numbers of its rows: equal numbers mean equal histories *)
(* (RowsNameHistories).  The two compressors are kept apart by what they   *)
(* read: "c4" (ratio 4, with the window before) and "c128" (ratio 128).    *)
(* A pooled row is the window it sums, the window carried in from before,  *)
(* and the position its rotary embedding is given.                         *)
(***************************************************************************)
EXTENDS Integers, Sequences

CONSTANTS
  NL,       \* decoder layers
  Kind,     \* Kind[li]: "swa" (ratio 0), "c128" (main pool), "c4" (main and indexer pool)
  Block,    \* PD_CAPTURE_BLOCK: rows between two boundaries
  Win,      \* _WIN: rows of the sliding window
  R4, R128, \* the two compress ratios
  TailRaw,  \* _TAIL_RAW: raw rows a pool keeps for its exports
  Keep,     \* _KEEP_EXTRA: rows kept beyond that for a later resume
  Prompts   \* the prompts, as sequences of row numbers

Layers == 0 .. NL - 1
Ratio(kind) == IF kind = "c4" THEN R4 ELSE R128

PoolsOf(li) == CASE Kind[li] = "swa" -> {} [] Kind[li] = "c128" -> {"main"} [] Kind[li] = "c4" -> {"main", "idx"}

ASSUME RowsAssumption ==
  /\ NL \in Nat \ {0} /\ Kind \in [Layers -> {"swa", "c128", "c4"}]
  /\ R4 \in Nat \ {0} /\ R128 \in Nat \ {0}
  /\ Block \in Nat \ {0} /\ Block % R4 = 0 /\ Block % R128 = 0
  /\ Win \in 1 .. Block /\ TailRaw \in Nat /\ TailRaw >= R128 + R4 - 1 /\ TailRaw >= 2 * R4 - 1
  /\ Keep \in Nat
  /\ \A p \in Prompts : p \in Seq(Nat) /\ p # <<>>

ASSUME RowsNameHistories ==
  \A p, r \in Prompts : \A i \in DOMAIN p \cap DOMAIN r : p[i] = r[i] => SubSeq(p, 1, i) = SubSeq(r, 1, i)

-----------------------------------------------------------------------------
(* Slices and boundaries *)

\* Python's s[a:b], in which a negative index counts from the end, and s[-n:] for 0 < n
Index(i, n) == CASE i < 0 /\ i + n < 0 -> 0 [] i < 0 /\ i + n >= 0 -> i + n [] i >= 0 /\ i < n -> i [] OTHER -> n
Slice(s, a, b) == SubSeq(s, Index(a, Len(s)) + 1, Index(b, Len(s)))
LastRows(s, n) == IF Len(s) <= n THEN s ELSE SubSeq(s, Len(s) - n + 1, Len(s))

\* _boundaries: the multiples of Block in (lo, hi]
Boundaries(lo, hi) == {b \in lo + 1 .. hi : b % Block = 0}

\* f with the entries of g put over it, as a dict's update
Updated(f, g) == [x \in DOMAIN f \cup DOMAIN g |-> IF x \in DOMAIN g THEN g[x] ELSE f[x]]
Without(f, x) == [y \in DOMAIN f \ {x} |-> f[y]]
Empty == [x \in {} |-> <<>>]

-----------------------------------------------------------------------------
(* _KVState: the last window of raw rows, and a snapshot of it at every boundary *)

NewKv == [tail |-> <<>>, snaps |-> Empty, next |-> 0, gaps |-> FALSE]

\* seed: continue at S from rows that end exactly there
SeedKv(rows, S) == [NewKv EXCEPT !.tail = LastRows(rows, Win + Keep), !.next = S]

\* feed: base is the position of the first row at hand, as far as the code can tell
KvFeed(st, rows, start) ==
  LET full == st.tail \o rows
      base == start - Len(st.tail)
      stop == start + Len(rows)
      From(b) == IF b - Win >= base THEN b - Win ELSE base
  IN  [tail |-> LastRows(full, Win + Keep),
       snaps |-> Updated(st.snaps, [b \in Boundaries(start, stop) |-> Slice(full, From(b) - base, b - base)]),
       next |-> stop, gaps |-> st.gaps \/ start # st.next]

-----------------------------------------------------------------------------
(* _PoolState and pool_layer *)

\* new_carry: no remainder, no window before, nothing processed
NewCarry == [buf |-> <<>>, prev |-> <<>>, processed |-> 0]

NewPool == [tail |-> <<>>, prev |-> Empty, pooled |-> <<>>, shipped |-> 0, carry |-> NewCarry, next |-> 0]

\* one pooled row: the window, the window before it if the compressor overlaps, and its position
PooledRow(pos, before, window) == [pos |-> pos, before |-> before, window |-> window]

\* pool_layer: the complete windows of buffered and new rows, and the carry for the next call
PoolLayer(kind, carry, x, start) ==
  LET r == Ratio(kind)
      all == carry.buf \o x
      w == Len(all) \div r
      window(i) == Slice(all, (i - 1) * r, i * r)
      before(i) == IF kind = "c128" THEN <<>> ELSE IF i = 1 THEN carry.prev ELSE window(i - 1)
      base == (start - Len(carry.buf)) \div r
  IN  [rows |-> [i \in 1 .. w |-> PooledRow(base + i - 1, before(i), window(i))],
       carry |-> [buf |-> Slice(all, w * r, Len(all)),
                  prev |-> IF kind = "c4" /\ w > 0 THEN window(w) ELSE carry.prev,
                  processed |-> start + Len(x)]]

\* feed: pool_layer asserts that the carry ends where the chunk starts
PoolAccepts(st, start) == st.carry.processed = start

PoolFeed(kind, st, x, start) ==
  LET full == st.tail \o x
      base == start - Len(st.tail)
      stop == start + Len(x)
      new == PoolLayer(kind, st.carry, x, start)
      bounds == IF kind = "c4" THEN {b \in Boundaries(start, stop) : b - R4 >= base} ELSE {}
  IN  [tail |-> LastRows(full, TailRaw + Keep),
       prev |-> Updated(st.prev, [b \in bounds |-> Slice(full, b - R4 - base, b - base)]),
       pooled |-> st.pooled \o new.rows,
       shipped |-> st.shipped, carry |-> new.carry, next |-> stop]

\* feed when pool_layer refuses the rows: those before each boundary are kept already
PoolRefuses(kind, st, x, start) == [st EXCEPT !.prev = PoolFeed(kind, st, x, start).prev]

\* seed without saved rows: only keeps pool_layer's assertion true
SeedPoolBlank(S) == [NewPool EXCEPT !.carry.processed = S, !.next = S]

\* defect: only the remainder is rebuilt
SeedPoolNoPrev(kind, rows, S) ==
  LET rem == S % Ratio(kind)
      n == Len(rows)
  IN  [NewPool EXCEPT !.tail = LastRows(rows, TailRaw + Keep), !.next = S,
                      !.carry = [buf |-> Slice(rows, n - rem, n), prev |-> <<>>, processed |-> S]]

\* seed: the carry as of S, rebuilt from raw rows that end there
SeedPool(kind, rows, S) ==
  LET rem == S % Ratio(kind)
      n == Len(rows)
      prev == IF kind = "c4" /\ S - rem >= R4 THEN Slice(rows, n - rem - R4, n - rem) ELSE <<>>
  IN  [NewPool EXCEPT !.tail = LastRows(rows, TailRaw + Keep), !.next = S,
                      !.carry = [buf |-> Slice(rows, n - rem, n), prev |-> prev, processed |-> S]]

PooledRows(st) == st.shipped + Len(st.pooled)

\* take_pooled: rows [shipped, upto) leave the state (_emit_segment has checked that they exist)
TakePooled(st, upto) ==
  [rows |-> Slice(st.pooled, 0, upto - st.shipped),
   rest |-> [st EXCEPT !.pooled = Slice(@, upto - st.shipped, Len(@)), !.shipped = upto]]

-----------------------------------------------------------------------------
(* The layer file that _finish writes, with T the end of the capture *)

KvExport(st) == [win |-> st.snaps, end |-> LastRows(st.tail, Win)]

\* kept: what follows the last segment goes out under the name *_pooled_tail
PoolExport(kind, st, T, tailKey) ==
  LET rem == T % Ratio(kind)
      n == Len(st.tail)
      end == IF kind = "c4" /\ n >= rem + R4 THEN Slice(st.tail, n - rem - R4, n - rem) ELSE <<>>
  IN  [pooled |-> st.pooled, tailKey |-> tailKey, prev |-> st.prev,
       buf |-> IF n >= rem THEN Slice(st.tail, n - rem, n) ELSE st.tail, end |-> end]

-----------------------------------------------------------------------------
(* merge_prefix: a capture resumed at S is made whole with its parent's file *)

MergeKv(par, new, S) ==
  [win |-> Updated([b \in {b \in DOMAIN par.win : b <= S} |-> par.win[b]],
                   [b \in {b \in DOMAIN new.win : b > S} |-> new.win[b]]),
   end |-> new.end]

\* defect: the pooled row whose window S cuts is taken from both
MergePoolTwice(kind, par, new, S) ==
  [pooled |-> Slice(par.pooled, 0, (S + Ratio(kind) - 1) \div Ratio(kind)) \o new.pooled,
   tailKey |-> new.tailKey,
   prev |-> Updated([b \in {b \in DOMAIN par.prev : b <= S} |-> par.prev[b]],
                    [b \in {b \in DOMAIN new.prev : b > S} |-> new.prev[b]]),
   buf |-> new.buf, end |-> new.end]

MergePool(kind, par, new, S) ==
  [pooled |-> Slice(par.pooled, 0, S \div Ratio(kind)) \o new.pooled,
   tailKey |-> new.tailKey,
   prev |-> Updated([b \in {b \in DOMAIN par.prev : b <= S} |-> par.prev[b]],
                    [b \in {b \in DOMAIN new.prev : b > S} |-> new.prev[b]]),
   buf |-> new.buf, end |-> new.end]

-----------------------------------------------------------------------------
(* What the decoder itself would hold for prompt p, computed in one go *)

TrueWindow(p, b) == Slice(p, IF b >= Win THEN b - Win ELSE 0, b)

TruePooled(kind, p, n) ==
  LET r == Ratio(kind)
      window(i) == Slice(p, (i - 1) * r, i * r)
  IN  [i \in 1 .. n |-> PooledRow(i - 1, IF kind = "c4" /\ i > 1 THEN window(i - 1) ELSE <<>>, window(i))]

TruePrev(kind, p, b) == IF kind = "c4" THEN Slice(p, b - R4, b) ELSE <<>>

=============================================================================
