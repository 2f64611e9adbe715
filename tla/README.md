# TLA+ models of pd-bridge

pd-bridge splits one LLM request over two kinds of machine: a fast *prefill*
box (NVIDIA Spark, vLLM) computes the prompt's state, and a *decode* box (Mac,
oMLX) continues from it. This directory holds TLA+ models of the protocols
between them, the TLC configurations that check them, and proofs checked by
TLAPS. Everything is translated from the source files named beside each
definition in `PROJECT.json` ("map").

    tlc -workers 2 -config hook_safety.cfg MCPooledBridge   # one run
    tlapm PooledBridgeProofs.tla                            # proofs
    tlapm DeliveryProofs.tla
    tlc -workers 2 -config kv_stream.cfg KvStream
    tlapm KvStreamProofs.tla
    tlc -workers 2 -config studio.cfg MCStudio
    tlc -workers 2 -config glm.cfg MCTfSplit
    tlapm KvDoorProofs.tla
    tlapm RowBridgeProofs.tla
    tlapm TfSplitProofs.tla
    tlapm NatLemmas.tla                                     # lemmas of the others
    tlapm RowLemmas.tla

## 1. Inventory

| component | source | state | operations |
|---|---|---|---|
| **Capture hook** | `spark/capture_sitecustomize_v3.py`, and `capture_sitecustomize_v3.kvreturn.py`, which adds streaming, KV return, pruning and a memory guard | queue `q`, open request `req` with accumulators per layer, `last_ev`, capture directories, the FLUSH_NOW file | `record` (forward thread, once per layer and chunk), `ingest`, `_finish`, `_abort`, prune (worker), `_flush_decision`, sentinel (watcher) |
| **Front door, pooled mode** | `studio/pd_front.py` 278-380 | `before`, `seen`, `chosen`, engine thread | submit, scan, choose, signal, grace, salvage, pull |
| **Block assembler** | `studio/pd_assemble_blocks.py` | none (pure, then writes) | longest run of good boundaries is written |
| **Prefill engine** | vLLM, external; `spark/pd-launch-v3.sh` | one running prompt (`--max-num-seqs 1`) | chunked forward, return |
| **Front door, bridge queue and HTTP** | `pd_front.py` 726-790 | `_BRIDGE_Q`, one main thread, handler threads | `bridge_via_main` with a timeout |
| **Front door, kv and kv_stream modes** | `pd_front.py` 540-686 | the tag it waits for | wait for DONE, pull, assemble, drain, or count what has landed |
| **Streaming capture** | hook 1075-1193, `pd_front.py` 382-508 | emitted boundary, STREAM_NEXT marker, the front's next segment | emit segment, final segments, pull segment, fall back to one shot |
| **KV return** | hook 811-892, `studio/kv_return/` | saved end states, seeded rows, the parent the front kept | save, resume, push the state back, merge, remember |
| **KV connector** | `spark/pd_kv_connector.py` | captures by tag, bounded send queue (32), sender thread, one RDMA handle | ingest, cut blocks, send, finish, reconnect |
| **RDMA transport and receiver** | `rdma/pd_rdma.c`, `pd_rdma_tx.c` | arena, pool of 4 buffers, ring of jobs, `busy`, `failed` | BLK, OBLK, FILE, DONE, background write, drain |
| **Compressor pooling** | `spark/pd_pool_torch.py` | carry `processed`, overlap rows | `pool_layer` per chunk |
| Capture share | `spark/pd_share.py`, `pd_capture_http.py` | none | list, read, touch FLUSH_NOW |
| **Block writer, KV assembler** | `studio/omlx_block_writer.py`, `pd_assemble_kv.py`, `spark/pd_omlx_block.py` | chain hashes, blocks given to the SSD manager | store a boundary, finalize, drain, load, assemble |
| **oMLX hooks** | `studio/pd_omlx_hooks.py` | staged entries by last hash, their buffers | announce, fill, wait, hand over, fall back to files, install a tail |
| **GLM split** | `glm53-flash-split/tf_split.py` | door lock, `PENDING`, budget, marker file, chunk starts | sweep, plan, reserve, prefill, pull, build, reload |
| FlashPP | `flashpp/` | layer stage caches | lock-step pipeline |
| Fabric and ring | `fabric/` | marker files, sockets | file movers, ring front |
| Scripts, benches, verifiers | `spark/*.sh`, `bench/`, `studio/verify_*` | none | offline |

How they interact. The front posts a prompt to the engine over HTTP; the engine
calls the hook's patched attention once per layer and chunk; the hook's worker
writes one directory per capture and `DONE` last; the front polls a listing of
those directories through the share. The front never talks to the hook: the
only messages in that direction are the modification times of two files, FLUSH_NOW and
STREAM_NEXT, and with KV return the states it pushes back.
In the kv modes the connector pushes blocks over RDMA to the receiver, which
lands them as files the decoder finds; the front polls for the tag's DONE. Inside the decoder
the oMLX hooks read those files ahead of the request that will want them. The GLM split
stands apart: its request threads share one RDMA door, one shared memory and one prompt store
with the scheduler's thread of the same process.

What is hard. Three threads of the hook share one request and one queue and
release the lock between a decision and its effect; the request boundary is
*inferred* from positions; exceptions in the worker are swallowed; a signal
carries a time and no identity; captures are pruned while a front may want
them; clients give up while the engine goes on. In the kv modes: a bounded
queue in front of a shared handle that is replaced when it fails, and
background writes acknowledged before they have landed.

What makes each part correct:

- *hook*: a capture that claims a usable prefix holds one prompt only, all of
  it up to its T; a demand cuts the request it was meant for, and no earlier
  than its end; what was opened is closed.
- *front and assembler*: what is stored under a prompt's hashes was computed
  from that prompt and is whole; every bridge ends, in a store or a decline.
- *connector and receiver*: DONE says `complete` only when every block of the
  tag has landed; DONE is after its blocks; each pool buffer is in one place;
  no one waits for ever.
- *streaming*: a segment holds every layer, and what is shipped and what is kept are together what
  was fed.
- *KV return*: a capture that was resumed and merged equals the one computed from zero; rows of another
  prompt are never merged.
- *bridge queue*: a client is answered whatever the main thread does; the main thread comes back from each job.
- *decoder's cache*: a block file holds the rows its hash stands for; a restored request decodes
  from its own rows; "complete" means that every block is there.
- *GLM split*: one holder of the door, in-flight handoffs within the budget, the door is free
  again after every outcome, and no request is left waiting.
- *pooling*: chunked equals one-shot.

## 2. Modules

| module | what it is |
|---|---|
| `CaptureHook` | the hook: state, one action per step of the forward thread, GPU, worker and watcher |
| `PooledBridge` | EXTENDS `CaptureHook`; the engine and the front door around it, the specification and all properties |
| `MCPooledBridge` | layer kinds and prompt identities for TLC |
| `PooledBridgeProofs` | EXTENDS `PooledBridge`; type correctness, flush on demand, and that no capture blends two prompts |
| `DeliveryProofs` | EXTENDS `PooledBridgeProofs`; what the front stores, what a flush on demand publishes |
| `BlockReceiver` | `pd_rdma recvd`: control thread, buffer pool, ring, writer thread |
| `KvConnector` | EXTENDS `BlockReceiver`; forward thread and sender thread of the KV connector, the specification of the two boxes together |
| `CaptureLanding` | abstract specification: what the kv_stream front relies on |
| `KvStream` | EXTENDS `KvConnector`; its properties, fairness, and the refinement of `CaptureLanding` |
| `KvStreamProofs` | EXTENDS `KvStream`; types, whole files, conservation of the pool, the refinement of `CaptureLanding` |
| `CaptureRows` | what the hook does to rows: windows, pooling with carries, seeds, exports, merging, as operators; and the one-shot definition they are compared with |
| `RowHook` | EXTENDS `CaptureRows`; the KV-return hook with its data: streaming, resuming, saving, publishing, pruning |
| `RowBridge` | EXTENDS `RowHook`; the engine with its prefix cache, the one-shot and the streaming front, the KV return, the block assembler: a conversation |
| `KvDoor` | the front door in kv mode with its queue, handlers and four transports, the block writer, and the hooks inside the decoder |
| `Studio` | EXTENDS `RowBridge` and `KvDoor`; the decode box in either mode |
| `TfSplit` | the GLM split |
| `NatLemmas` | lemmas: the least and the greatest element of a set of naturals; sums over finite sets |
| `RowLemmas` | EXTENDS `RowHook`, `NatLemmas`; what the hook computes with rows: chunks, seeds, segments, layer files, merges |
| `RowBridgeProofs` | EXTENDS `RowBridge`, `RowLemmas`; types, segments, stored blocks and kept parents of a conversation |
| `KvDoorProofs` | EXTENDS `KvDoor`; what a client is told is so; block files, restored caches, types |
| `TfSplitProofs` | EXTENDS `TfSplit`; types, one holder of the door, stored prefixes, boundaries, budget, starts |
| `MCRowBridge`, `MCStudio`, `MCTfSplit` | prompts, layers and jobs for TLC |

### Atomicity

One action is one critical section of the hook's lock, or one effect outside of
it. `WorkerGet` is `q.get()`; `WorkerIngest` is a whole `ingest`, its
trailing memory guard and the close of the previous request included;
`WorkerFlush` is a sentinel. The watcher has four steps because the code has four:
`stat` before the lock, the decision under it, `unlink` and `put` after it.
`record` is one action per layer; the GPU completes events in stream order.

On the receiver (`BlockReceiver`) one action is one critical section of the writer's mutex
(`RecvTake`, `RecvQueue`, `WriterTake`, `WriterReturn`), the `memcpy` outside of it (`RecvCopy`), or
the writing of one file. Reading a command (`RecvRead`) and serving it are apart, so that
the connection can break in between. `WriterWrite` writes and sets `failed` on failure at once: the code sets it in the critical section
that returns the buffer (286-291), and a drain waits for both. On the connector one action is one `put`, one `get`, one
send, one answer. `CutBlock` tests `error` (551) and puts (573) at once: the sender tests `error` again. `SenderSend` is the RDMA write *and* the command behind it: nobody reads the
arena between the two.

In `RowHook` one action is one `ingest` (the queue, the watcher's four steps and the lag between engine and
worker are `CaptureHook`'s subject), or one close. A pool that `pool_layer` refuses has kept the rows before
each boundary all the same (`PoolRefuses`). In `RowBridge` a poll of the front is one
action, and so is `_pull_and_assemble`: what it reads is finished and does not change. In `KvDoor` one
action is a put, a get, one answer, one poll, one file that is read, written or committed. In `TfSplit` it is
one step between two points where another thread can take the lock it needs: a wait, a `flock`, a network call,
one entry of the sweep.

### What a state stands for

- `rec`, `ran`: number of events recorded and completed; `last_ev.query()` is
  `ran = rec`.
- `q`, `hand`: the queue, and the entry the worker has taken and not finished.
- `caps[i]`: the i-th capture directory with the `_Req` that fills it. `fed[li]` is the
  sequence of blocks of window rows the layer took (so `next_pos` and the gap list
  are read off it), `main[li]` and `idx[li]` how far the two pooled carries got.
- `signal`: the modification time of FLUSH_NOW; `clock` advances when a file is
  touched or a request opened, which is when the code reads the time in a way
  that matters.
- `stored`: what `assemble_and_write` has put in the decoder's cache: prompt,
  capture it came from, number of blocks.

In the kv modules:

- `arena`, `buf[b]`, `disk[f]` hold the *name of the file* the bytes were sent for, so a file that
  holds another file's bytes is one with `disk[f] # f`.
- `caps` is every `_Capture` ever opened, `cur` is `_caps`, `pos[t]` the scheduler's
  `num_computed_tokens`; `fpc` and `chunk` are where the forward thread is in `wait_for_save`.
- `hand` is the sender's item until `task_done`, `spc` which of its files it is sending;
  `waiting` says it waits for `OK` or `ERR`.
- `tx` is `_tx`; `"dead"` is a handle whose `dead` flag is set and that is still held. `link` is the TCP
  connection: `"cut"` when it is gone and the receiver has not noticed.

In `RowBridge`: a prompt is the sequence of its rows, each a number; a window is a sequence of rows; a pooled row is
the tuple of the rows it sums, so a row computed from a wrong window is another value. `disk[i]` is the
i-th capture directory, `copies` the states pushed back to the pair, `kept` is `_kvr_last`, `run` the prompt in
the engine and the layer it is at. A field `of`, which names the true prompt, is in `req`, `disk` and `kept` for the properties: actions carry
it along (`Onto`) and no guard reads it.

In `KvDoor`: a row's number stands for its token and all tokens before it, so equal rows are equal
prefixes, and a chain hash is the prefix that ends with its page. `box[i]` is what the main thread has told a
handler, `cap[i]` the job's capture on the share, `ssd` the block files, `writing` those the SSD manager has
and has not committed, `stage`, `staged` the oMLX hooks, `dec` the request the decoder prepares.

In `TfSplit`: `fd` is the descriptor a thread or its pending entry holds, `door` the one that has the lock, `shm` whose
blobs are in the daemon's shared memory.

### Abstractions

Prompts are whole chunks, and positions count chunks. The engine's chunk is 8192
tokens (`pd-launch-v3.sh` line 78) and a cache block 2048 (`PD_CAPTURE_BLOCK`): a
chunk is fed in one ingest per layer and ends on a block boundary, so its four
blocks share their fate and are one block of the model. The rows after the last
full block, which are never stored, are left out.
A tensor is named by the prompt and block it was computed from. Layers are of
three kinds: window only, window and main pool, window and both pools. JSON,
hashes, statistics and logging are left out. The trace fields of a manifest
that the front does not read are left out. `Scanned` also has captures that were pruned before a scan could see them:
choosing one is a decline, where the code would go on to the next. With pruned captures never seen, the other extreme, `hook_clients` and `hook_live` pass as well.

Not in the model: a restart of the hook's process (it keeps nothing; a directory
without DONE equals state `lost`), the one-shot `stream` field of a
manifest, and a capture root shared by two hooks.

In the kv modules positions count the decoder's blocks (256 tokens), and a step computes one or more
of them; the rows after the last full block come with the last chunk, and `HasTail` says
whether there is more than one of them. A block file is named by its tag and index: files
named by their chain hash can only coincide between prompts with the same tokens, whose bytes
are the same. A failed write, a connection that breaks or is refused, and a step
without all its layers share the bound `MaxFaults`. A dead handle found by `_tx_get` (lines 422-423)
has no action: `TypeOK`, which is proved, says that a dead handle is held only while the sender
works on an item, and `_tx_get` has waited for it. Left out: malformed commands and sizes,
the synchronous modes (`PD_RDMA_ASYNC_WRITES=0`, `rdma_async` off), shutdown, and the local files of a capture that
found no connection (its `end` is `"file"`). The engine asks for one token (`pd_front.py`
633), so a request is not preempted after its prompt.

In the row modules a block is 4 rows (2048 in the deployment), a window 3, the two pooling ratios 2 and 4 (4 and 128), and a prefill
chunk 5 rows, or 3: it divides neither a block nor a group, and it crosses a boundary in the middle of both. All the
arithmetic of `_KVState`, `_PoolState`, `pool_layer` and `merge_prefix` is kept; the floating point of a row is not.
A request arrives layer by layer; the engine resumes at an aligned hit of its prefix cache, or at all but the last token.
The bound `MaxFaults` is shared by everything that can go wrong: low memory at the guard, a segment that cannot be written, an engine that
fails, an idle close in a running prefill, a marker that grows old, a block that cannot be stored, a drain that does not end.
`Finished` can always write its last segments: a failure there (1233) ends in an error that the front declines, as one in an earlier segment does,
which is in the model. Left out: an abort for lack of disk, `_MIN_ABORT_BYTES` (any low-memory look may seal), a saved state that cannot be
written or read (the code falls back to a partial capture), acknowledgements of segments (the front sends none). The deadline of the
streaming front while the engine still runs is only in its first loop. Turns are taken alone (`Alone`): other
clients come between two turns, since what they do during one is `CaptureHook`'s and `PooledBridge`'s subject.
`StreamAssembler`, which `pd_front.py` 389 imports from `pd_assemble_blocks`, is not in the repository: as committed, a front with `PD_STREAM=1` declines each
prompt with an ImportError. It is modelled as what its caller and the docstring of `_emit_segment` need of it, and marked external.

In `KvDoor` every timer is free (the handler's `PD_LONG_TIMEOUT`, the stage's 600 s, the restore's 15 s, the
grace, the drain). The decoder's scheduler prepares one request at a time. Block files are not evicted. The pair is seen from
the door: blocks in order, a manifest, DONE, any of which may fail to come or come short. The connector goes on when the door's engine call has
timed out (`Sends`): its native blocks land after the door has declined. A tail may be announced and not there (`Landed`), a request may not render
(`Takes`). What a restored request takes over from a stage is a copy (`TakesStage`): while the filling thread runs it holds the same arrays, so MLX cannot donate their buffers,
the request's first append copies them, and a late copy of the thread goes to pages after the matched ones, in its own arrays. Left out: a body that is not JSON, or a decoder that is down (the handler
raises, in the first case at 738 where `t` has no value, and its client gets no reply), a stage that cannot be allocated, the decoder's index of its files.

In `TfSplit` time is what it allows: a wait may run out, a pending handoff may grow older than 600 s. The prompt store, the scheduler and
the resumed fill are TensorFold's, external. The door's lock is a `flock`, which another process may hold: from here that is a wait that runs out (`DoorTimeout` needs
no holder among the handoffs). `BudgetTake` reserves and writes the marker in one step: between `_budget_take` (396) and the `try` (418) an exception, as from a `big_handoff_tokens` that is no
number (401), would leave the reservation for ever; a config with such a value is left out. `SweepPreempted = FALSE`: `_sweep` has no call that blocks between reading an entry and
unlocking it, so two sweeps of the same entry meet only if the interpreter switches threads inside of it.

One map entry may have two possible sources, because the base hook is word for word the KV-return hook without its additions. `CaptureHook`'s
entries name the base hook where the lines are in both, and the KV-return hook for what only that one has (the guard, pruning, the
abort), for `record`, and for the watcher's atomic steps; `RowHook`'s entries name the KV-return hook.

## 3. Runs

### Pooled mode

Constants: 2 layers (one window only, one with pools), prompts of 1 or 2
blocks (3 in `v_pool`), 2 prompts. Two prompts are what it takes for one to
cut, absorb or be taken for another; two blocks are what it takes for a fragment
that starts in mid-prompt; two layers are what it takes for one to be ahead.
`GuardEvery = 3` with 2 layers reproduces 64 with 43: the guard's turn comes in
the middle of a chunk. `MinSeal = 2`: a capture is sealed only when its furthest
layer is at block 2 or beyond (0.5 GiB at 9876 bytes per token are 54,361 tokens, more than six of the engine's
chunks). `MaxFaults` bounds swallowed exceptions, at every place
where one can be raised.

| run | checks | shows |
|---|---|---|
| `hook_safety` | `TypeOK UsableIsPure StoredIsPure FlushNowIsWhole DemandMeansReturned` | a hook that keeps up, memory pressure, one fault of any kind: 612,804 states |
| `hook_clients` | `UsableIsPure StoredIsWhole` | other clients, a front that gives up early, a hook that lags without limit, two directories kept: 1,081,208 states |
| `hook_live` | `OpenIsClosed FrontAnswers` | liveness under fair threads and timers, with other clients and one directory kept: a burst prunes what the front has chosen, and its pull is declined; 114,676 states |
| `v_signal` | `SignalIsNotLost`, violated | finding 1 |
| `v_seal` | `SealedPrefixIsWhole`, violated | finding 2 |
| `v_pool` | `StoredIsWhole`, violated | finding 3 |

Deadlock is checked in all of them and does not occur: the front may always
post another prompt until `MaxReq` is reached, and the watcher always polls.

The switches of the environment. `PromptHook` says that no layer runs between a
flush decision and its sentinel and that 45 s of grace outlast the worker's
backlog. The hook does not guarantee either; it is what the deployment's timing
gives, and the run without it (`hook_clients`) checks what does not depend
on it. `Direct` lets other clients use the engine, `Deadline` lets the front give up
before its call returns, `MidRequestIdle` lets the idle window elapse in a
running prefill, `MemPressure` lets the guard find memory below the floor. `MidRequestIdle` is `FALSE` in all runs; with it, and `MaxFaults = 0`,
the invariants of `hook_safety` can be checked in 474,652 states; with other clients
as well (`hook_clients`) there are more than 12 million. For the idle window in mid-prompt the argument is the proof (`PurityCorrect`).

Where the properties stop. They were also tried with the switches combined, and
some combinations break them; these are outside of what the code says of itself,
so they are not recorded as findings:

- `StoredIsPure` needs `Direct = FALSE`: a capture of another client's prompt of
  the same length is new, complete and taken (`pd_front.py` line 311 compares
  lengths, not content). For the same reason it needs `Deadline = FALSE` and `PromptHook`: the capture of a prompt
  the front has given up is new when it waits for the next one.
- `UsableIsPure` with `MidRequestIdle = TRUE` and `MaxFaults = 1` fails: a fragment
  whose only ingest raised has `calls = 0`, so the next prompt is not recognised
  as new and is fed into it (line 710).
- `FlushNowIsWhole` needs `Direct = FALSE` and `PromptHook`: a sentinel decided for one prompt and put late
  may cut the next one.
- `OpenIsClosed` needs `MidRequestIdle = FALSE`: a request of which the hook has seen only layer 0 counts as aligned
  (`nl` is read off the layers seen so far, line 1041), the idle backstop may close it there, and what follows is a capture whose count of
  ingests is never again a multiple of the layers: neither a demand nor the backstop closes it, only the next prompt does.

### KV modes

Constants: 2 tags, 2 blocks each, a pool of 2 and a send queue of 1 (2 in the violations), at most one preemption, one
failure. Two tags are what it takes for an answer to reach the wrong capture; a second
block is what it takes for one to be lost behind an acknowledged one; a pool of 2 is
the smallest in which a buffer is filled while another is written and the ring wraps; in a queue
of 1 every thread has to wait for every other.

| run | checks | shows |
|---|---|---|
| `kv_stream` | `TypeOK WholeFiles PoolConserved LandsInOrder ForwardReturns CaptureEnds` | two requests at once, one with native blocks: nothing is lost, shared or out of order, and nobody waits for ever: 365,188 states |
| `v_done` | `DoneIsWhole`, violated | finding 4 |
| `v_tail` | `TailIsOptional`, violated | finding 5 |

`LandsInOrder` is `Landing!Spec`: the composition implements `CaptureLanding` with `landed` mapped to
the names in `disk`. Each step is a file that lands, a DONE, or a stutter; a tail and a
manifest never land before a block, DONE never before the manifest, and `complete` only
when every block is there. The run has two captures that overlap, one of them with native blocks: there it holds. When both have native
blocks it does not, and that is finding 4. When captures do not overlap (`Overlap = FALSE`) it is proved. Deadlock is not checked: when the requests have been served the system stops.

### Decode box

`studio` (`MCStudio`) has both modes of the front as initial choices, 283,860 states. In pooled mode it is a conversation
of three turns of 5, 9 and 13 rows over three layers (one of each kind): a prompt
of 5 rows has one block and a row to spare, and the third turn is what it takes to merge a capture that is itself merged. Each turn
comes through either front; a stranger's prompt may be prefilled between two turns; one thing may fail. One capture directory is kept, so the
parent is gone from the pair when it is needed and has to be pushed back. In kv mode two clients ask for a prompt of 4 rows and one that
continues it to 8, with pages of 3 rows: the second request needs what the first one left, or a stage the other job announced, and
neither prompt ends at a page. `rdma`, `rdma2` and `rdma4` are all of the transports' control flow.

| property | says |
|---|---|
| `BlocksAreTrue` | a stored block is what the decoder would hold itself, whichever way the capture came |
| `KeptIsWhole` | a capture merged over several turns is the one-shot capture of its prompt |
| `NothingIsLost` | segments hold every layer, and with what is still held they are what was fed |
| `TurnIsAnswered` | both fronts come to an end |
| `FilesAreTrue` | a block file holds what its hash stands for, also after missing files, failing drains, and restored prefixes that the decoder goes on from |
| `PreparedIsOwn` | the cache a request decodes from is its own prompt's |
| `VerdictIsTrue` | "complete" means that every block is there |
| `ClientsAreAnswered`, `BridgeReturns` | a client is answered even if the main thread hangs; the main thread hangs only in the `pd_rdma` client, which is read without a timeout |

`v_parent` checks `BlocksAreTrue` with the stranger's prompt bridged as a turn of its own, and finds it violated: finding 6.
With chunks of 3 rows `studio` was checked as well, with the same result.

### GLM split

`glm` (`MCTfSplit`), 305,960 states: three prompts, one a prefix of another, with and without message starts, so that the last
message's start, the whole history, and the cap on a handoff each decide a boundary; a capacity that two handoffs together exceed; two remembered
starts, so that one is forgotten. `OneDoor`: the door is locked by the one handoff that needs the shared memory, and by
nobody when none does. `BudgetExact`: reservations are neither leaked nor given back twice. `PairNotOverfull`: what is in flight fits
together into one of the capacities the pair was configured with (the config is read anew by each request), or is alone there. `StoreIsOwn`: what is stored
was built from a handoff of exactly its own tokens. `SplitIsUsed` states what `prompt_chunks` guarantees, with its limit: it keeps the
64 *largest* boundaries of all prompts together, so a new small one is forgotten at once. `EveryJobIsFilled`: a request is never left waiting.

With `SweepPreempted = TRUE` `OneDoor` fails: two submissions sweep the same cancelled handoff, the second `_door_unlock` closes a
descriptor number that has meanwhile been given to another handoff (tf_split.py 330-333 reads the entries before it pops them). Three more things a reader should
know: the docstring at 338 says that the sum of what is in flight stays within the capacity, but a handoff larger than it is let in alone, and `PairNotOverfull` says so; the marker file is removed by the first of two big handoffs while the other is in flight (403, 443), and
a cancelled handoff keeps the door until the next submission sweeps it.

### Fairness

The connector's `FairSpec` (`KvStream`) assumes weak fairness of the forward thread inside
`wait_for_save`, of the sender, of the receiver's control thread and of its writer. Each is a
thread that runs whenever it can (the sender catches every exception inside its loop). Nothing is
assumed of requests, preemptions, aborts or failures. A connection that breaks is noticed
by both ends; no read has a timeout, so a peer that neither answers nor closes would hang the
sender, and this is outside of the model.

`StudioSpec` assumes: the engine and the worker go on as long as there is a prompt (`PairGoesOn`, weak fairness of `Work` and
`EngineTakes` with the state in which they are enabled written out, which is cheaper for TLC than evaluating it), and the polls of the front,
which are loops with a deadline. In kv mode: handler threads, the main thread, the SSD manager's thread, the decoder's scheduler, and that the engine's call ends, as it has
a timeout. Nothing obliges the connector to commit, the watcher to flush, or a client to come. Each fairness condition is weak.

`TfSplit`'s `FairSpec`: each request's thread and the scheduler go on, every wait has a timeout.

The hook's `FairSpec` (`PooledBridge`) assumes weak fairness of the GPU, the worker, the watcher (daemon
threads in an endless loop, each exception caught inside the loop), the idle
timer, the engine (a prompt that was posted is run to the end), and of the front's steps
(a loop with a deadline). No fairness is assumed of prompts arriving, of
`FrontGivesUp`, or of any fault. Each fairness conjunct is weak: none of the steps
waits for something that comes and goes for ever.

### Findings

1. **A signal that is discarded although it is meant for the open request**
   (`v_signal`). `first_t` is the time at which the worker opened the request. When the
   worker lags, the front's engine call has returned and FLUSH_NOW is already
   touched; the watcher then judges it stale. The docstring says such a file is
   "provably stale" and that "nothing is lost". The idle backstop ends the
   wait (`hook_live` shows it does), at the cost of the idle window.
2. **A seal in the middle of a chunk** (`v_seal`). The guard counts ingests, not chunks, so
   the layers already fed by the current chunk give a T the others do not reach.
   The comment at the guard says everything captured is a valid prefix.
   `assemble_and_write` notices the missing keys and stores less, which is why
   `StoredIsWhole` still holds in `hook_clients`.
3. **Blocks with pooled rows missing** (`v_pool`). After one swallowed pooling exception
   the window rows go on and the pool stops; the gap list covers only the
   window rows, `pooled[:b//r]` is short without an error, and the block is stored.

4. **DONE says complete although a block is missing** (`v_done`). `docs/RDMA.md` 67-69 says DONE lands
   after every block and a failed background write comes back as ERR on the next command. With two
   tagged requests in the engine (`pd-launch-kv.sh` does not bound the sequences), the next command may
   be the *other* capture's: that one fails and closes the handle, the end of the connection clears
   `failed`, the handle is opened again by the next capture, and the capture whose block was lost goes on
   with it to DONE `complete`. The rdma4 front verifies the block files
   (`pd_front.py` 660), so nothing wrong is served.
5. **A failed tail costs the capture** (`v_tail`). `_finish_rdma` means to go on without its tail, but `tx_ok`
   has marked the handle dead, so the manifest and DONE cannot be sent, and the front waits for its
   grace to end although every block has landed.
6. **Another prompt's rows are merged** (`v_parent`). The hook resumes from the newest saved state that covers the position, of whatever
   prompt. `kv_return/README.md` 92-93 says that the decoder's `parent_stamp` check keeps a different document's state from being merged. It does when
   that document was *not* bridged last: `studio` shows it. When it was (conversation, other document, conversation again), the kept parent *is*
   the other document's capture, the stamps agree, and its rows are stored under the conversation's hashes.

Met while modelling, without a run of their own: `bool(man0.get("stream"))` (`pd_front.py` 412) is true for every finished
manifest, since `_finish` writes a `stream` record into all of them, so a capture that did not stream and is already finished is waited for in segments and then declined.
The streaming front takes the newest new directory without comparing it to its request, although the hook's comment at 108-111 leaves that check to it. `_emit_segment` takes the pooled rows out of the accumulators
before the file is written, so a failed write leaves a hole, against its docstring; the request is closed as an error at the next seal and the front
declines it. The docstring of `_staged_restore` speaks of a finished stage; it needs `ready >= matched` only. Rows in `pd_tail` are never removed.
`_kvr_resume` (841) admits a resume at any S in [T - `keep_extra`, T], as `_kvr_save` (885-886) promises for every state it saves. A state saved by a request that was itself resumed with rows
cut off begins where its parent's tail began, so it may be shorter than a window and `_KEEP_EXTRA` rows, and a resume below its T is then seeded with less than a window. Only a conversation
that goes back comes to such an S: with turns of 13, 10 and 9 rows, `EngineBlock = 1` and `Keep = 4` TLC finds `BlocksAreTrue` violated. In one that grows it cannot happen (`BlocksAlwaysTrue`).

## 4. Proofs

### Pooled mode

`PooledBridgeProofs.tla` and `DeliveryProofs.tla`, for every number of layers and kinds of layer, any
number of prompts of any length, any bounds, and every setting of the switches:

- `TypeCorrect`: `Spec => []TypeOK`.
- `DemandCorrect`: if every prompt comes from the front (`~Direct`), then
  `Spec => DemandMeansReturned`: a flush on demand is decided only for
  a request whose engine call has returned.
- `PurityCorrect`: if no exception is swallowed (`MaxFaults = 0`), then
  `Spec => []UsableIsPure`: a published capture that promises a usable prefix holds
  rows of one prompt. `hook_safety` checks that one exception does not change this
  when the idle window does not elapse in a running prefill.
- `StoredWholeCorrect`: with `MaxFaults = 0`, `Spec => []StoredIsWhole`, for every setting of the switches.
- `FlushWholeCorrect`: with `~Direct` and `PromptHook`, `Spec => []FlushNowIsWhole`. Faults may happen; the property
  speaks of the time before the first.
- `StoredPureCorrect`: with `~Direct`, `~Deadline`, `PromptHook`, `MaxFaults = 0`, and `MinSeal >= 2` if there is memory pressure,
  `Spec => []StoredIsPure`.

None of the switches in these hypotheses can be dropped: for each of them TLC violates the property with it reversed (section 3), the least obvious
being `MinSeal = 1`, for which three prompts of one chunk and `GuardEvery = 1` are needed. `MidRequestIdle` is free in all of them.

*Assumptions*: `HookAssumption` and `BridgeAssumption`, nothing else; TLC evaluates
both on every run.

*Type correctness.* `TypeOK` is not inductive: that carries and positions stay within
the prompts depends on what is queued. `TypeInv` adds that every queued item, the
one in the worker's hand and every fed row are bounded (`BoundedItem`,
`BoundedRow`, `BoundedCapture`), and that `before` and `chosen` name
directories that exist. `PruneType`, `FinishedType` and `MaxPosType` are about the
operators; `WorkerStep`, `EngineStep` and `FrontStep` go action by action.

*Demand.* Why can an old signal not cut a new prompt? The front touches FLUSH_NOW
when its engine call has returned, and the prompt it is bridging is then the last
one posted: whatever is open at that moment belongs to a prompt that has been
served. A capture opened later has a later `first_t` than the signal. `DemandInv`
says so: `KnownPrompts` (queue, hand and captures name prompts that were posted),
no `first_t` lies in the future, `fr` is the last prompt posted, and `SignalIsLate`, for
`signal` and for the `seen` the watcher holds: if it is not older than the open
capture, the owner of that capture has been served. `DecisionIsLate` then gives the property from the
state in which the decision is taken. The theorem does not need `PromptHook`: it
holds for a worker that lags arbitrarily.

*Purity.* The hook recognises a new prompt by one item only, the one of layer 0 at
position 0, so the invariant is about order: in the `Stream` of what the
hook has still to see (the item in hand, the queue, the engine's next item), there is
the first item of the later prompt between any two items of different prompts
(`Ordered`), and between an open capture and any item that is not its own
(`OpenOrder`), which has counted an ingest and hence recognises that first item.
`Leads` and its lemmas say what appending, taking, inserting a sentinel and turning to the next
prompt do to such a sequence; they know nothing of the hook. `PurityInv` is inductive because a
prompt has at least one chunk and ends at the start of a chunk (`EngineOrder`).
An exception breaks it where the code loses an item: the lost one may be the first.

*What is stored is whole.* `StoreInv`: what the front has chosen or stored is published, so that no step but pruning touches it, and a layer that was fed from
position 0 without a gap has pooled as many rows as it was fed (`PooledLayer`; with an exception it has not, which is finding 3). `NoGap`
gives the premise from the manifest, and `AssembledCover` that the front never assembles more than the shortest layer.

*A flush on demand.* It decides on what it sees: an empty queue, an idle GPU, and a count of ingests that is a multiple of the layers seen.
None of the three says that the prompt is over: an item may be in the worker's hand, the engine may be between two layers, a fragment may
have any count. Why is the capture whole, then?

- `OrderInv` sharpens the order of `PurityInv`: `Coming`, the next item the worker will see, is the one the engine ran right after the last one it saw (`Follows`).
- `HeadedInv`: an open capture that has its prompt from the first item on holds exactly what was run before `Coming`, so it is whole when `Coming` is the first
  item of another prompt. `HeadlessInv`: one that missed the first layer of the first chunk is behind by an ingest for ever, so it is never aligned
  (`HeadlessUnaligned`), and `PendInv` keeps it from being open when a decided flush arrives.
- `AliveInv`: a signal that still counts is that of a front in its grace, for the prompt that is open, or the capture is stuck and no demand will be decided for it. With
  `DemandInv` the engine is then between prompts when the watcher decides, and `EndInv` carries this through the queue to the worker's hand:
  `PromptHook` lets no layer run before the sentinel is queued.
- `FlushFindsWhole` puts these together, and `ReasonStep` says that nothing else ends in a capture closed on demand.

*What is stored is the prompt's own.* The front compares lengths, not content, so what it may take depends on which prompts may still begin. `FirstInv`: every first item
still to come, and every prompt posted but not yet run, is the one the front waits for. It survives because the front leaves a prompt only after that prompt has a capture
(`LeaveInv`), or after its grace, which outlasts the backlog. `TaintInv` then says that a capture younger than the front's listing is of its prompt, or misses the prompt's first
item; of the latter a usable one has no first layer, and stores no block. How such a fragment comes to be published is the heart of `LeaveInv`: only by the
front's own prompt closing it (`HeadlessPublished`), as a flush never finds it open, and the memory guard seals nothing that small (`NotSealed`). `ChosenInv` and `RowsInv`
carry the choice to what is stored.

*Only model-checked*: `StoredIsPure` and `UsableIsPure` with an exception (`hook_safety`), and the liveness properties (liveness under fairness is out
of the proof system's reach).

### KV modes

`KvStreamProofs.tla`, for every set of tags, length of prompt, depth of pool and queue, number
of restarts and failures, overlapping or not, from `ReceiverAssumption` and `ConnectorAssumption`:

- `KvTypeCorrect`: `Spec => []TypeOK`.
- `WholeFilesCorrect`: `Spec => []WholeFiles`.
- `PoolCorrect`: `Spec => []PoolConserved`.

All three are parts of one inductive invariant, `KvInv`; none is inductive alone. The code checks
neither the ring nor the free list for room: `count` and `nfree` stay within `PD_WQ_DEPTH` because
free buffers, jobs, the receiver's own and the writer's own add up to it (`CountInv`).
`ApartInv` and `KeptInv` say that they are all different and all there; `RecvQueue` overwrites no job because
the ring has a place for each buffer (`PlaceApart`, `PlaceNext`: the arithmetic of the ring).
That a buffer still holds its own file when it is written (`BytesInv`) needs `ApartInv`: the one the
receiver copies into is nobody else's. That the arena still holds the payload when the receiver reads
it needs `CommandInv`: while a command is on the line or being served, the
sender waits for its answer, or its handle is gone and can be opened again only after the
receiver has accepted. `CaptureInv` bounds what a capture counts by what it was given.

The same module, for the same parameters, as long as the engine has one tagged request in its prompt at a time
(`ASSUME ~Overlap`; with two of them the statement is false, see finding 4):

- `LandingCorrect`: `Spec => LandsInOrder`, the refinement of `CaptureLanding`.
- `DoneIsWholeCorrect`: `Spec => []DoneIsWhole`.

The connector counts blocks when it hands them over, not when they land: a native block is acknowledged before it is written,
so what DONE says is about the future of a write. The invariant is `LandInv`. `SoloInv`, `EndInv` and `CutInv` are the
forward thread's side: the open capture is the newest one, and without a gap it has every block its request has computed. `ItemInv` is the
queue's: all items are of the newest capture and its end is the last of them. `LineInv` says that the line carries what the sender waits
for. `CoverInv` and `ClaimInv` are the heart: a block that the sender counts as sent is on disk, or on the line, or in the ring or with the writer, or its loss is
already known (`failed`, or the connection is gone, and the handle cannot be opened again before the capture is lost). `OrderInv` and `StageInv` put tail, manifest and DONE
in their order, and nothing of a later capture before the end of an earlier one. `ReceiverMay` says which changes the receiver's steps make, so that the invariant is shown
to survive once for all of them; the forward thread's and the sender's steps go one by one. `BlockIsLanded`, `DrainIsLanded` and
`StepIsLanded` are the step simulation: each step is a step of `CaptureLanding` or a stutter.

*Only model-checked*: `LandsInOrder` when captures overlap, within the bounds of `kv_stream`; `TailIsOptional` (which is violated); and liveness.

### Decode box and GLM split

`TfSplitProofs.tla`, from `SplitAssumption`, for any requests and prompts, capacities, bounds and timings, as long as a sweep
is not preempted (`ASSUME ~SweepPreempted`: with preemption `OneDoor` is false, see the `glm` run):

- `SplitTypeCorrect`: `Spec => []TypeOK`.
- `OneDoorCorrect`: `Spec => []OneDoor`.
- `StoreIsOwnCorrect`: `Spec => []StoreIsOwn`.
- `BoundaryCorrect`: `Spec => []BoundaryIsUsable`.
- `BudgetCorrect`: `Spec => []BudgetExact`, and `PairCorrect`: `Spec => []PairNotOverfull`.
- `SplitIsUsedCorrect`: `Spec => []SplitIsUsed`.

The invariant is `SplitInv`. `OneDoor` is about the lock; that it survives needs `DoorInv`, which is about descriptors: each open one has one
user and each user an open one, so closing one's own never frees another's, and `LowestFd` always exists (`FdIsFree`, by
the pigeonhole principle). `SweepInv`: what a sweep has still to free is as it was when it looked, which is where preemption would
break the proof. `BlobInv`: when a handoff is pending or being built, the shared memory holds its own blobs; it
follows from the door being locked all that time, and gives `StoreIsOwn`. `PlanIsUsable` is about `plan()` alone. `PruneKeeps`
bounds the starts: the smallest boundary kept has all others above it, and those are fewer than `MaxStarts`. There is one lemma
for each action, and `NextSplit` puts them together. `BudgetInv` adds that the budget is the sum of the boundaries of the requests in flight, a
fold over a set. `NatLemmas` shows what such a sum does when an element comes, goes or changes, without induction: if two sums differed
on some subset they would differ on a smallest one. `PairNotOverfull` survives a give-back because a sum over fewer requests is smaller, and a reservation
because `_budget_take` compares the sum with the capacity under the same lock. `SplitIsUsed` follows from what the pruning keeps: a
boundary that is forgotten has `MaxStarts` boundaries above it.

`KvDoorProofs.tla`, from `KvDoorAssumption` and `RowsNameHistory` (a row's number stands for its token and all tokens before it; a chat template renders at
least one token), for any prompts, page size, transports and number of failures:

- `VerdictCorrect`: `KvSpec => []VerdictIsTrue`. A verdict is taken from what `cached_prefix_tokens` counts (rdma4) or from what
  the drain has seen written (the others); `CachedPagesSpec` says that the count is the longest run, `FilesStay` that no later step
  of the pair, the SSD manager or the decoder takes a file away.
- `FilesCorrect`: `KvSpec => []FilesAreTrue`, `PreparedCorrect`: `KvSpec => []PreparedIsOwn`, `KvTypes`: `KvSpec => []KvTypeOK`.

These three come from one inductive invariant, `RowsInv`. A decoder restores from files that a store
of the same decoder wrote, possibly after an earlier restore, so files and prepared caches are true only together. `StageInv`: the pages a filling thread has counted are
those of its prompt, also while it is still copying; `StagedInv`: no two stages are kept under one key, so the one that is
found is the one that was announced; `DecInv`: the pages matched are on disk and leave a token to compute. That a stage of *another* job
may be handed over is right because its key is the hash of its last page that was matched, and a hash is the prefix. Restored rows are a
concatenation by a fold (`FlattenSeq`); that it is the prefix is shown as for these sums, by the first length at which it would not be.

### Conversations

`RowBridgeProofs.tla`, from `RowsAssumption`, `RowHookAssumption`, `RowBridgeAssumption` and `NoneIsApart` (`None` is neither a request nor a prompt in the engine), for any number and kinds of layers, block,
window, pooling ratios, tails and `Keep`, any prompts and chunk sizes, prefix hits of the engine, number of kept captures, both fronts, any clients between two turns and any number of failures:

- `RowTypes`: `RowSpec => []RowTypeOK`.
- `NothingIsEverLost`: if `NL < GuardEvery`, `RowSpec => []NothingIsLost`.
- `BlocksAlwaysTrue`: if `NL < GuardEvery` and `Growing`, `RowSpec => []BlocksAreTrue`.
- `KeptAlwaysWhole`: with the same hypotheses, `RowSpec => []KeptIsWhole`.

`NL < GuardEvery` says that the free memory is looked at less often than once per chunk (43 layers, every 64 ingests): otherwise the guard may cut a capture
in its first chunk, into two that each lack layers. `Growing` says that each prompt of the conversation goes on from those before it. It is necessary: without it
`BlocksAreTrue` fails in two ways (finding 6, and the turns that go back of "met while modelling"). The turns of `studio` satisfy it, those of `v_parent` do not.

*One call, many steps.* `ingest` may close the open request, open another, resume it from a saved state, feed a layer, ship segments and be sealed by the guard. The
invariants are therefore stated of a request `r`, a list of directories `d`, the states `cp` on the pair and the parent `k`, and each part of the call has its lemma (`Open...`, `Fed...`, `Ship...`, `Leave...`);
`Work...` put them together. `TypesInv` has the types: `PairOK` (the open request is that of the one open directory), `RunOK`, `FrontOK`, `KeptOK`.

*What a chunk does to a layer.* `RowLemmas` compares the hook's arithmetic with the one-shot definition of `CaptureRows`. `TrueLayer(li, p, from, sh, T0, N)` is what a layer that was fed the rows of
`p` from `from` to `N` ought to hold: its window tail and the windows of the boundaries, its pools with their carries, what was shipped up to `sh`, and the tails that reach back to what was saved at `T0`. `FeedKv` and
`FeedPool` say that feeding `x` more rows turns it into the one for `N + Len(x)`, wherever the chunk ends in a window, a group or a block; `SeedTrue` that seeding from true rows
of a state gives it; `MergedIs` that joining the parent's file and the capture's file gives the one-shot file; `GrownIs` the same for what a segment ships and what follows it. All are arithmetic of slices, without induction.

*Nothing is lost.* `LostInv`: what an open streaming request holds is `TrueLayer` with what it has shipped (`HeldOK`), each segment on disk is the true one (`SegsOK`); the layers of a request whose count of
ingests is a multiple of `NL` have all come equally far (`Even`), so a segment that is cut then has all of them. That uses `Lock`: where the engine is in its chunk and where the layers are belong together; a prompt of another client that
is fed into the open request at the position where it stands (`Onto`) goes on with it.

*The blocks are true.* While a turn is under way, `OfTurn` holds of its prompt `p`: the captures younger than the front's listing (`before`) have the rows of `p` (`TurnOK`), or are
not whole, or go on from a state that is not the parent's, and then the front does not merge them; a capture that goes on from the parent and lacks nothing has `TrueLayer` from the resumed position on
(`ChildOK`); the states that can be resumed from are those of directories, and one with the parent's stamp *is* the parent's (`StatesOK`, `NewestIs`); the parent is the one-shot capture of a beginning of `p` (`ParentOK`). Requests that were open before the turn
may be continued by it, at the same position, but their captures are not younger than `before` and are not taken. `ZeroOK` excludes a resumed request at the start of a prompt. When the front merges, `MergedIs` gives the one-shot capture of `p`,
which is what `KeptTurn` needs for the next turn: here `Growing` is used, since the rows up to the resumed position are the parent's. `PulledFiles`, `AssembledIs` and `SegmentIs` are about what is stored: pulled in one go, merged, or in segments.

*Only model-checked*: `v_parent`, which is violated, and liveness (`TurnIsAnswered`, `ClientsAreAnswered`, `BridgeReturns`, `EveryJobIsFilled`).

## 5. Not modelled

- Tensor arithmetic, serialisation, file layouts, dtypes: `pd_pool_torch` beyond its windows, `omlx_block_writer`'s file format, `build_cache`'s
  assembly, `pd_verify_kv`, `verify_blocks`, `pd_diff_state`. The property would be about floating point.
- The legacy hidden-state mode of the front (`spark_prefill_pipelined`, the last lines of `bridge`) and `pd_rebuild_mlx`.
- RDMA queue pair set-up (`pd_rdma_common.h`), the one-shot `serve` and `fetch` of `pd_rdma.c`, malformed control lines.
- The capture share: a file server without state; what it does is part of the front's actions.
- FlashPP (lock-step, one request in flight), the fabric's experimental file movers and ring, shell scripts, benches, exporters.
- A restart of the hook's process, of the front or of the decoder in the middle of a request: none keeps state beyond the files the
  models have, but the moment between two files is only modelled where a write may fail.
- `pd_tx`'s reads without a timeout against a peer that neither answers nor closes.

## 6. Plan

1. **Done**: hook and pooled front; KV connector and receiver with their refinement of `CaptureLanding`; streaming, KV return and pooling with their data; the bridge
   queue, kv modes and oMLX hooks; the GLM split; proofs about the last two.
   Proofs: the safety properties of the pooled bridge; types, files, prepared caches and verdicts of the decode box; the budget and the starts of the GLM split; the refinement of `CaptureLanding`.
   The safety properties of the conversation (`RowBridge`). Each invariant that a passing run checks is the subject of a theorem; section 4 says under which hypotheses.
2. **Later**: restarts of the front against the captures it left; evictions of block files.
