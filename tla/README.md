# VITRIOL in TLA+

Specifications of the stateful parts of VITRIOL (this repository): the
cooperative-VRAM governor, the prompt-cache index and replacement policy, the
expert streaming caches in Rust and C++, the request router, and of the engine
server the task queue with its slots and live resize, the prompt cache with its
disk mirror, the session router and the autosave sidecar. TLC checks them on
small instances; TLAPS proves every safety property they check, for all
parameter values.

`PROJECT.json` is the index: components, runs, mutants, the map from every
definition to source lines, findings, hazards, theorems.

```
cd tla
tlc -workers 2 -config GovernorLadder.cfg MCGovernor    # one run
tlapm GovernorProofs.tla                                # one proof module
```

## 1. The system

VITRIOL is a llama.cpp fork that runs models larger than the VRAM of the
machine, and the services around it.

| Component | State it keeps | Operations | Talks to | What is hard |
|---|---|---|---|---|
| **vitriol-governor** (Rust daemon) | phase, two streak stamps, stamp of the last heavy transition; all in a JSON state file | a tick per second: sample NVML, decide, execute, store | engine over HTTP, systemd, the launcher, `/proc` | failed calls after the phase moved; death between executing and storing; engine restarts behind its back; recovery must not get stuck |
| **vitriol-cache: radix** (Rust, C ABI) | trie of token sequences, value handles, pins, logical clock | insert, match, touch, pin, unpin, remove, evict | owner of the states behind the handles | edge splits, pruning, pins that outlive values, counts that drift over long call sequences |
| **vitriol-cache: arc** (Rust, C ABI) | t1, t2, b1, b2, p, pinned | touch, forget, pin, unpin | eviction order for a disk tier | keys in two lists, pins and ghosts, arithmetic of p |
| **vitriol-stream** (Rust, C ABI) | map and recency order of VRAM slots, events, pending flags, bounce ring | ensure, mark_compute_done | two CUDA streams, the expert store, ggml's expert loop | three actors at three speeds share slots and staging buffers |
| **expert path of the engine** (C++) | VRAM LRU, predictor tables, page-lock LRU, output cache | predict, prefetch, ensure, mark, lock and retire host slices | two CUDA streams, ggml's expert loop | as vitriol-stream; prefetch evicts without asking; host ranges unregistered under copies |
| **engine server: queue and slots** (C++) | three task deques, result list, slots, the context | post, pop, defer, cancel, launch, update_slots, yield to the worker, resize, sleep | HTTP threads, worker thread | two consumers of one queue; exceptions out of a decode; clients that leave; a context freed under its slots |
| **engine server: prompt cache** (C++) | RAM list under a byte limit, mirror files, detached writers | alloc, load, update, spill, trim, reload | slots, file system | crash between write and rename; files of another model; the same prompt from three sources |
| **engine server: session router** (C++) | session table, slot table, one mutex | claim, save, restore, evict | HTTP threads, the queue above | waits for the engine with the mutex held; two tables and a file change in several steps that may fail |
| **lull_slot_persist** (Python) | checkpoints of slots, identity file, last pid, churn signature, hang strikes | save idle slots, replay after a restart, restart a hung engine, bounce | engine, systemd | a save or replay racing a restart; its own restart next to a live engine |
| **demiurge** (Rust, tokio) | pressure board, session table | chat request: scan, decide, dispatch; poller | local engine, cloud lanes, budget gateway | concurrent requests of one session; board and table change within a decision; privacy must win over stickiness |
| ascensusd (Python, threads) | euro ledger file | escalate: dedup, budget gate, cloud call, charge, store back | demiurge, cloud | check-then-act and lost updates across threads |
| KV residency (C++) | resident blocks under a floor | sweep, probe | server, governor | eviction while a slot decodes |
| launcher, TUI, Officina, plugins, kernel module, alka executor, libhermes, libvitriol | | | | front ends, hardware and SQL; see PROJECT.json |

The parts in bold are modelled. What makes them correct:

* governor: a phase says what has been done to the engine; evidence of one
  phase is never used in another; heavy transitions keep their dwell; lasting
  calm ends in Full and lasting pressure in Yielded, whatever failed before;
* radix: the trie behaves like a partial map with deepest-ancestor lookup and
  leaves no dead branches, drifting counts or dangling handles;
* arc: a key has one place; pinned keys are safe; ghosts and residents keep
  their bounds;
* stream and expert path: a matmul reads its own expert's weights, always; no
  copy reads host memory that was unregistered under it; the loop never blocks
  itself;
* queue and slots: every task is in exactly one place or answered; nothing
  touches a slot while a decode runs; no slot survives its context; a client
  that waits is served;
* prompt cache: the KV bytes behind a prompt are the bytes of that prompt under
  the running model, in RAM and on disk, after any crash;
* session router: the two tables name each other, and evicting a session never
  loses it;
* autosave: a checkpoint never goes back; an engine is replayed once; idle work
  reaches the disk; a hang ends;
* demiurge: private requests never leave the machine; calm brings sessions
  home.

## 2. Modules

| Module | Models | Size of its state |
|---|---|---|
| `Governor`, `GovernorProofs` | policy.rs, main.rs, engine.rs, state.rs, observe.rs | policy, state file, tick in progress, launcher config, engine |
| `RadixTree` | radix.rs, ffi.rs | nodes by path, ranks by last hit, count |
| `PrefixIndex` | what the header of radix.rs promises | partial map, pins, last answer |
| `ArcCache` | arc.rs | four lists, p, pins |
| `CacheProofs` | theorems about `ArcCache` and `RadixTree` | |
| `DeviceSlots` | what both expert caches share: slot table, events, streams | table, slot contents, stream contents |
| `StreamLru` | lru.rs, bounce.rs, ffi.rs | `DeviceSlots`, bounce ring, call in progress |
| `ExpertPath` | vitriol-cuda-integration.cpp, the expert loop of ggml-cuda.cu | `DeviceSlots`, predictor, lock LRU, output cache |
| `ExpertStreamProofs` | theorems about `ExpertPath` and `StreamLru` | |
| `Server`, `ServerProofs` | server-queue.cpp, server-context.cpp | deques, two loops, slots, context, HTTP threads |
| `PromptCache`, `PromptCacheProofs` | server_prompt_cache in server-task.cpp and its callers | RAM list, slot, files, writers |
| `SessionRouter`, `SessionRouterProofs` | route_session in server-context.cpp | tables, mutex, threads, engine queue, files |
| `SlotPersist`, `SlotPersistProofs` | lull_slot_persist.py | sidecar memory, files, engine process |
| `Demiurge`, `DemiurgeProofs` | arbiter.rs, affinity.rs, pressure.rs, proxy.rs | board, pins, one record per request |
| `MC*` | symmetry sets, prompt sets and request tables of the runs | |

Operators named `X_Y` (`DecideResized_NoYield`) are plausible bugs of `X`; they
are not part of any specification. Each property is shown to fail when `X` is
replaced by one of them. Every component has its type invariant; where a config
does not list it, the formula holds on the same instance and is implied by the
shape of the actions. `BusySlotDriven`, `TablesAgree` and `MapOrderAgree` are in
no config because theorems establish them (section 4). Modules that share a proof
module have names of their own for initial states and steps (`ArcSpec`,
`StreamSpec`).

### Governor

`phase`, `press_since`, `clear_since`, `last_transition` are the fields of
`Policy`; `file` is what `state::load` would return. Time stamps are ages,
capped at `AgeCap`, because the code only compares `now - stamp` with a hold.
A tick is `Tick` (sample and `decide`), one action per call of `execute`
(`KvPolicy`, `CtxResize`, `ConfigLoad`, `UnitRestart`, `WaitHealth`,
`YieldOom`), then `Store`. `todo` holds the calls still to make, so that engine
deaths, the clock and the death of the governor fall between any two of them.
A sample is the set of GPU levels (below the floor, between, at the ceiling)
and whether a foreign tenant is resident; all of them are possible, an NVML
failure included. `resize_enabled` is chosen at the start. The engine is what
the calls change of it: profile, window, sweep floor, OOM protection; the
answers of `/kv-policy` and `/ctx/resize` are those of
`src/engine/tools/server/server-context.cpp` (2920-3073). `weather` lets the
samples settle into calm or storm, for liveness only. `sinceHeavy` is a history
variable. `FaultKinds` and `MaxFaults` say which faults happen and how many.

Assumed: the clock does not step back; one governor runs.

### RadixTree and PrefixIndex

A node is named by the tokens on its path; node indices and the free list are
invisible to callers. `hits` ranks the registered nodes by `last_hit`; the nodes
one match passes get the same rank, as they get the same time in the code, and
an eviction may take any of the least. `owned` and `held` are history: what the
caller has pinned, and which states it keeps. `UnpinsFirst` is the caller's
discipline not to drop a handle it still has pinned. `ImplementsIndex` is
refinement: the map of the index is that of the registered nodes (`Reg`), and its
pins are `owned`. The abstract insert admits what the code does with a
sequence that ends inside an edge (section 5, `InsertRegisters`); everything
else is the contract of the header. Empty sequences are not inserted.

### ArcCache

Lists have their front at index 1. `touch` is one action per branch
(`TouchPinned`, `TouchResident`, `TouchGhost1`, `TouchGhost2`, `TouchMiss`);
`PinKey` and `UnpinKey` are `pin` and `unpin`.
`PairedUnpins` is the discipline to unpin only pinned keys. `victim` is what the
last call returned.

### DeviceSlots

`map` and `order` bind the cached keys to slots; `vram` is what a slot holds.
A stream is a list of operations; `Advance` takes the head of one whose wait is
over, in any interleaving of the two. An operation carries the wait enqueued just
before it as `after`, the number of operations of the other stream it must
follow (`cuStreamWaitEvent` binds to the record at the time of the call). An
event is its latest record: `by`, the stream it is in, and `ahead`, the
operations of that stream up to the record that have not executed. These
semantics are external to both caches and modelled from how the code uses them.

### StreamLru

Host steps are those of the ggml compute thread: `Hit` or `Miss`, `Stage`,
`Fill`, `Matmul`, `MarkComputeDone`; each only enqueues. A wait of the compute
stream is an operation of its own, because the code may leave the matmul out. A
copy from the ring moves what the buffer holds when the copy runs; `busy` counts
the copies up to the record of a buffer's event. `sync` is `VITRIOL_SYNC_FILL`,
`store` the source of the slices; both are chosen at the start. A failed read and
an oversized expert on the store path end in the abort of the caller, so the runs
allow the system to stop. The expert loop in
`src/engine/ggml/src/ggml-cuda/ggml-cuda.cu` (2286-2339) is external to the crate
and modelled from how it calls it.

### ExpertPath

One operation of a layer is `BeginOp` (predict), `PrefetchOne` per predicted
expert, `ReadIds` (the router's choice, any nonempty set), `RunExpert` per
expert, `EndOp` (predictor update). Only the host thread changes the tables; the
streams lag behind it. `locked` is the LRU of page-locked host
slices; `Retire` synchronises the device before it unregisters, and what it
fails to unregister stays as an orphan. `output` is the approximate output
cache, on or off from the start. The code visits experts by ascending index; the
model in any order, which includes that one. One device; prediction and lazy
locking on; weights in host memory.

### Server

Each step is a region between two acquisitions of `mutex_tasks`. The main loop
pops (`MainPop`), handles (`Launch`, `DeferNoSlot`, `DeferBusySlot`,
`HandleCancel`, `HandleSlotAction`, `HandleAtOnce`, `Resize` and its failures),
runs `update_slots` slot by slot, and waits or falls asleep. Around
`llama_decode` it hands the queue to the worker (`BeginYield` to `Join`), which
answers reads and sets everything else aside in `unhandled`. The decode may
throw. An HTTP thread posts one task, waits, and may leave at any point
(`Leavers`), which removes its result and posts a `CANCEL`. `ctx` is a
generation number: a resize or a sleep frees the context, and `slotCtx` and
`prompt[s].ctx` say which one a slot belongs to. `/ctx/resize` is enabled
(`VITRIOL_CTX_RESIZE`). Not modelled: batches of tasks, parent and child
completions, LoRA tasks, the contents of batches.

### PromptCache

One slot. `TakeSlot` saves the slot's state to the RAM list and looks for the
best entry in RAM and on disk; the `Load*` actions are the outcomes of restoring
it; `Generate` extends the slot. What the KV memory really holds (`kv`) is
separate from the tokens the slot or an entry claims. A spill starts a detached
writer: `OpenTmp`, three `WritePart`s (header, KV bytes, tokens), `Publish`; a
writer keeps writing to the file it opened, wherever its name points now. `Crash`
loses memory and writers and keeps files; `Start` may bring another model, window
and draft; `Wake` and `Resize` rebuild the cache next to running writers. File
names collide for prompts with the same count and ends, as their hash does.
`Overlap` says whether two writers of one name may run at once.

### SessionRouter

A thread enters `route_session` when the mutex is free and keeps it through
`SAVE` and `RESTORE`, which are tasks of the engine. The engine is what the
router meets of `Server`: slot tasks for a busy slot are deferred, a release
puts one deferred task back, and a task that ends without a release
(`EndWithoutRelease`) puts back none; `wasted` is history and says that a
woken task did that. A completion is queued after the mutex is free. Requests in
`Plain` may come without the header.

### SlotPersist

`pc` is the place in the loop of the script; every HTTP request and every file
operation is a step of its own, so the engine may die, hang, recover, serve or be
restarted between any two. A pid is a generation. A slot's state is the number
of the work that made it, so that older and newer can be told apart; `Small`
are the states whose checkpoint is under the 10 MiB of the empty-slot guard.
Memory readings and the clock are nondeterministic. `settled` and `gaveUp` are
history.

### Demiurge

A request goes through `Arrive`, `Probe` (first read of the board), `Gate` or
`Read` (second read), `Lookup`, `Recall` or `Settle`, `Send`, `Finish`; every
step is one locked access, so requests, the poller and the clock interleave
between them. The busy ratio is a level: below the low watermark, between, from
the high one on. Pins age up to the TTL. The overflow lane (free, paid or none)
is chosen at the start. The verdict of the privacy scanner is an input.

## 3. Runs

| Run | Instance | Shows |
|---|---|---|
| `governor_ladder` | holds 1, 2, 2, recover 3, dwell 4; with and without resize; up to 2 faults: failed calls, engine deaths, stops between ticks, dry runs | types; streaks never leak between phases; without faults the engine is what the phase says; heavy transitions dwell (Resized to Yielded excepted) |
| `governor_live` | same holds; also deaths within a tick and failed stores | calm ends in Full, storm in Yielded |
| `radix_index` | 5 prompts (nested, branching inside an edge, disjoint), 3 handles, room for 1 evicted handle | `WellFormed` (types, radix shape, counts), no dangling handle, refinement of `PrefixIndex` |
| `arc_paired` | 4 keys, capacity 2 | `WithinCapacity` (types, p, ghosts), one place per key, pins safe, only unpin overfills |
| `stream_lru` | 3 experts and an oversized one, 2 slots, 2 buffers, streams up to 7 operations, all four modes | every matmul reads its expert; staging buffers stable |
| `expert_path` | 2 layers of 2 experts, 2 slots, 2 locked slices, 2 tokens, failing locks | every matmul reads its expert; no copy from an unregistered range; the layer before is predicted; every token finishes |
| `server_queue` | 3 requests: a completion, a completion bound to slot 0, and one that is a completion bound to slot 1, a restore, a resize or a read and may leave; 2 slots, 2 tokens, failures, sleep | no task or result lost, doubled or leaked; decode undisturbed; worker confined; prompts belong to the context; waiting clients are served |
| `prompt_cache` | 3 prompts with a name collision, 2 models, windows 1 and 3, pool of 4 tokens, 3 starts, 1 writer, failures | KV bytes always match their tokens, in the slot, in RAM, on disk; no duplicates; RAM limit; published files whole |
| `session_router` | 4 requests of 3 sessions on 2 slots, an old file, failures | tables agree; evicted sessions are saved; every request is served unless a wake-up was wasted |
| `session_hang` | same | **violated**: a deferred task is never processed (section 5) |
| `slot_persist` | 2 slots, 2 works, 1 fault (death, hang, sidecar crash, failed request), 2 strikes, engines that refuse | replayed once; checkpoints advance; idle work reaches the disk; hangs end |
| `demiurge_route` | 1 session and requests without one, 2 concurrent requests, TTL 1 | privacy, gated sessions come home, lasting calm brings everything home |

Why the bounds are enough. *Governor*: ages matter only against the holds; the
holds are distinct where the code orders them, the dwell exceeds every hold, and
two faults suffice for a failure during the recovery from another. *Radix*: the
prompts contain a chain of three, a split with and without a node at the split
point, and an unrelated branch; three handles let one be replaced, one be pinned
and one be evicted. *ARC*: twice as many keys as capacity fill both ghost lists;
`ListBound` only matters for a caller without discipline. *Stream*: one expert
more than slots forces evictions, two buffers wrap after two misses, and seven
operations let the compute stream lag three matmuls, and the copies of as many
fills, behind the host. *Expert path*: four slices
compete for two slots and two locks, and a second token exercises the boundary
detection, the temporal table and hits of the output cache. *Server*: three
requests on two slots leave one to be deferred or set aside; a resize then meets
busy slots, idle slots with prompts, and a yielding main thread. *Prompt cache*:
the pool holds one long and one short prompt, so every second save evicts; one
pool of mirror space makes the trim run; three starts let a file of the first
model be met by the second and again by the first. *Session router*: three
sessions for two slots evict, the second request of a session meets its own
eviction. *Slot persist*: one small and one large state separate the sides of
the empty-slot guard; one fault already interleaves with every step of save,
replay and strike. *Demiurge*: races over a binding need two requests of one
session; more sessions do not interact; TTL 1 lets a pin expire between any two
steps.

Deadlock is not checked where the system really may stop: `stream_lru` (abort of
the caller), `expert_path` (the last token), `server_queue` and the session runs
(every request answered, or the process lost), `prompt_cache` (starts used up).

Fairness. The governor's loop, the clock and the engine's unit
(`Restart=always`) keep going, and a stopped governor is started again: weak
fairness of `Tick`, `Execute`, `Store`, `Start`, `Second`, `EngineReady`. Faults
are bounded in number, not in time. In the router an accepted request is handled
to its end: weak fairness of `Handle(r)`; nothing is assumed of the poller, of
arrivals or of the clock. `Server`: the main loop, the worker and each HTTP
thread run on (`WF` of `Main`, `Worker`, `Client(r)`); no request has to arrive,
no client to leave, and the timer that puts the server to sleep need not fire.
`ExpertPath`: the host thread and both streams run on. `SessionRouter`: the
engine and the threads inside `route_session` run on. `SlotPersist`: the sidecar
runs on, the service manager boots a dead engine and a loading engine gets
ready; `SF` of `SaveDue`, because the interval ends again and again, and of
`Restart`, because `systemctl` is tried again and again and does not fail
always. A hung engine need not recover. The other modules are checked for safety
only.

## 4. Proofs

All theorems hold for every value of the constants that satisfies the named
assumptions (`HoldsAssumption`, `FaultsAssumption`, `RadixAssumption`,
`ArcAssumption`, `DemiurgeAssumption`, `ServerAssumption`, `SlotsAssumption`,
`StreamAssumption`, `ExpertPathAssumption`, `PromptAssumption`,
`RouterAssumption`, `SidecarAssumption`); TLC evaluates these on every run.

* `GovernorTypeCorrect`, `GovernorStreakDiscipline`: types, and no streak
  survives a phase change, under every fault. `StreakDiscipline` is inductive
  given the types: a sample is never both pressure and recovery, so at most one
  streak runs, and every transition clears both.
* `GovernorDwell`: heavy transitions dwell, when no tick is lost between
  deciding and storing. The invariant needed is `DwellStampIsTrue`: the stamp in
  memory is the age of the last heavy transition, and outside a tick so is the
  one in the file. The assumption is needed: with deaths within a tick the
  property is refuted (section 5).
* `GovernorPhaseAgrees`: while nothing has failed, the phase outside a tick
  tells what the engine has. The invariant is `FaultFree`: the engine is as in
  the phase (`AsIn`), or a tick is part of the way through its calls towards the
  next phase and the engine is where those calls have brought it (`Underway`).
* `ArcResidentOnce`, `ArcPinnedNeverVictim`: from `ArcInv` (the lists are lists
  of keys, p is a number, and `ResidentOnce`). The work is in lemmas on
  `ListRemove`, `PushFront` and `PopBack`: what they keep, and that removing the
  first occurrence removes the key when it occurs once. Both need
  `PairedUnpins`.
* `ArcWithinCapacity`, `ArcOnlyUnpinOverfills`: the ghost lists stay within the
  capacity and p within its range for every caller, and with `PairedUnpins` the
  resident lists outgrow the capacity in an unpin and nowhere else. Lemmas say
  by how much each list operation changes a length.
* `RadixWellFormed`, `RadixNoDanglingHandle`: from `TreeInv`, for every caller.
  Its heart is `Tree`: the paths of the nodes are closed under common prefixes,
  so two siblings never begin with the same token and a walk has one way to go.
  The lemmas are about `Meet` (the longest common prefix) and about what a walk,
  a split and a pruning do to a set of paths; `Unlink` removes a path and the
  ancestors that are left with no child, value or pin, and leaves no dead branch.
  The count follows from the cardinality of the registered nodes.
* `RadixImplementsIndex`: each step of the trie is a step of `PrefixIndex`, or
  leaves it unchanged. `PinInv` adds that a node is pinned exactly when its value
  is one the caller has pinned, which needs `UnpinsFirst`: without it a pin
  outlives its value (section 5). That the trie answers a match whenever the
  index does needs that every path below which something is registered is
  reached by the walk, and that a node without children is registered or pinned.
* `RouterTypeCorrect`, `RouterPrivacy` (in `DemiurgeProofs`): from `RouterInv`,
  which adds `GateHolds`: only public requests are ever in the steps behind the
  gate. Without it a private request could be imagined half-way through a
  decision.
* `RouterGatedComesHome`: a probed request is decided by the gate's step alone
  (`OnlyGateDecides`), and that step leaves the session without a pin to a cloud
  lane, whatever other requests of the session did since (`GateClears`).
* `ServerWorkerConfined`, `ServerDecodeUndisturbed`: from `HandOver`, which ties
  the worker's place to `busy` and `busy` to the main thread's place; with it no
  step that writes a slot is possible while the decode runs.
* `ServerPromptInContext`: from `Bound`: a slot's pointer and its prompt's
  generation are those of the context whenever there is one. Resize and wake-up
  rebind all slots in the step that makes the new context; launches and restores
  stamp prompts with the present one.
* `ServerNoTaskLost`, `ServerNoResultLeaked`, `ServerBusySlotDriven`: from
  `LedgerInv`. `Accounts` counts copies of a task and its answers: none before it
  is posted, one in all while its client waits. `Hands`: a thread that handles
  nothing holds nothing, and tasks are set aside only during the yield. `Driven`:
  from `pre_decode` to the wait a busy slot has its NEXT_RESPONSE queued, set
  aside or in the worker's hand. `Posted` keeps the types, and that only a client
  that left is cancelled. The lemmas say how a queue operation changes a count.
* `ExpertKernelReads`, `ExpertCopySourceLocked`, `ExpertTablesAgree`: for any
  number of slots and experts, from `PathInv`. `Tables`: the map gives each key
  a slot of its own and the order holds just these keys. `Device`: the event of a
  slot is behind every operation on it (`Events`), and every reader finds its own
  key there, in the memory of now or from a queued copy it waits for, with every
  later copy behind it (`Ordered`). `Cached`: each cached key is in its slot when
  the copies have run. `Slices`: the lock table is bounded and repeats nothing.
* `StreamMatmulReads`, `StreamStagedSliceStable`, `StreamMapOrderAgree`: for any
  number of experts, slots and staging buffers, in all four modes, from `LruInv`,
  along the same argument: `Tables` and `Device` and the lemmas on them are those
  of `ExpertPath`. But a call of this cache takes several steps, and between them
  the event of its slot is behind what the call has enqueued. So `Device` is said
  of `Ahead`, the events with that one where `MarkComputeDone` will record it, and
  only of the keys whose copy is enqueued (`Filled`). `Staged`: a queued copy is
  not behind the event of its staging buffer, which holds its slice. `Drained`:
  in sync mode no copy is ever queued.
* `ExpertCrossLayerPredicted`: from `Chained`: within a token, `cur` of the layer
  before is what that layer used, because an update moves the tables at a
  boundary and nowhere else.
* `PromptSlotKvSound`, `PromptEntriesSound`, `PromptNoDuplicates`,
  `PromptRamBounded`, `PromptPublishedWhole`: from `CacheInv`: the entries are
  sound and distinct, the slot agrees with its KV, the list is within its bound
  outside a load, and the mirror is in order: a file that is published is whole,
  an opened `path.tmp` is there, and without overlapping writers it holds
  exactly the parts its own writer has written. All but `PromptNoDuplicates` and
  `PromptRamBounded` assume `~Overlap`; with overlapping writers
  `PublishedWhole` is refuted (section 5).
* `RouterClaimsAgree`, `RouterEvictedIsSaved` (in `SessionRouterProofs`): from
  `RouterInv`. The tables agree in every state, not only when the mutex is free
  (`Agree`); at most one thread is inside (`Locked`), what it has learnt is still
  true (`Holding`), and the engine holds at most one slot task, that of the
  thread with the mutex (`QueueInv`). The last is what a failed save needs: the
  truncated file belongs to a session that still has its slot.
* `SidecarReplayedOnce`: from `ReplayInv`. `Generations`: the settled engine is
  not later than the one in the identity file, and that one not later than the
  engine that runs; so an engine the sidecar does not recognise is unsettled.
  `Unsettled` carries this through the replay; between the check and the list of
  slots the engine may be dead, and then the list fails.
* `SidecarCheckpointAdvances`: from `SaveInv`. `Ahead`: a slot is empty or not
  older than its checkpoint, and so is the file that a save has written and not
  yet renamed, although the slot may have moved on or the engine died since.
  `Replayable`: a replay visits only slots that have a checkpoint, so it cannot
  put a slot behind.

Only model-checked: liveness, because fairness and ENABLED are outside the
prover's reach: `CalmEndsInFull`, `StormEndsInYielded`, `CalmBringsHome`,
`WaitingServed`, `TokensFinish`, `RequestServed`, `CheckpointCatchesUp`,
`HangEnds`. Every safety property of a passing run has its theorem.

The installed provers cannot instantiate induction schemas, so the values of
folds, `SelectSeq` and recursive functions stay out of reach; the proofs get by
with the least-number principle (`LeastNatural`, from the library's facts). The
modules state such operators by what they return: `erase_task` and `Sublist` by
rank, a first occurrence by its position, byte totals as cardinalities, eviction
and trim loops as the least number of removals that suffices, `disk_load` by the
set of files it takes. `RamBest` is still a fold: no proof depends on which
entry it prefers.

## 5. Where code and text disagree

**`session_hang`** (finding, with its quotation in `PROJECT.json`). A deferred
task is put back only by a slot release, one task per release. When the woken
task ends without a release of its own (a launch that fails, a save, a restore,
a refusal), the next deferred task stays where it is although all slots are
idle. If that task is a save of the session router, its thread holds
`mutex_sessions` while it waits, and no request with a session id is answered
any more. `RequestServed` and `WaitingServed` say what holds nevertheless.

The modules also state what other comments and documents say and TLC refutes.
These formulas have no run; replace the properties of the module's config by the
formula and change the constants named here to see the counterexample.

| Formula | Text | What the code does | Constants |
|---|---|---|---|
| `Governor!HeavyTransitionsDwell` under deaths within a tick | `vitriol-governor/src/state.rs:2` "dwell still holds via last_transition." | `main.rs:62` executes before it stores: a governor that dies in between repeats the heavy transition at once | `FaultKinds = {"crash"}`, `MaxFaults = 1`, `ResizeChoices = {TRUE}` |
| `Governor!FullMeansNoMitigation` | `vitriol-governor/src/policy.rs:9` "No active mitigation." | `main.rs:189`: the phase moves although a call failed | `FaultKinds = {"call"}`, `MaxFaults = 1` |
| `RadixTree!InsertRegisters` | `vitriol-cache/src/radix.rs:12` | line 170: an insert that ends inside an edge splits it and registers nothing | `OutCap = 3` |
| `RadixTree!EvictReachesGoal` | `radix.rs:255-256` | line 289: the pin belongs to the node; the next value in it is unevictable | `UnpinsFirst = FALSE` |
| `StreamLru!VictimIsLeastRecent` | `vitriol-cuda-integration.cpp:1561` | `vitriol-stream/src/lru.rs:241` skips the tail and passes the least recent ready expert over | as in `StreamLru.cfg` |
| `Demiurge!DeadLocalAvoided` | `demiurge/crates/demiurge/src/arbiter.rs:93` | line 143: the counts of a dead lane stay, an idle dead lane looks calm and recalls its sessions | `Request = {r1}`, `TTL = 2` |
| `Server!DeferredUntilSlotFree` | `server-queue.h` "defer until one slot is available" | as `session_hang` | as in `Server.cfg` |
| `Server!BusyPromptKept` | `server-context.cpp:2645` | the cache update of a requested slot (line 1867) runs before the busy check and replaces the prompt of the running task | as in `Server.cfg` |
| `Server!SleepEndsForTask` | `tools/server/README.md:2076` "Any new incoming task will automatically trigger the model to reload" | a task posted by a thread that saw the server awake does not ask for a wake-up | as in `Server.cfg` |
| `Server!CancelledIsDropped` | `server-queue.cpp:31` | the clean-up looks at the queue and the deferred list, not at what the worker set aside or holds | `NSlots = 1`, `MayFail = FALSE`, `Leavers = {c2}`, `MaxTokens = 1` |
| `PromptCache!PublishedWhole` with overlapping writers | `server-task.cpp:2533` "a torn .tmp from a lost race is inert" | two writers of one name share `path.tmp`; the first rename publishes what the second is still writing | `Overlap = TRUE`, `MaxWriters = 2` |
| `PromptCache!DraftLossSurvived` | `server-context.cpp:3031` "continuing without speculative decoding" | an entry with a draft state meets the assertion of `server-task.cpp:2089` | as in `PromptCache.cfg` |
| `ExpertPath!TemporalPredicted` | `vitriol-cuda-integration.cpp:977` | prefetch and update both test for a token boundary; the second test of an operation meets the index the first one stored, takes it for a boundary and shifts the tables, so the last token is gone | as in `ExpertPath.cfg` |
| `ExpertPath!OutputOfThisToken` | `vitriol-cuda-integration.cpp:289-293` | the function that would invalidate the entries is never called | as in `ExpertPath.cfg` |
| `SessionRouter!NotEvictedInUse` | `server-context.cpp:5969` "never evict mid-generation" | a routed request is not on its slot yet; until it is, the slot looks idle | as in `SessionRouter.cfg` |
| `SlotPersist!HungEngineRestarted` | `docs/OPERATIONS.md:30` | a sidecar that starts next to a hung engine waits for its health and counts no strikes | `NSlots = 1`, `MaxFaults = 2`, `MayRefuse = FALSE` |
| `SlotPersist!ReplayBeforeTraffic` | `docs/OPERATIONS.md`, rule 4 | the engine serves from the moment it is up; the replay polls | as in `SlotPersist.cfg` |

`CheckpointCatchesUp` excepts a `wait_health(600)` that gave up: `last_sig` is
then kept from the engine before, and a new engine with the same ids looks
saved. `PublishedWhole` is checked with one writer per name at a time, where it
holds through crashes, failed writes and rebuilt caches.

Also seen while reading, without a formula:

* `vitriol-governor/src/config.rs:21` calls `min_dwell_secs` the minimum between
  heavy transitions; `decide_resized` yields without it (`policy.rs:176`).
  `HeavyTransitionsDwell` states the exception.
* `vitriol-governor/src/state.rs:1-2` says streaks reset on a restart; they are
  stored and loaded with the policy (`policy.rs:61`).
* `vitriol-governor/src/engine.rs:101`: an engine that its unit restarts while
  Yielded is protected from the OOM killer again; the adjustment is made once.
* `vitriol-cache/src/ffi.rs:173`: handles evicted beyond the caller's buffer are
  not reported, so their states leak.
* `vitriol-cache/src/arc.rs:153`: an unpin of a key that is not pinned makes a
  second copy in t1, which a later pin leaves behind; a pinned key can then be a
  victim. `arc_paired` and the theorems assume paired unpins.
* `vitriol-cache/src/arc.rs:8` says t1 holds keys seen once; ghost hits, seen
  before, also enter t1 (line 130).
* `demiurge/crates/demiurge/src/affinity.rs:69` says `clear_if` drops a pin that
  points at the lane; it keeps that one and drops the others, which is what the
  privacy gate needs (`GatedComesHome` fails for the documented version).
  `sweep` (line 97) is never called. `proxy.rs:186` forwards an empty body after
  the cap was exceeded.
* Prompt cache (`server-task.cpp`): a detached writer uses the cache object after
  it was replaced (2534); no fsync before the rename (2313); a match on disk is
  taken without comparing it with the slot's own prompt, and without the check
  against `n_ctx` that RAM entries get; `disk_read_best` evicts oldest first
  (2687), the RAM list least recently hit first. A resize with `--cache-ram 0`
  dereferences a null cache (`server-context.cpp:2992`).
* Expert path (`vitriol-cuda-integration.cpp`): a failed prefetch copy leaves its
  key mapped to a slot with other contents (1780); the array of predicted experts
  has a fixed size (1045). `vitriol-store.cpp:250-285` takes a short submit count
  for a full one.
* Session router (`server-context.cpp`): file names of sessions may collide
  (6017); after a sleep, a resize or an idle clear the router still takes a
  session for resident (5983); a request without a session may take a claimed
  slot (6048).
* Sidecar (`lull_slot_persist.py`): `PERSIST_OK = False` is never reset; a save
  that timed out for the sidecar is still executed by the engine (255); a model
  that loads slowly is restarted as hung (357).
* `ascensusd`: handler threads load, change and store one ledger file without a
  lock.

## 6. Plan

Done: governor, radix with its abstract index, ARC, both streaming caches, the
server's queue, slots, resize, prompt cache and session router, the sidecar, the
router; proofs of the safety properties of all of them.

Next, in this order:

1. `Ascensus`: the ledger (load, add, save by concurrent threads), budget gate
   before and charge after the cloud call, dedup. Abstract specification: an
   account that is charged once per answer and never beyond the budget. Then
   compose it with the paid lane of `Demiurge`.
2. Composition of `Governor` and `Server`: the resize as a task that may be
   deferred behind busy slots while the governor's call times out.
3. The expert store's superblocks under interrupted writes; KV residency under
   the governor's floor.
4. `SessionRouter` over the full `Server` instead of its reduction.

Each with the theorems of its safety properties. Worth proving beside them: that
`SessionRouter`'s reduced engine is implemented by `Server`, once item 4 exists.

## 7. Not modelled

Most lines of the repository are llama.cpp: numerical kernels, back ends, model
formats, tokenizers, chat templates. They compute functions of their input and
keep no state that a model checker could say something about; what VITRIOL adds
to them is a small share of the lines, and the modules follow that share. Also
left out: the copy engine and kernel module (hardware), the on-disk store format,
request and body rewriting, the privacy patterns, the audit log, front ends,
launcher scripts and benchmarks. `PROJECT.json` lists each with its reason.
