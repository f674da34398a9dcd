# A verification project for nim-brokers

TLA+ models of the concurrent core of nim-brokers, the TLC configurations that
check them, and TLAPS proofs about them. Paths below are relative to `src/`;
`mt_*.nim`, `api_*.nim` and `ext_*.nim` are in `brokers/internal/`.

Contents: the system, its hard behaviours, what is modelled and how it maps to
the code, what the runs show, bounds, fairness, proofs, disagreements with the
documentation, what is not modelled, and the plan for the rest.

## 1. The system

nim-brokers generates typed brokers by macro. A *request broker* calls the one
provider of a context and returns its answer, an *event broker* fans a value out
to listeners, a *signal broker* posts a value to one handler. The same
declaration works on one thread, across threads (`mt`) and across a language
boundary (`API`, `EXTAPI`). Nothing is persisted: there are threads, shared
memory and chronos event loops, no crash recovery.

    sender thread                               owner thread
    ─────────────                               ────────────
    MtRegistry.snapshot ── lease ──┐            setProvider / setupBucket
    ResponseSlotPool.claim         │            brokerDispatchLoop
    slab cell, marshal             │              └ drainBrokerPollers
    ring.tryEnqueue ───────────────┼──► ring ──►      └ pollCell / poll fn
    fireBrokerSignal ──────────────┼──► signal             └ handler
    poll the slot ◄────────────────┼─── sendReply: beginWrite, commitWrite
    release slot, releaseLease ◄───┘            clearProvider, teardownBrokerThread

| component | state | operations | what makes it correct |
|---|---|---|---|
| MPSC ring (`mt_queue.nim`), drained by `pollCell` (`mt_transport.nim`) | `closed`, `enqPos`, `deqPos`, per slot `seq` and payload | `tryEnqueue` (any thread), `tryDequeue`, `close` (owner) | bounded FIFO; payload accesses never race; "full" only when full; nothing left behind when the poll fn retires |
| response slot pool (`mt_queue.nim`) | per slot a 64-bit (generation, state) word, payload, waker; free list | `claim`, `release`, `beginWrite`, `commitWrite`, `abandonIfGen`, `giveUpSlot`, `markProviderGone` | exactly one party releases each slot; a response reaches only its own request |
| request reply protocol (`mt_request_broker.nim`) | waits (`ReqWaitState`), pollers, handler futures | `sendPrologue`, `awaitReply`, `blockingWait`, `giveUp`, `cancelById`, `sendReply`, `clearProvider` | a request ends once, in one way; a cancel that won is not followed by a response; a timed request ends |
| request lane (`mt_transport.nim`, `mt_broker_common.nim`) | registry, lease counts, per thread pollers, signal, pending frees | `snapshot`, `releaseLease`, `setupBucket`, `clearProvider`, `drainBrokerPollers`, `brokerDispatchLoop`, `teardownBrokerThread` | transports are freed once, by the last holder, never under a user; no wake-up is lost; what is cleared is freed |
| payload slab, cells, sharded free list (`mt_queue.nim`, `mt_transport.nim`) | Treiber stacks with an ABA tag, cell reference counts | `push`, `pop`, `retain`, `release` | no cell handed out twice or lost |
| type-stable signal (`mt_broker_common.nim`) | `firers`, handle, free list of wrappers | fire, close, recycle | no fire on a closed handle; close waits for firers |
| provider-side cancellation (`mt_request_broker.nim`) | cancel epoch, per-thread in-flight table keyed by slot | `registerInFlight`, `scanCancelled`, `unregisterInFlight` | only the cancelled request's handler is cancelled |
| event lane (`mt_event_broker.nim`) | buckets per listening thread, listener tables | `listen`, `emit`, `dropListener`, clear control cells, shutdown | each listening thread gets each event at most once; a shared cell is freed once |
| signal lane (`mt_signal_broker.nim`) | one bucket per context | `onSignal`, post, `clearSignal` | as the request lane, one way |
| single-threaded brokers (`request_broker.nim`, `event_broker.nim`, `signal_broker.nim`, `multi_request_broker.nim`) | handler tables, mocks | provide, request, listen, emit, aggregate | one provider per context; mutation during an emit is safe |
| `BrokerScope`, `BrokerContext` | undo list; class and instance ids, global lock | register, close; allocate ids | each undo runs once, in reverse order; ids are unique |
| library call courier, event courier, subscriptions (`api_cbor_*.nim`) | segmented slots with Lock and Cond, rings, callback table | `claimSlot`, complete, wait; enqueue, drain; subscribe | no answer lost or misdelivered at the depth limit |
| library context lifecycle (`api_library.nim`) | context table, gates, threads | create, call, shutdown | no call runs into freed state |
| external plugins (`ext_runtime.nim`, `broker_ext.h`, `extapi/cpp_plugin/plugin.cpp`) | ports with generations, reference-counted impls, control ring, calls, workers, in-place slots | open, provide, close, call, reply, abandon, signal, stop; attach, detach | each call is decided once, by its own source; impls are counted; nobody waits for a stopped bridge |
| torpedo example (`examples/torpedo`) | two contexts with a captain each, `EventLog`, terminal | set-up script, volleys and replies between captains, observer loop, cleanup | the captains play one game of Battleship; what is drawn is consistent; callbacks stop before the log dies |
| device monitor example (`examples/ffiapi`) | counters, futures, listeners; the wrapper's window | blocking, asynchronous and future calls, signals, events, shutdown | each accepted call lands once; callbacks find what they use; the program ends |
| configuration, codecs, macros, binding generators | none at run time | – | – |

Shared state and how it is guarded: the registry is guarded by one lock per
broker type; leases by an atomic count; slots and rings by their own atomics;
pollers, handlers and pending frees are thread-local. Callbacks: handlers and
pollers run inside the owner's chronos loop and may call back into any broker.

### Hard behaviours

* **Interleaving.** Producers against each other and the consumer; a requester
  giving up while the provider writes; `markProviderGone` sweeping a pool that
  is in use; a sender that keeps a lease while the owner clears and tears down.
* **Staleness.** A slot is recycled under a late reply, cancel or poll; `closed`
  is read before the claim; a handler outlives its bucket.
* **Wake-ups.** A dispatch loop sleeps between passes; a cleared ring needs one
  more pass to retire.
* **Timeouts.** The timer, the answer and the continuation are three events.
* **Limits.** Full rings, exhausted pools and slabs, windows, generations and tags
  that wrap.
* **Partial failure.** One of several listeners' rings is full; an attach fails
  half-way; a set-up line fails after others took effect.
* **Shutdown.** A host, a context or an event loop stops while calls, replies,
  events and wake-ups are under way; some waits are bounded and give up.

`PROJECT.json` lists each at its line, with the property that covers it or why
none does yet.

## 2. The modules

### `MpscQueue` and `VyukovRing`

`MpscQueue` says what a ring promises: a FIFO queue of at most `Capacity` items,
each delivered at most once. `VyukovRing` has one action per atomic access of
the code: `CheckClosed`, `LoadPos`, `ReadSeq`, `ClaimPos`/`ClaimFails` (the weak
compare-and-swap, which may fail for no reason), `WritePayload`, `Publish` for
`tryEnqueue`; `PollHit`, `TakePayload`, `FreeSlot` for `tryDequeue`; `PollMiss`,
`TestClosed` for `pollCell` on an empty ring; `Close`. `AfterDiff` is the
three-way test of `seq - pos`. `log` and `delivered` are history variables; `log`
is also the refinement mapping: the abstract queue is the part of `log` that has
not been dequeued. An item enters it when its slot is claimed (the linearization
point), not when it is published.

Atomics are sequentially consistent, although the code uses acquire/release; the
ring's publication protocol needs no more than that on one slot at a time.

### `ResponseSlots`

One provider's pool and the four parties that use it. `control` is the word,
`bytes` says whose response the payload holds, `free[i]` counts how often slot `i`
is on the free list (so that a double release shows up as 2). A request is its
handle `<<slot, generation>>`. `pc` follows a requester through `claim` (`Pop`,
`Arm`: two steps in the code), `sendPrologue` (`Send`, `SendFails`), the wait, and
its five ends: a response (`StartRead`, `FinishRead`), `SeeProviderGone`,
`SeeCancelled`, `GiveUp` by a blocking requester, and by an asynchronous one
`Expire`, then `GiveUp`: chronos resolves `withTimeout` on one loop iteration and
runs the continuation that calls `giveUp` on a later one. Between the two the
response poller is still registered and may run, in the code and in the model: the
request is then `late`, and `giveUp` decides about a slot that was released already.
Most often it finds that out (the word says given up, or another generation), but run
`slots_race` shows the order in which it releases the slot again. The history
variable `twice` has the requests to which that happened. The free list is linked
through the indices of its slots, so that a second push of one closes a cycle or cuts
the others off: the model makes no statement about a pool from then on, and
no new request (`Pop`). `OneHolder`, `NoLeak`, `OwnResponse` and
`CancelSticks` say what holds of a pool as long as it is `Intact`, late pollers or not.

The provider is `Poll`, `BeginWrite`, `CommitWrite`; clearing is `StartClear`,
`MarkLoad`/`MarkSwap` per slot, `EndClear`, `CloseRing`. `sendReply` and
`markProviderGone` do not yield and share a thread, hence `ProviderFree`.
`Cancel` is `cancelById` on any thread. A requester whose slot has been recycled
(its generation is over) sees none of the ends above but `GiveUp`.

### `RequestLane`

The transport's life. `registry` is the bucket registered for the context;
buckets are numbered in the order they are made, never reused (addresses may be,
numbers make a use after free visible). `refs` is the lease count. A sender goes
through `Snapshot` (lookup and acquire in one lock section), `TestClosed`,
`Enqueue`, `WakeProvider`, `StopWaiting`, `ReleaseLease`. An owner thread has
`loop`: `off` (never started), `idle` (waiting for its signal), `polling` (inside a
pass of `drainBrokerPollers`, `todo` being what is left of it), `handler` (inside
a handler a poll fn called), `stopping`, `down`. `Provide`, `Clear` and `Teardown`
are its user's calls, from the loop or from a handler; `FinishTeardown` is the
loop's exit and `drainPendingRingFrees`.

`LivesOn` says whether a thread's loop may be driven, and the thread used, after
`teardownBrokerThread`; the comment on that function allows it.

Rings, slots and signals are abstract here (a sequence, a request id, a flag):
the other modules say what they promise. The ring's `tryEnqueue` keeps its
two-step shape because a stale `closed` matters to this module too.

### `EventLane`

One event type and context. `listed` is the registry, buckets are numbered as in
`RequestLane`, `refs` and `freed` are each ring's lease, `count` each cell's
references and `free` how often it is on the slab's free list. A thread's
operations are `Listen`, `DropListener`, `Emit`, `DropAllListeners`. The last two
share the send steps: pick the buckets and acquire their rings in one lock section
(`Targets`), `ClaimCell` with one reference per ring, then for each ring
`TestClosed`, `Put`, `Wake`, or `Refused`, which gives that ring's reference back;
`ReleaseLeases` at the end of an emit. `dropAllListeners` sends a control value
instead of a cell and fires the signal even when the ring refused it. The
dispatch loop is that of `RequestLane` (`WakeUp`, `PollValue`, `PollClear`,
`PollEmpty`, `PollRetires`, `PassEnds`); inside a handler the thread may call any
of these operations, until `HandlerYields`; `StartShutdown`, `EndShutdown`, `GiveUpShutdown`
are its bounded shutdown. The slab belongs to all contexts of the type, so that a
claim may fail although this context holds few cells. `heard` and `refused` are
history variables.

### `ExtHost`

The host of external plugins with one plugin on one context. `gen` and `open` are
the port slots, `refs`, `closed` the impls opened with them, `source` the port
that serves a name. A plugin thread runs `Attach` (`OpenPort`, a `Provide` per name,
and `AttachFails` which undoes), `Detach`; each of its control calls is posted
with the check of `running` before and after (`PostCtl`) and waits for the bridge. The
bridge is `CtlPoll`, `RunProvide`, `RunClose` with `CloseWithdraws` and `CloseEnds`,
`ReplyPoll`, `SigPoll`, `BridgeStops`, `BridgeFailsAll`, `BridgeDown`. A request is
`ExtCall`, then `ExtReply` by whoever holds its port, or `Abandon`; a reply, a closing
port and the stop only end it (`EndCalls`), and its coroutine keeps the impl until it
resumes (`CallReturns`), in a later turn of the loop or never; a worker takes,
tests and invokes (`TakeMessage`, `SeeClosed`, `StartInvoke`, `EndInvoke`); `StopBegins`,
`StopPool`, `StopEnds` are `extHostStop`. `CloseCtx` is the library closing the
context at the same time.

### `DeviceMonitor`

`main()` of the C++ device monitor, the generated wrapper, the library context
behind it and the providers of `mylib.nim`. `Script` lists the lines of `main()`; a
blocking line is `Request` (the call ring and a slot), then `Answered`. The two
asynchronous parts are loops: `CallAsync` and `IssueAsync`, with `RollBack` when the
window is full, and the futures with the wrapper's semaphore (`AcquirePermit`,
`IssueFuture`, `ReleasePermit`). The processing thread is `CourierPoll`,
`AsyncCourierPoll`, `HandleRequest`, `HandleSignal`, `HandleShutdown`; the delivery
thread `EventCourierPoll` with `RunListener`, `RespCourierPoll` with `RunCallback`.
Shutdown is `CloseGate`, a bounded drain, `RequestShutdown`, `Join`, `Sweep` of the
calls that were never answered, `FreeCouriers`.

### `Battleship` and `TorpedoDuel`

`Battleship` is the game: place fleets, shoot in turn at fresh cells until a fleet is
sunk. `TorpedoDuel` is the program: `main()` with its set-up script (`CreateContext`
to `StartGame`, with the error returns that can be taken, `Fatal`), the observer loop (`GetPublicBoard` of
one side, then the other, `ReadLast`, `Draw`), and `Cleanup` (`UnregisterCallbacks`,
`Shutdown`, `Join`, `DestroyLog`). A captain is a record; what its processing thread
does are `HearFire`, `HearReply`, and coroutines that sleep out a turn delay (`task`)
and then `Launch` or `TakeShot`/`RefuseShot`. `mail` carries the volleys between the
captains, `feed` what a captain says to its delivery thread, whose callback at
work is `cast`. `PlaysBattleship` is the refinement: a shot counts once its
outcome is known to the defender (`Resolved`), although neither captain ever sees
the other's board and each keeps a chart of its own.

### How they fit

`VyukovRing` refines the sequence that `RequestLane` and `EventLane` use as a ring;
`ResponseSlots` refines the moment a request is `handled`. `LeaseCounts` and
`NoUseAfterFree` of `RequestLane` justify that the other two never see their memory
go away. `TorpedoDuel` and `DeviceMonitor` compose a program with the library: threads
and queues of a context are explicit in them, while the broker lanes below are taken
for what the lane modules show (a request handled once, an event heard once and in
order). The composition is by these interfaces; there is no module with the whole
state in it, which would be out of reach of TLC.

## 3. What is checked

| run | instance | shows |
|---|---|---|
| `ring` | 2 producers × 3 calls, 2 slots | `SlotExclusive`, `ImplementsQueue` (refinement of `MpscQueue`), `FullMeansFull`, `AcceptedDelivered` |
| `ring_drain` (violation) | 1 × 1 | `DrainedWhenRetired` fails |
| `slots` | an asynchronous and a blocking requester, both timed; one slot used four times; pollers may be late | `OneHolder`, `NoLeak`, `OwnResponse`, `CancelSticks`, and `TimedRequestEnds` whatever the provider does |
| `slots_race` (violation) | 1 requester, 1 slot | `ReleasedOnce` fails |
| `lane_safety` | 2 owners, 2 senders, 2 buckets, ring of 1 | `LeaseCounts`, `NoUseAfterFree`, `AutoClearedFreed`, `SleepsWhenQuiet` |
| `lane_liveness` | 1 owner, 2 senders, ring of 2, `LivesOn` | `AcceptedIsServed`, `ClosedRetires`, `TeardownEnds` |
| `lane_leak` (violation) | 1 owner, 1 sender, 2 buckets | `ClearedFreed` fails |
| `events` | 3 listening threads, one of which emits and drops; 2 cells, rings of 1, 2 buckets | `CellsCounted`, `RingsCounted`, `InOrder`, `DropReaches`, `WakeNotLost` |
| `ext_ports` | a plugin thread, a library thread, a call, a signal, a worker; 2 slots opened twice at most | `HostInv` (types and `ImplCounted`), `OwnReply`, `SourceIsOpen`, `AttachIsWhole`, `NoWaitOnClosed`, `CtlNotLost`, `AnsweredNeverStarts` |
| `ext_stop` (violation) | the same without calls and signals | `StopClosesPorts` fails |
| `monitor` | 4 devices, asynchronous window of 2 | `WithinBounds`, `CallbacksInScope`, `AcceptedLand`, `ListenersHear`, `Finishes` |
| `duel` | board of 3 cells in a line, a ship of 2, queue and log of 1 | `DuelInv` (types and `OneBaton`), `ChartAgrees`, `OneWinner`, `FrameIsBelievable`, `LogOutlivesCallbacks`, `PlaysBattleship`, `Finishes` |

Every property of a passing run has a mutant: an altered action, a plausible bug
in the code it models, that makes TLC find the property violated. Mutants stand
beside the action they alter (`X_Something` beside `X`).

### Bounds, and why they are enough

* Ring of two slots: a position wraps around the ring within three calls, so
  every value of `seq - pos` (behind, at, ahead of the position) occurs, and one
  producer can overtake the other twice between its load and its claim.
  `Capacity > 1` is assumed: the constructor accepts 1, where the sequence numbers
  no longer tell a published slot from a free one; all presets use 16 or more.
* One slot used four times: a stale party of a generation meets the next two, and
  each requester can recycle the slot the other has given up. The code's 32-bit
  counter is not wrapped. The sweep of `markProviderGone` over several slots is
  left to the proofs, which hold for all bounds but a generation that wraps.
* Two buckets in a lane: a new one is registered while the old one drains. Two
  senders: one may hold the last lease. Two owners: the context changes threads.
* `events`: a cell goes to two rings at once, one may be full (depth 1) while
  the other is not; two buckets on three threads, so that a thread may find none
  left; two sends, so that a control value and an event meet in either order. The
  threads but the emitter are interchangeable, hence the symmetry set.
* `ext_ports`: two slots, so that a stale port coexists with the slot's next
  generation and with another open port; one name of each dispatch; a reply ring
  and worker queue of one, so that both fill up.
* `monitor`: four devices against a window of two, so that the window fills in both
  asynchronous parts; both bounded waits may give up at any time.
* `duel`: three cells and a ship of two give misses, hits, a sinking and a won game
  in at most three shots a side; the feed and the log drop at one entry. Either
  side opens.
* `CHECK_DEADLOCK FALSE` where the system may really stop: slots, whose generations
  are used up (a bound) or a request without a timeout waits for a provider that
  is gone; the ring with a stuck item; the event lane, when its calls are used up
  and its threads are shut down or asleep; the host, once it has stopped and all
  is closed; the two programs, which terminate. The other runs check
  deadlock, with an explicit idle step when all is over.

### Fairness

* `VyukovRing!FairSpec`: threads inside `tryEnqueue` are scheduled, the consumer
  keeps polling. The weak compare-and-swap fails only finitely often in a row:
  strong fairness of a claim, the hardware's promise. Nobody has to call.
* `ResponseSlots!TimeoutSpec`: a requester's poller runs and its timer fires (its
  own event loop, or the loop of `blockingWait`). Nothing is assumed of the
  provider.
* `RequestLane!FairSpec`: a sender that found a bucket goes on, a thread inside
  its dispatch loop, a handler's synchronous part or a teardown goes on. Nobody
  has to send, provide, clear or leave; no request has to time out.
* `TorpedoDuel!FairSpec`: `main()` runs on, and so do the processing and the
  delivery thread of each context; no key has to be pressed, as the duel ends by
  itself.
* `DeviceMonitor!FairSpec`: the same three, for one context. A bounded wait may give
  up, it need not.
* `EventLane` and `ExtHost` are checked for safety only. `WakeNotLost`,
  `NoWaitOnClosed` and `CtlNotLost` are the safety side of what must go on: whoever
  has work is awake, and whoever waits is waited on.

## 4. What is proved

`RequestLane_proofs`, for any number of provider threads, senders, buckets and
requests and any ring depth:

* `LeaseCounted`: `Spec => [](TypeOK /\ LeaseCounts)`;
* `TeardownFrees`: `Spec => []AutoClearedFreed`;
* `NothingUsedAfterFree`: `Spec => []NoUseAfterFree`, assuming `~LivesOn`. A thread
  whose loop is driven after its teardown resumes handlers whose pool was given
  up (section 5), so something must be assumed;
* `WakeUpsAreKept`: `Spec => []SleepsWhenQuiet`, with nothing assumed of what a
  thread does later. It is the safety half of `AcceptedIsServed` and
  `ClosedRetires`; the rest of those two needs fairness and stays with TLC.

`LeaseCounts` is not inductive: a step that drops a reference must know that its
actor holds one, and holds it once. `LeaseInv` adds that a thread polls or
has queued for release only buckets of its own, each in one of the two places
(`OwnedInv`); that the registered bucket is open, so still polled by its owner
(`RegisteredInv`), which is why a lookup never leases a freed one; and that a
sender has a lease exactly while it is under way (`LeasedInv`). The lemmas
`HoldersGrow` and `HoldersShrink` count the senders of a lease, and `LeaseKept`
covers the steps that move no reference. `RunningInv` says that the bucket of a
suspended handler is still polled or queued by its thread. `LeavingInv` says that
what teardown cleared is visited by the pass that teardown then makes: it is in
`todo`, or `work` forces another pass. `WakeInv`, for `WakeUpsAreKept`, says of a
thread that is awake what `SleepsWhenQuiet` says of one asleep: a bucket of its
own that is not quiet is still in `todo`, or `work` forces another pass. Apart
from its owner (`OwnerTouches`), only a sender can end a bucket's quietness, and
the sender that enqueues wakes the owner before it lets go of the lease
(`SenderWakes`); that is the case by case of `WakeStep`. All were
checked by TLC on the instance of `lane_safety` before they were proved.

`ResponseSlots_proofs`, for all sets of requesters, all pool sizes and numbers of
generations:

* `TypeCorrect`: `Spec => []TypeOK`, without further assumption.
* `SlotsHaveOneHolder`, `SlotsDoNotLeak`, `ResponsesAreOwn`, `CancelsStick`: the
  four safety properties of `slots`, without further assumption: pollers may run late.
  They name the one event that ends them. Nothing else, no timeout, cancel, clear,
  stale reply or harmless late poll, makes a slot shared, lost or released twice.
* `BlockingTimeoutsReleaseOnce`: `Spec => []ReleasedOnce` if only blocking requests have
  finite timeouts: the promise of `mt_queue.nim` holds where no awaited future times out.

The argument. A slot's *holder* is whoever must release it: the requester from
the pop of the free list until its request is resolved or given up
(`RequesterHolds`), the provider from then on (`ProviderHolds`). `OneHolder` and
`NoLeak` say that free list and holders partition the slots; neither is
inductive, since nothing in them excludes, for instance, a reply in progress
(`task = "writing"`) for a generation that is over. What is inductive is `IntactInv`,
`Intact => IInv`; a pool that is intact after a step was so before it (`IntactBefore`),
so each lemma about an action starts from `IInv`. `IInv` adds:

* `HandleInv`: the generation of a handle is one ahead of the control word between
  `Pop` and `Arm`, and not ahead of it afterwards; a reader's slot, late or not, is
  `Ready`; the slot of a `late` request is neither `Empty` nor `Writing` for it, so that
  `giveUp` finds nothing to abandon and either leaves it alone or releases it twice;
* `TaskInv`: the provider knows no future request, writes only where the word says
  `Writing` or `AbandonedWriting`, and `Ready` means that the bytes are the current
  request's;
* `AwaitedInv`: a request that is still due (`Empty` and sent, or `Writing`) has a
  waiting requester and a task, which is what makes give-up and reply meet;
* `FreshInv`, `HistoryInv`: generation 0 is never given up; what a past request
  came to is final.

Then four lemmas on what a step does to the holders (`SameHolders`,
`RequesterReleases`, `ProviderReleases`, `HandedToProvider`) and one lemma per
action. `CancelStep` is where `AwaitedInv` is needed: the canceller hands a slot to
the provider although it is not its holder, and the lemma finds the requester
that was.

`VyukovRing_proofs`, for any set of producers, any capacity above 1 and any number of
calls:

* `RingTypes`: `Spec => []TypeOK`. Positions, sequence numbers and the history
  keep their ranges; the added conjunct `CallInv` says that a producer inside
  `tryEnqueue` is in one of its calls, so that it has an item.
* `SlotsAreExclusive`, `FullOnlyWhenFull`: the two safety properties of `ring`.
* `RingIsQueue`: `Spec => ImplementsQueue`, the refinement of `MpscQueue`. A claim is
  an enqueue, the take of a payload a dequeue, every other step stutters.

`RingInv` says what the sequence number of a slot means. The positions from `deqPos` (the
next to free) up to `enqPos` (the next to claim) are a window no longer than `Capacity`
(`WindowInv`), so that no two of them share a slot; this is where the lemmas on
`% Capacity` are needed. No slot's number lags behind a position that was freed or may be
claimed (`LagInv`). A slot that is not in the window is free for the position `enqPos` will have there
(`FreeInv`); one that is was claimed, and is being written by one producer or published with the
item `log` has for that position (`ClaimedInv`, `WritersInv`). `OwnerInv` says which
published position the one consumer is taking or freeing. What the other producers have loaded may
be old, in one direction only (`SeekersInv`): that is why their compare-and-swap succeeds only on a
slot that is still free, and why "full" was true.

`EventLane_proofs`, for any numbers of threads, emitters, listeners, cells, buckets and calls
and any ring depth:

* `TypeCorrect`: `Spec => []TypeOK`;
* `RingsAreCounted`, `CellsAreCounted`, `EventsInOrder`, `DropsReach`, `NoWakeUpLost`: the five
  safety properties of `events`, without further assumption.

All rest on `BaseInv`: the types with counters in `Int`, since only the counting
says that none is negative, where a thread is in its emit (`SendAt`), whose a bucket
is (`BucketAt`, `LoopAt`), and that a thread has at most one registered bucket (`OneListed`).

* `RingsInv` counts holders as `LeaseInv` does; a shutdown that gives up leaves its poll fn's
  reference, and the count does not care in which order they go.
* `CellsInv` counts the places of a cell: slots of rings, and rings its emit has still to try.
  Each step moves the cell, or gives one reference back: `SlotsMore` for an enqueue, `SlotsLess` for
  a poll, where all the slots of one ring move up by one, so the proof gives a bijection
  of the slots, and `DueLess` for a target tried.
* `WakeInv` strengthens `WakeNotLost` to threads that are awake: a ring with something in it is
  still to be looked at in this pass, or the pass will be followed by another.
* `DropInv` is `DropReaches` in the terms of the sender.
* `OrderInv` sees each bucket as a stream: what its owner has heard through it, then what waits
  in its ring, then the event each emitter has under way to it. On a stream the
  events of one emitter are in order, and no event is on two streams of one thread (`StreamAt`);
  a new event, by its number, is on none, and goes on one of each thread because of `OneListed`.
  `CellsInv` is needed here: an event is not overwritten while its cell is in a ring.

`ExtHost_proofs`, for any number of plugins, library threads, requests, signalers, workers, names,
slots and generations and any capacity of the rings:

* `ImplsAreCounted`: `Spec => []HostInv`, the types and the reference counts;
* `RepliesAreOwn`, `SourcesAreOpen`, `NobodyWaitsOnClosed`, `ControlNotLost`,
  `AttachesAreWhole`: the other five invariants of `ext_ports`;
* `AnsweredStay`: `Spec => AnsweredNeverStarts`, a property of steps.

Nothing is assumed of the plugin: it answers on any open port, late or twice. Requests,
workers and slots are finite sets, as they are in any program (`HostAssumption`): a
reference count is the size of such sets. The parts of `IInv`:

* `PhaseInv`: how far the stop has come, and that the bridge works for a session exactly while it
  is `closing`. `ShutInv`: the port whose closing has begun is still open, but has no name and no
  waiting request. Without it `SourceIsOpen` and `NoWaitOnClosed` are not inductive, as
  `bridgeClose` withdraws first and closes later. `OpenSteps` says which steps open or close a port,
  the other lemmas use only that.
* `CallInv`: a request that was answered without being invoked is not `queued`, so that no worker
  wins the exchange of its state; replies in the ring are to requests that were invoked.
* `CountInv` is the count, `CarryInv` that a message on its way, or a request whose coroutine has not
  returned (`FramedMade`), has a port that was opened, so that
  opening a slot again, with a new generation, does not touch it. As in `EventLane_proofs` a
  step of the pool's queue is a bijection of its places (`PlacesTail`); `Stepping` collects what
  each of the counting lemmas (`CountOpens` to `CountStops`) starts from.
* `CtlInv`: a control message is in the ring once or in work, never both.
* `AttachInv` relates a session to its ports. `SessionInv` says what its message is about at each
  stage and that the mutex is held by whoever is between the first and the last step; `ClosedInv` that a
  port is closed when the session is told so; `ServeInv` that a port, until it is shut, serves what was
  provided; `KnownInv` that an open port is the attached one or in the hands of the holder of the mutex.
  Together they give `AttachIsWhole` whatever fails in between.

`DeviceMonitor_proofs`, for any fleet from four devices on, as the script removes the fourth,
and any window:

* `TypeCorrect`: `Spec => []TypeOK`, whose point is the counters;
* `WindowTakesFutures` (`WithinBounds`: the counters, and with them that no future is refused),
  `CallbacksKeepInScope`, `AcceptedCallsLand`, `ListenersHearInOrder`: the four invariants of
  `monitor`.

`Types` has the counters in `Int`, since that they are never rolled back below zero is what is to be
proved. `Control` says where `main()` can be at each line of the script (`Places`, `AtLine`), that the
context is open until `~Mylib()` closes it, and that nothing is left at the end. The rest of `IInv`:

* `Waits`: the call ring holds signals and, behind them, at most the one request `main()` waits for.
  `PollFinds` draws from it what the processing thread can meet. `InFlight` and `Readings` count
  what is in that ring.
* `Once`: a call is at one place only, in a ring or at its callback, since `main()` has begun every
  call that is out and does not begin one twice. `InWindow`: the reservations are exactly the
  calls in the two rings, which is why the response ring, as large as the window, is never full.
  The two are inductive together only.
* `Counted`, `Drained`: `pending` is the number of asynchronous calls that are out, and the drain, unless
  given up, has emptied the ring of calls before the couriers are freed.
* `Permits`: permits, futures issued and the one `main()` is about to issue add up to the window.
  With `Once` and `InWindow` it gives `RoomForFuture`, the reason no future is refused.
* `BatchComesLast`: wherever the batch is, in the event ring, at the listeners or heard, each device is
  heard of or further on than it. `RemovedIsDeaf`: device 2 is removed after the listener was.

`TorpedoDuel_proofs`, for any board, any fleets that fit it, and any bounds of the event queue and the log:

* `TurnsArePassed`: `Spec => []DuelInv`, the types, and one turn to take until a fleet is sunk;
* `ChartsAgree`, `WinnersAreOne`, `LogIsLast`: three more invariants of `duel`;
* `DuelIsBattleship`: `Spec => PlaysBattleship`. A shot taken is a step of `Battleship`, every other step
  stutters.

Nobody referees the duel, so that whose turn it is has to be read from both captains, the mail and the sleeping
coroutines. `Duel` says that this is always one of four shapes: a coroutine sleeps before it fires (`Launching`), a
volley is in the mail (`Flying`), the other captain sleeps before it takes the shot (`Landing`), or a fleet
is sunk (`Beaten`). Each shape says what is `Due`: how many shots each has fired and received, and how far the
reply is that crosses the counter shot. `Settled`, `Answered` and `Aiming` relate a captain's chart to the
other's board, `Sound` a board to how the game stands for it.

* `SetUpInv` ties this to the place of `main()`: which captains are ready and linked at each line
  (`AtSetUp`, `WhereLinked`), so that the opening shot is fired once, by one captain.
* `Threads` says at which lines of the cleanup a delivery thread can still run, and so call a callback.
* `Adrift`: `main()` shuts blue down before red. One last shot of blue may land then, which red, alone, cannot
  answer to any effect. That shot is no longer one of the four shapes, but still one that `Battleship` allows:
  the refinement needs `Adrift` beside `Duel`.

`TorpedoFrame_proofs`, on top of these, for the loop of `main()`:

* `FramesAreBelievable`: `Spec => []FrameIsBelievable`.

A frame shows Red as it was and Blue as it was a little later. `Precedes` relates the one view in hand to Blue as it
is now: the chart is covered by Blue's waters, the counters differ by one at most, and a winner has a loser. It
holds when the view is taken, by `ChartsAgree` and `WinnersAreOne`, and is kept while the captains play on,
since they only gain (`Grows`, `PrecedesGrows`); taken of the second view it is `Matches`, which `Drawn`
carries to the symbols on the screen. In the other order of the two views nothing of the kind is kept. `Decided` says that
the last round begins with a captain beaten, so that a winner announced is the right one.

The invariants that were new in these proofs were checked by TLC, on the instances of the runs,
before they were proved.

The type invariants of ring, slots and lanes are therefore not repeated as
invariants of their runs.

Only model-checked: all liveness, since the prover has neither `ENABLED` nor fairness.
Induction over data and recursive operators, also beyond the prover, are not
used in the modules with proofs.

## 5. Where code and documentation disagree

Four have a run whose trace shows them, and an entry in `PROJECT.json`.

* `ring_drain`: `mt_transport.nim:185` calls closed-and-empty "the definitive
  drained point". A sender that tested `closed` before the close can still
  enqueue afterwards; its item is never consumed (the request times out; its
  cell is only freed with the slab).
* `slots_race`: the timer of an asynchronous request fires, the response poller
  runs once more before the continuation, finds the slot `Ready`, releases it;
  `giveUp` finds (generation, `Ready`) still there and releases it again. The slot
  is pushed on the free list while it is there, or in use by another request.
* `lane_leak`: explicit `clearProvider`, then teardown without a poll pass between
  them, as teardown polls only if its own cleanup retired something.
* `ext_stop`: `ext_runtime.nim:1454`; a thread that tested `running` before the stop
  opens a port in a slot the bridge has already looked at. It stays open in the
  stopped host.

Met while modelling, without a run:

* Request lane. A cancelled request whose slot was recycled before its poller
  looked sees neither its own generation nor `Abandoned`; without a timeout it never
  ends (`mt_request_broker.nim:1292`, `:1382`). `drainPendingRingFrees` runs while
  handlers of the cleared provider may be suspended; the loop, if driven later,
  resumes them (`mt_broker_common.nim:610`, `:480`). Clear and provide again before
  the poll pass: requests already failed with "provider was cleared" are executed by
  the new handler (`mt_request_broker.nim:1028`).
* Event lane. `doc/MultiThread_EventBroker.md:122` has `dropAllListeners` remove all
  buckets of the context; the code clears `hasListeners`. A control value that finds
  the ring full is dropped (`mt_event_broker.nim:674`), and a later `listen` revives the
  old handlers; one that is overtaken by a new `listen` clears the new handler, while
  `hasListeners` stays true. Shutdown leaves the handlers in the thread's table. Order
  is not kept between a ring in shutdown and its successor. An event
  that reaches a retired ring leaks its cell: freeing the ring releases no cells.
  Listener ids restart when a table becomes empty, so that a stale handle may drop
  another listener. `DropReaches` and `InOrder` except the refusal and the successor.
* Examples. `torpedolib.nim:830` says that the listener of the reply fires the next
  volley; the survivor of the fire does (`:872`). `main.cpp:770` announces "Unknown wins
  the duel" when `main()` quits between a sinking and the winner hearing of it. The
  device monitor's event counters are declared after `lib` and die before it.
* `api_library.nim:1708` describes `asyncDepth` otherwise than `:1371` keeps it.
  `ext_runtime.nim:2359` reads the pool pointer of a port that the stop may clear.

## 6. Not modelled

Configuration, codecs, macros and binding generators have no run-time state of
their own. Memory orders weaker than sequential consistency, allocation failure,
and the operating system's side of a signal are outside the models. Vendored
code and tests are not modelled. Of the examples, `main.c` calls an API the library
no longer has; persistence, `hierlib`, `cpp_host_lib` and the programs in other languages are
straight-line clients, whose interaction with the library `DeviceMonitor` covers.

Parts of modelled components that are left out: in-place calls, events to plugins,
imported and peer libraries, a second start of the host, a plugin that withdraws a single
name or makes control calls from within an invoke (the C++ plugin does neither); cancel hints to a
plugin, which change nothing in the host; an answer
that the user's codec cannot encode (`mpsBadValue`); growth of the
couriers' rings by segments, several foreign threads in one context, sub-instances;
handlers of events that suspend. Error returns of the two programs that cannot be taken there are
left out too: after the link and the start of the duel, of a signal and of the shutdown request
in the device monitor; the comments at `Fatal`, `Needed` and `RequestShutdown` say why. Parts with no module yet: the sharded free list, the
recycling of signal wrappers, the cancel scan, the signal lane, the single-threaded
brokers, `BrokerScope`, `BrokerContext`.

Hazards of the code that no property above covers, besides those `PROJECT.json` lists
with a note: the 32-bit tag of the free list and the generation may wrap; a ring of
capacity 1; request ids outlive the pool they came from; owner references are
only dropped at teardown; a `BrokerScope` closed from one of its own undos; the
winner banner of the torpedo program.

## 7. Plan

In order of importance; each step has its runs, mutants and `map` entries.

1. `ShardedFreeList`: the Treiber stack with its tag, one action per access; the
   abstract side is the multiset `free` of `ResponseSlots` and `EventLane`. Hazard: ABA,
   and a tag that wraps.
2. `BrokerSignal`: fire, close, recycle; the abstract side is `Fire` of
   `RequestLane`. Hazards: close against firers, a recycled wrapper.
3. `CancelScan`: cancel epoch and the in-flight table keyed by slot index, with
   two contexts of one broker type on one thread, and ids that outlive their pool.
4. `CallCourier` with its growth and several foreign threads, of which
   `DeviceMonitor` has the part its program uses; then `Subscriptions`.
5. `SignalLane`, `Scope`, `BrokerContext`, the single-threaded brokers.

To stay at a size that is re-checked in minutes, a module gets one safety and, if
it has something that must eventually happen, one liveness run or both in one; the
violation runs of section 5 give way when the code is repaired.
