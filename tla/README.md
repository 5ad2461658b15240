# ECONITH in TLA+

TLA+ models of ECONITH's trading core, the TLC configurations that check them
and the TLAPS proofs about them. ECONITH is one Python process: an `asyncio`
event loop that carries a World simulator (macro-economy, LLM-written
scenarios), a Quant engine (market stream, AI desks, order path), a risk
governor (the Sentinel) and an HTTP/WebSocket surface (`main.py`). All paths
below are relative to `src/`.

## 1. Inventory

Everything talks through `core/event_bus.py`: `publish` puts an event on one
unbounded queue and never suspends; one task takes events off in order and
awaits every handler of the topic before the next (`_dispatch_loop`, 142-166).
Two consequences shape all the models. Code between two *real* awaits (an
exchange call, a sleep, a thread) is one atomic step. And a handler that awaits
something slow holds up every topic, the Sentinel's included.

| Component | State | Operations | Interacts by | Hard behaviour |
|---|---|---|---|---|
| Sentinel (`sentinel/manager.py`, `circuit_breaker.py`) | breaker, equity/peak/positions, drawdown limit, risk freeze and its deadline, soft breach, paused | handlers of tick, fill, wallet and capital sync, risk directive; 1 Hz `run`; `status`, `reset`, `pause` | consumes market, fill and wallet topics, publishes `sentinel.status` and `.emergency` | two cooldowns with different starts; an OPEN breaker that becomes HALF_OPEN only when read |
| VaR engine (`sentinel/var.py`) | return windows | estimate | called by Sentinel | numeric only |
| Execution bridge (`quant/ccxt_bridge.py`, `bridges/quant_bridge.py`) and mode switch (`core/mode.py`) | bound CCXT session, `_live`, armed guard, QuantMode | `connect`, `close`, mode listener, `execute`, wallet reconciliation | mode listeners, bus, the exchange | awaits between check and use; timeouts of orders that execute; overlapping connects |
| Signal-to-order path (`econith_quant/bridge/ai_bridge.py`, `econith/quant/routing/router.py`, `quant/payloads.py`) | target exposure, Sentinel mode as last heard | `_on_signal`, `_on_sentinel`, side resolution | `ai.signal` in, `order.intent` out | stale mode; a target that is advanced whether or not the order succeeds |
| Predictor, Core AI, consensus (`ai/inference/predictor.py`, `ai/meta/core_ai.py`) | latched World shock, directives, context | inference loop, directive loop, handlers | World topics in, signals and directives out | the mode switch leaves latched and queued data behind |
| Cockpit and telemetry (`core/cockpit/ws.py`, `core/telemetry.py`) | a second book of the account | fill, tick, capital and wallet handlers | bus, websockets | claims to be the Sentinel's ledger 1:1 and has other guards |
| Engine and clock (`core/engine.py`) | TimeEngine, tick pipeline | ticks, pause, resume, reset | publishes ticks and runs the graph inside them | the kernel hears of a tick later than the graph |
| System controller (`core/system_controller.py`) | operating mode, controller, World switch | `set_mode`, `set_controller` | mode manager, settings | switches that others read before an await and act on after it; its own locks are never contended, its coroutines do not await |
| LLM key pool (`core/llm_pool.py`) | rotation index, cooldowns, local slot, last provider | ordered keys, failover over two routes, acquire with a timeout | called from worker threads | real threads; an unlocked counter |
| Hypothesis runner (`ai/simulator_engine/hypothesis_runner.py`) | lock, running flag, last outcomes | `run_once`, loop, stop | kernel, LLM pool, controller | armed at the start, mutates and measures after long awaits |
| World kernel, world bridge, sovereign graph (`ai/simulator_engine`, `bridges/world_bridge.py`) | two world models, pending mutations, chronology, simulated day | `_on_time_tick`, tariffs and mutations, fork, reset | bus, engine, HTTP | one edit applied to two models in turn; a reset while a handler waits for the LLM |
| Governors and dialogue (`econith/world/core`) | LLM stance and its lifetime, one task each | deliberate in the background, age with the ticks | started by the kernel | an answer that arrives after the world it was thought for |
| Market streamer (`infrastructure/websocket/streamer.py`) | link, back-off, `_connected`, pause | dial, frames, reconnect | publishes raw ticks and log events | reconnects; ticks that age in the queue |
| Alerting (`infrastructure/observability/alerts.py`) | last alert of each kind | throttle, POST to Telegram | bus handlers that await the network | holds up the ticks that the latency breaker times |
| Macro hub, storage, collectors, dashboard, training | buffers and files | I/O | network and files | none of their own |

What makes each of the modelled parts correct is stated in section 4. The
parts that are not modelled are in section 8 and, file by file, in
`PROJECT.json`.

## 2. Modules

| Module | Models | Composes |
|---|---|---|
| `CircuitBreaker` | `CircuitBreaker` of `sentinel/circuit_breaker.py`, as operators on a record so that a handler can call several of its methods in one step | |
| `Sentinel` | every handler, the loop and the controls of `sentinel/manager.py`, and the clock of both cooldowns | extends `CircuitBreaker`, instantiates `FreezeContract` |
| `FreezeContract` | abstract: what a reader of the Sentinel's mode may rely on | |
| `ExecutionSession` | mode switch, `connect()` calls, session disposal and shutdown, the dispatcher inside `_on_intent`, the venue, and the position of the ledgers | |
| `OrderFlow` | from `ai.signal` to a venue position under the Sentinel's mode | instantiates `FreezeContract` in place of the Sentinel |
| `Coupling` | provenance of World data in signals, directives and orders across mode switches | |
| `Ledger` | the Sentinel's book and the cockpit's, on the same events | |
| `LLMService` | abstract: what the LLM pool promises its callers | |
| `LLMPool` | `RoutedLLMPool` and `LLMKeyPool`, at every access of a worker thread to a shared attribute | instantiates `LLMService` as its refinement |
| `HypothesisRunner` | the loop, forced cycles, lock, snapshots and stop of the runner | |
| `WorldRuntime` | clock, kernel, graph, world bridge, background deliberations and `POST /world/reset` together | |
| `MarketFeed` | streamer, hop over the bus, latency breaker and alerts together | extends `CircuitBreaker` |
| `SentinelProofs`, `ExecutionSessionProofs`, `OrderFlowProofs`, `CouplingProofs`, `LedgerProofs`, `LLMPoolProofs`, `HypothesisRunnerProofs`, `WorldRuntimeProofs` | theorems | extend the module they are about and `TLAPS`; `SentinelProofs` also instantiates `MarketFeed` |
| `MCSentinel`, `MCExecutionSession`, `MCOrderFlow`, `MCLedger`, `MCLLMPool` | values of constants for TLC; the other modules need none | |

`FreezeContract` is the joint between the Sentinel and its clients: `Sentinel`
is proved to implement it, and `OrderFlow` uses it as its environment, so what
is shown of orders holds for any governor with that contract. `CircuitBreaker`
is used twice: by the Sentinel with all that opens it, and by `MarketFeed` with
the ticks that come late.

## 3. How state and actions correspond to the code

`PROJECT.json` ("map") gives the lines of every definition. Definitions keep
the source's names (`_on_fill` is `OnFill`, `_max_dd` is `maxDd`). Definitions
under the word "Mutant" are plausible slips of the code (a dropped guard, a
missing reset); no specification uses them, they exist to show that each
checked property notices such a slip.

**Sentinel.** Time is a countdown per cooldown (`br.cool`, `riskLeft`) instead
of a deadline, moved by `Tick`. Equities are integers, the breach test
`drawdown >= max_dd` is cross-multiplied. The fill arithmetic is abstracted to
"some equity results"; VaR to "some verdict". `outbox` holds what the step
published. `operator` is a history bit that marks an operator's re-arm.

**ExecutionSession.** A connector is one call of `connect()`, at boot or from
a POST, and owns the session it opens (`none`, `open`, `closing`, `closed`).
`conn[c].pc` and `exec.pc` name the await at which a call of `connect()` and
the dispatcher are suspended: load_markets, capital, wallet, answer; ticker,
order, price, wallet, answer. `via` is the session a call captured before the
await, `seen` the position the exchange computed its answer from. Every intent
buys one unit, so positions are counts. `verdict` is the history of each
intent.

**OrderFlow.** Exposures count in units of `ai_min_exposure_delta`, so "change
below the minimum" is equality. A signal has `flat`, `target` (direction times
sizing confidence) and `way` (sign of direction; 0 when the router's plan has
no leg). The quantity is any, because minimum sizes, haircuts and the pre-trade
gate rescale it. The venue follows the futures rule for reduce-only orders:
they are cut down to the position they oppose, or refused. `under` is history:
the mode in which the bridge admitted the order.

**Coupling.** Of every number only its provenance is kept: `latch` (the
Predictor's shock), `context` (the Core AI's), `memory` (an exposure that a
signal of SIMULATION set). A switch is one step and leaves the queue alone.

**Ledger.** Both handlers of an event run before the next event, so an event is
one step of both books. Quantities are lots, and a position keeps its cost
(`avg * qty`) in place of `avg`: every sum is an exact integer. Fills whose
share of the cost is not an integer (`Exact`) are left out, and so are the
cockpit's session statistics. `WorthAfter` is the Sentinel's equity after a
fill at the mark. `synced` is history.

**LLMPool.** `pc[t]` is the next access of thread `t` to something shared:
between two labels a thread touches only its locals. The rotation index is read
(`LoadIndex`) and written (`StoreIndex`) in two steps, since the code does not
lock it. It is kept modulo `Period`, a multiple of every length that it is
reduced by. `permits` is the semaphore; its timed acquire may time out whenever
the permit is gone. `cool` counts down the cooldown of a key.

**HypothesisRunner.** `pc[t]` is the await at which a cycle is suspended; the
`asyncio.Lock` is a holder and a queue of waiters. `since`, `disturbed` and
`enteredArmed` are history: the days since the first snapshot, whether another
cycle changed the World since, and whether the runner was armed when the cycle
got the lock. A cancellation can hit any await.

**WorldRuntime.** A reset replaces the objects of kernel and graph; `world`
numbers them, and the number in a tick, a talk or a stance says for which it
was made. `ticks` are the `time.tick` events on the bus, `emitting` the handler
that is suspended for an LLM headline. An edit is given to the kernel and then
to the graph in one step, because the code between does not await; only edits
in `Shared` name something that the graph knows. `stance` is per broker, since
a deliberation keeps the broker that started it. `astray` is history: the last
tick was skipped (the World was off) or made before the reset.

**MarketFeed.** Of a frame only its age is kept. Computing takes no time: the
clock (`Tick`) moves only when the bus is empty or waits for a POST, and then
everything on the bus ages. The latency anomaly's back-dating of frames is a
frame that is late when it arrives. LIVE mode, with alerts configured.

## 4. What the runs check

| Run | Expect | What it shows |
|---|---|---|
| `sentinel` | pass | `HonoursContract`: nothing but an operator ends a freeze before its cooldown is over. `EmergencyIsTrue`: a FREEZE event is published only by a step that really freezes, for a full cooldown. `FreezeIsLifted`: a drawdown freeze ends unless the platform is paused. `BreachIsCaught`: a breach that stays while the market keeps trading freezes the platform in the end, although wallet syncs and directives do not call the governor. `TypeOK` contains the envelope of the drawdown limit |
| `execution_demo` | pass | `HonestReports`: no synthetic fill for an order given to the venue, no fill for one the venue has not executed. `LiveSessionIsOpen`: `_live` implies a bound, open session. `NothingHangs`: every intent gets a verdict, every `connect()` returns |
| `execution_live` | pass | `LedgerReconciled`: when all is settled and nothing failed or was synthetic, the ledger holds the venue's position |
| `order_flow` | pass | `ReduceOnlyHolds`: an order admitted in REDUCE_ONLY never enlarges or turns the position. `FreezeTakesHold`: under a lasting freeze the last intent is dispatched some time |
| `order_side` | violation | section 5 |
| `coupling` | pass | `SignalsOfRealityAreUncoupled`: no signal computed in REALITY carries the latched shock. `ShockWearsOff`, `LatchLeavesTheBus`, `MemoryIsShed`: the latch, the biased events on the bus and the remembered exposure run out once REALITY lasts |
| `ledger` | pass | `Mirrored`: the books hold the same positions always, and the same capital and profits until the first wallet sync, although their guards differ. `OnlyRebasingSplits`: later only a re-base of an emptied account parts their cash. `FillsConserve`: a fill at the mark moves profit from unrealised to realised and makes none, less the fee of a close; overshooting closes included, OPENs against the position excepted (section 5) |
| `llm_pool` | pass | `ImplementsService`: local runs are serialised and a request fails only when every enabled route refused it. `RoundIsComplete`: the raced rotation still gives every warm key once. `EveryRequestEnds`. `TypeOK` says that the permit is there exactly when nobody has the runner, and that no request has a key on its list twice |
| `hypothesis` | pass | `DeltasAreOwn`: no other cycle changes the World between the snapshots of one. `SpanIsReal`: a reported span is never longer than what passed, resets included. `RequestAnswered`, `LoopKeepsGoing`: nobody dies with the lock, and an armed loop is not starved by requests |
| `world_runtime` | pass | `InStep`: an edit the graph knows is in the kernel's world exactly if it waits or has forked history, once. `HistoryIsOrdered`, `StanceOfThisWorld`, `KernelKeepsDay` across switches, slow headlines and a reset. `EditIsForked`: a waiting edit forks the chronology unless the clock is kept paused. `KernelComesToRest`: under a stopped clock the kernel works off its ticks |
| `market_feed` | pass | `AlertStormEnds`: slow alerts make ticks late and late ticks cause alerts, but this dies down: with the link up, the platform not paused and no more frames that the exchange sent late, the ticks on time close the breaker, and it stays closed. `FeedIsRetried`: a lost link is dialled for ever, paused or not |
| `feed_hot_path` | violation | section 5 |

**Bounds.** *Sentinel*: equities 0, 96, 98, 100, 103 around a limit of 3 % (96
breaches the base limit, 98 a tightened one, 0 is a wiped account, 103 a new
high), directives below, inside and above the envelope; thresholds and cooldown
of two so that "not yet" and "just now" differ. *ExecutionSession*: the boot
connect and one operator request in the demo environment, two (interchangeable)
requests on a live account, two intents; an overlap needs two connects, the
stale wallet one fill and one sync. `CHECK_DEADLOCK FALSE`: after shutdown, or
with every intent served, the system really stops. *OrderFlow*: exposures to
2, positions to 2, six signals that enter, trim, turn and flatten with either
sign; three events on the bus allow a status between two signals. `order_side` has
the two signals that enter a long and trim it. *Coupling*:
shocks of two inferences and three events; any longer queue repeats the same
kinds of overtaking. *Ledger*: two symbols, costs in multiples of six so that
halves and thirds are exact, positions of up to two lots (one is closed, a part
is closed, an overshoot turns), one kind of fee, wallets that are emptied and
that hold a position the books have not; `MaxCost` and `MaxCash` stop repetition.
*LLMPool*: two threads, which is what a race for the index or the slot takes,
and two keys; the cooldown of one tick ends between any two steps.
*HypothesisRunner*: the loop and two requests, so that one waits behind
another; two days. *WorldRuntime*: one edit that both models know and one that
only the kernel does, clock speeds 1 and 2 so that days are skipped, one reset,
two ticks on the bus. *MarketFeed*: a breaker that opens at the second late
tick, POSTs of up to two ticks, a throttle longer than a POST, two events on the
bus; it also passes with three.

The bus is unbounded in the code; `MaxQueue` only stops producers in the model;
a handler that publishes has just taken its own event off, so the bound never
blocks one. `MaxIntents` bounds the intents of a run, `MaxDay` and `MaxWorld` the
days and the resets of the World; a value at its bound stays there.

**Fairness.** `WF(Tick)` in `Sentinel`: the monotonic clock advances.
`WF(RunCycle)`, `WF(PublishStatus)`: the status loop is a task that wakes every
second. `WF(Dispatch)`, `WF(Serve)`: the bus task takes the next event, and each
exchange call, LLM call or POST returns or raises since clients have timeouts.
`WF(ConnStep)`, `WF(Dispose)`: tasks that have been started. `WF(Infer)`: the
Predictor's loop unless paused (a pause is an action of `Coupling`, and the
liveness properties except it). `WF(Serve(t))` in `LLMPool`: each thread goes on;
nobody owes a new request. `WF(LoopWakes)`, `WF(Step(t))` in `HypothesisRunner`:
sleeps end and every started cycle goes on; the lock is handed to its first
waiter, so no stronger fairness is needed. `WF(Advance)`: the clock's task ticks
unless paused. `MarketFeed` asks `SF(DialEnds)`: a dial ends, with success or not,
though the bound of the bus may refuse its event in between; and
`TimeGoesOn`: there is no end of steps in no time. A tick of the host's clock that
finds every counter at rest changes nothing, so the formula asks for no end of
ticks that do, or of moments at rest (`AtRest`); a quiet feed is a behaviour like
any other. Markets, operators, the
World, the Core AI and the venue's matching owe nothing. In `OrderFlow` features
have arrived and the runtime is not paused; a pause stops inference and status
together.

## 5. Where the code departs from what it says

The violation runs end in a shortest trace; `PROJECT.json` quotes the line that
each contradicts.

| Run | The code |
|---|---|
| `order_side` | the leg takes the signal's side, not the side of the change, although `ai_bridge.py` 10 lets only reduce-only and flattening intents pass in REDUCE_ONLY: a long is entered, the mode changes, a weaker signal in the same direction trims it, and what passes is a BUY with the reduce-only flag. It cannot reduce the long, and the bridge believes it has trimmed |
| `feed_hot_path` | `alerts.py` says that its `schedule_*` methods keep the hot path off the network; its bus handlers do not use them but await the POST, the dispatcher waits with them, and ticks that came on time are late for the latency breaker |

The same models reach the departures below. Each is kept as a stated property
beside the others, without a run of its own; put it in the configuration named
here, in place of its properties, to see the trace.

| Property | With | The code |
|---|---|---|
| `Sentinel!FreezeIsAnnounced` | `Sentinel.cfg` | `trip()` does nothing while the raw state is OPEN, even when its cooldown is over and nobody has read `state`: the new freeze is not announced |
| `Sentinel!BreachedStatusIsFrozen` | `Sentinel.cfg` | wallet syncs and directives do not call the governor: a breach they reveal is published with mode NORMAL until the next tick or fill |
| `ExecutionSession!NoLiveSessionInSimulation` | `ExecutionLive.cfg` | the mode is read before `load_markets` is awaited and not after: a session is bound in SIMULATION |
| `ExecutionSession!NoLiveOrderInSimulation` | `ExecutionLive.cfg` | the mode is read before the ticker is awaited: an order reaches the venue in SIMULATION |
| `ExecutionSession!NoOrphanSession` | `ExecutionLive.cfg` | a second REALITY request overwrites the bound session without closing it |
| `ExecutionSession!NoSyntheticBesideSession` | `ExecutionLive.cfg` | each `connect()` clears `_live` although a healthy session is bound: orders are filled synthetically meanwhile |
| `ExecutionSession!HonestReports` | `ExecutionLive.cfg`, `Expiring = TRUE` | `filled = 0` is read as the whole quantity; the passing runs assume that the venue acknowledges only orders that it executes |
| `ExecutionSession!LedgerReconciled` | `ExecutionDemo.cfg` | a wallet answer overtaken by a fill puts the ledger back (`connect()` syncs the demo wallet beside the dispatcher) |
| `OrderFlow!NoOrderWhileFrozen` | `OrderFlow.cfg` | the bridge hears of a freeze up to a second late, and queued intents are not looked at again |
| `OrderFlow!ReduceOnlyHolds` | `OrderFlow.cfg`, `Derivatives = FALSE` | on a spot account `reduceOnly` is not sent, and such a BUY enlarges the long in REDUCE_ONLY |
| `Coupling!DirectivesAreLive` | `Coupling.cfg` | the Core AI never forgets the last shock of the sandbox |
| `Coupling!OrdersOfRealityAreUncoupled` | `Coupling.cfg` | events queued before the switch to REALITY are executed after it; the exposure taken up in the sandbox is the base of the first order in REALITY |
| `Ledger!AllFillsConserve` | `Ledger.cfg` | an OPEN against the position, which a reversing signal sends, is averaged into the cost of what is left and books no realised profit: equity changes by the fill alone, although `manager.py` 18-20 says that equity is never fabricated |
| `HypothesisRunner!GuardrailHolds` | `HypothesisRunner.cfg` | arming is looked at when the lock is taken, and an autonomous cycle changes a World that has been switched off since; `HypothesisRunner!BegunArmed` says what does hold |
| `WorldRuntime!ResetLeavesDayZero` | `WorldRuntime.cfg` | a tick that waits on the bus during the reset sets the new kernel's day ("leave it paused at day zero", `main.py` 518) |
| `WorldRuntime!OldWorldIsSilent` | `WorldRuntime.cfg` | a handler that waits for its headline goes on for the old world after the reset |
| `MarketFeed!FreezeIsAlerted` | `MarketFeed.cfg` | REDUCE_ONLY and FREEZE share one throttle key: the first hides the second within the interval |
| `MarketFeed!ConnectedIsOpen` | `MarketFeed.cfg` | a clean close of the socket leaves `_connected` true while the streamer dials |

For some of these a theorem says what stands between the code and the property,
and that nothing else does (the hypothesis is an action property, a restriction of
one action of the model; TLC finds the properties broken without it and confirms
the theorems with it):

| Property | Holds, by theorem, when |
|---|---|
| `FreezeIsAnnounced` | always but for one case: a drawdown freeze of a breaker whose raw state is still OPEN after its cooldown (`FreezesAreAnnounced`) |
| `NoLiveSessionInSimulation`, `NoLiveOrderInSimulation` | `connect()` binds what it has loaded only if the mode is still REALITY (`RecheckDecouples`); the second look at the mode inside the dispatcher is not needed |
| `NoOrphanSession`, `NoSyntheticBesideSession` | REALITY is requested only while no session is bound or loading (`QuietConnectsKeepOneSession`) |
| `OrdersOfRealityAreUncoupled` | a switch to REALITY finds nothing of the sandbox held by a component or on the bus (`DrainedSwitchIsolates`; `OnlyTheSwitchCouples` says it of each way by itself) |
| `ResetLeavesDayZero`, `OldWorldIsSilent` | a reset finds no tick on the bus and no handler waiting (`DrainedResetIsClean`) |
| `HotPathNeverWaits` | three POSTs fit in the latency limit and four in the throttle's interval (`HotPathWaitIsBounded`); with the defaults, 300 ms and 60 s, that asks for POSTs of 100 ms, where the client allows 10 s |

Four more points met while reading, not stated as properties. The throttle
compares `monotonic()` with 0 for a kind it has not sent yet, so a host that is
up for less than the interval sends no alert at all (`alerts.py` 199;
`MarketFeed` starts with either value). The cockpit's equity curve is not moved by
tickers, so "1:1" goes only as far as `Mirrored`. The fee of an opening fill is
never booked, in neither book. A key that was cooling when the keys were ordered
is not tried again even if it has recovered by the time the pool reports all keys
exhausted.

## 6. What is proved

For every value of the constants, from the named assumptions of each module
(positive bounds, equities that are integers, a boot connector that exists,
distinct keys, wallets whose costs have the sign of their quantity).

- **`SentinelProofs!TypeCorrect`**: `Spec => []TypeOK`. One lemma per operator
  (`BreakerType`, `ClampInEnvelope`, `GovernType`), then one step per action.
- **`SentinelProofs!FreezeServed`**: `Spec => HonoursContract`, the refinement
  of `FreezeContract` under `mode <- Mode`, `left <- Hold`. `TypeOK` is the
  inductive invariant it needs. `Hold` is the larger of what the breaker and
  the risk freeze still guarantee; `HoldOfMethods` says what each breaker
  method does to the first, `FrozenWhen` that a positive hold means FROZEN,
  `GovernHonours` that `_revalue_and_govern` is a `Halt` or leaves both alone;
  `StepHonours` maps every action to a step or a stutter.
- **`SentinelProofs!EmergenciesAreTrue`**: `Spec => []EmergencyIsTrue`. A
  method of the breaker that opens it starts a full cooldown (`OpensFull`), so
  the hook can only fire in a state that is frozen for that long.
- **`SentinelProofs!FreezesAreAnnounced`**: the exact form of
  `FreezeIsAnnounced`, from `TypeOK` and the fact that a method leaves the deadline
  of an open breaker alone (`KeepsDeadline`).
- **`SentinelProofs!FreezesRunOut`, `BreachesAreAnswered`**: the safety halves of
  `FreezeIsLifted` (nothing renews a set freeze, every tick shortens it, the first
  cycle after it lifts it) and of `BreachIsCaught` (only a wallet sync or a
  directive leaves a breach that has frozen nothing, and the next fill or ticker
  answers it). The second assumes that the lower end of the clamp is positive,
  which the code's is: it is a fraction there, and rounded down in the model.
- **`SentinelProofs!FeedTypeCorrect`, `FeedFreezeServed`, `HotPathWaitIsBounded`**:
  the market feed calls the same breaker, so its theorems stand behind those of the
  governor and use its lemmas; `Feed` is an instance of `MarketFeed`, and
  `FeedBounds` its assumption. The first is `Feed!Spec => []Feed!TypeOK`; the second
  says that the latency freeze, too, honours `FreezeContract`. For the third the
  invariant `Waiting` bounds the age of a punctual tick by the POSTs that can have
  begun since it came, one of each kind, since a kind is throttled for longer than
  a tick lives.
- **`ExecutionSessionProofs!TypeCorrect`**: for any number of `connect()` calls
  and intents. `TypeOK` needs `Busy` beside it: a dispatcher that is suspended
  holds a real intent.
- **`ExecutionSessionProofs!LiveMeansOpen`**: `Spec => []LiveSessionIsOpen`.
  The invariant `Sessions` adds what `Bind` and disposal rely on: a call that
  is still loading owns an open session which is not the bound one, and once
  shutdown has begun nothing is live and nothing loads.
- **`ExecutionSessionProofs!ReportsAreHonest`**: `Spec => []HonestReports` when
  the venue acknowledges only what it executes (`~Expiring`; section 5 shows
  that the assumption is needed). The invariant
  `ServedOnce` says that no intent is on the bus twice, that a waiting one and
  one before `create_order` are fresh (no verdict, not submitted), and that one
  after it is with the venue.
- **`ExecutionSessionProofs!LedgerIsReconciled`**:
  `Spec => []LedgerReconciled` when also `~DemoEnv`, as in the run
  `execution_live` (in the demo environment it is not so, section 5). A verdict
  is final (`VerdictsAreFinal`), so a run that is clean at the end was clean all
  along; in a clean run `Reckoned` is inductive: the venue has what was filled,
  but for the order that is with it, and the bus `Carries` the ledger there: the
  ledger is what was filled less the fills on the bus, and each wallet is what
  was filled less the fills behind it.
- **`ExecutionSessionProofs!NoOrderIsLost`, `AnsweredOnce`**: at any venue and in
  either environment, the safety half of `NothingHangs`. `Accounted` is inductive
  beside the types: a published intent is on the bus once, in the dispatcher's
  hand, or answered, and never two of these; so a verdict is given once. The lemmas
  `PoppedOnly` and `AppendedOnly` say exactly which intents a step of the bus takes
  and adds.
- **`ExecutionSessionProofs!RecheckDecouples`, `QuietConnectsKeepOneSession`**:
  sufficient conditions for four properties of section 5. The invariants are
  `BoundInReality` (a bound session means REALITY and credentials) and `OneSession`
  (every open session is the bound one or the only one that is loading) beside
  `Sessions`.
- **`OrderFlowProofs!TypeCorrect`**: `Spec => []TypeOK`; it also says that no
  intent admitted in FROZEN is ever on the bus.
- **`OrderFlowProofs!ReduceOnlyKept`**: on a futures account
  `Spec => ReduceOnlyHolds`. `TypeOK` is not enough: the inductive invariant
  adds `Flagged`, that every waiting order admitted in REDUCE_ONLY carries the
  reduce-only flag; then the venue's rule does the rest, whatever happened to
  target and position since.
- **`OrderFlowProofs!FreezeHasSettled`**: the safety half of `FreezeTakesHold`.
  Once the bridge has heard of the freeze and no older status is on its way
  (`Heard`), it does not forget while the freeze lasts, its target stands, and no
  order joins the bus.
- **`CouplingProofs!RealityUncoupled`**: `Spec => []SignalsOfRealityAreUncoupled`.
  The property speaks of signals only; the invariant `AllClean` adds that a
  directive carries nothing but the context's shock, so that the lean of the
  Predictor cannot bring the latch in by the back door.
- **`CouplingProofs!TypeCorrect`**: `Spec => []TypeOK`; only the context's shock
  ever leans the Predictor.
- **`CouplingProofs!RealityStaysClean`, `OnlyTheSwitchCouples`,
  `DrainedSwitchIsolates`**: for each way by which the sandbox can reach an order
  (`Crosses`: the component that holds it, or an event on the bus). In REALITY a
  way that is out of both stays out, so the switch is the only door; the cure of
  each way is its own.
- **`LedgerProofs!BooksMirror`, `RebasingSplits`**: `Spec => []Mirrored` and
  `Spec => OnlyRebasingSplits`, for all symbols, prices, fees and wallets. The
  guards of the two handlers differ (the cockpit looks at its fill ledger, the
  Sentinel at its positions); the inductive invariant adds `SameGuards`, that they
  agree until the first wallet sync, to the types of both books.
- **`LedgerProofs!TypeCorrect`, `ProfitConserved`**: `Spec => []TypeOK` and
  `Spec => []FillsConserve`, for any set of symbols, finite or not, and any number
  of open positions. Both need facts about a sum over a set of positions, which
  `SumFunction` defines by recursion; no induction rule can be instantiated here,
  so the lemmas of the first section argue by a minimal counterexample
  (`MinimalSet`, `CountedUp`): the partial sums exist, are integers, and change by
  the difference when one summand is replaced (`SumReplace`). The inductive
  invariant is `Typed` of both books beside `SameGuards` and `Mirrored`; `Typed`
  rests on `Sound`: there are finitely many position records, and the cost of each
  has the sign of its quantity, which a close keeps because it takes the cost out
  in proportion (`ReducedSound`). That the exchange's wallet brings only such
  positions is part of `LedgerAssumption`: `_publish_wallet_truth` lists contracts
  with a quantity and their entry price. `OpenConserves` and `MoveConserves` are
  the accounting of the kinds of fill, `StoreRevalues` what storing one position
  does to the sum.
- **`LedgerProofs!CloseConserves`**: for all integers, a close makes no profit but
  for its fee, whatever its share of the cost is rounded to: what it takes out of
  the unrealised profit is what it books.
- **`LLMPoolProofs!TypeCorrect`, `PoolServes`**: `Spec => []TypeOK` and
  `Spec => ImplementsService`, the refinement of `LLMService` under
  `request <- Request`, `refused <- errors`, `running <- Running`, for any number
  of threads and keys. The invariant adds `Serialized` (at most one thread is
  between acquire and release) and `OnOpenRoute` (a thread works only on a route
  that is enabled and has not refused it). One lemma per action says that it
  keeps the invariant and which abstract step it is; what touches neither request
  nor slot shares `RemoteStep`. `OrderTyped` has an invariance proof of its own
  (`OrderStep`).
- **`LLMPoolProofs!RoundsAreComplete`**: `Spec => RoundIsComplete`. `Lists(w, n)`
  says that `w` holds the warm ones among the first `n` keys, once each; it is
  carried along the recursion of `Warm` by `ListsNext` and the least
  counterexample (`WarmLists`), a rotation keeps it (`RoundSound`), and a list
  without repetitions is as long as its set (`OnceEach`). That the keys are
  distinct is part of `LLMPoolAssumption` and is what `parse_llm_api_keys` sees to;
  the index need only be a number, which is why its race does no harm.
- **`LLMPoolProofs!RequestsAreShort`**: the safety half of `EveryRequestEnds`.
  `Left` counts the steps that a request has yet to take; each step of its thread
  lowers it, no other thread and no clock raises it, and it begins at
  `Len(Keys) + 11` at most.
- **`HypothesisRunnerProofs!ExperimentsDoNotMix`, `SpansAreReal`,
  `LoopBeginsArmed`**: `DeltasAreOwn`, `SpanIsReal` and `BegunArmed`. The
  invariant adds `LockHeld` (who is in a cycle holds the lock, so nobody else
  perturbs) and `DaysCounted` (the day has moved no further than `since`).
- **`HypothesisRunnerProofs!TypeCorrect`, `LockIsServed`, `NobodyOvertakes`**:
  `Spec => []TypeOK`, and the safety half of `RequestAnswered`: the lock is held
  exactly by the task in its cycle, each waiting task is queued once, the head of
  the queue is there to take a free lock, and no step puts a waiter further back.
  A cancelled waiter leaves the queue at any place (`RemoveFirst` in `Stop`), so
  the invariant `QInv` adds `Queue` (the queue holds the waiting tasks, once each)
  and `Held` (a taken lock has a holder in its cycle); `CutOut` and `TakenOut` say
  what removing an element does, and `Joins`, `Leaves`, `StaysOut` what a task may
  do to the queue. Liveness then only needs the tasks to be scheduled.
- **`WorldRuntimeProofs!TypeCorrect`, `ModelsInStep`, `HistoryOrdered`,
  `StancesStayHome`, `KernelOnTime`**: the type invariant and the four safety
  invariants, for all sets of edits, speeds, lifetimes and bounds. `InStep` and
  `HistoryIsOrdered` are proved together, since a fork appends the clock's day
  (`ForkInv`); `StancesOwn` speaks of every world's broker, not only today's; and
  `LastTick` says that the newest tick of this world carries the clock's day,
  which is what makes `KernelKeepsDay` inductive.
- **`WorldRuntimeProofs!KernelWindsDown`, `DrainedResetIsClean`**: the safety half of
  `KernelComesToRest` (`Backlog`, twice the waiting ticks and one for a handler under
  way, falls with every turn of the bus and rises with the clock alone), and the
  reset of section 5 (`OfToday`: nothing under way is of an earlier world or ahead
  of the clock).

## 7. What is model-checked only

The liveness properties (`FreezeIsLifted`, `BreachIsCaught`, `NothingHangs`,
`FreezeTakesHold`, `ShockWearsOff`, `LatchLeavesTheBus`, `MemoryIsShed`,
`EveryRequestEnds`, `RequestAnswered`, `LoopKeepsGoing`, `EditIsForked`,
`KernelComesToRest`, `AlertStormEnds`, `FeedIsRetried`): liveness under fairness
is beyond the prover. What they need beside the scheduling is proved for some of
them: that the thing awaited comes nearer with each step of the one who owes it, and
that nobody else puts it off.

| Liveness | Safety half |
|---|---|
| `FreezeIsLifted`, `BreachIsCaught` | `FreezesRunOut`, `BreachesAreAnswered` |
| `NothingHangs` | `NoOrderIsLost`, `AnsweredOnce` |
| `FreezeTakesHold` | `FreezeHasSettled` |
| `LatchLeavesTheBus` | `RealityStaysClean` |
| `EveryRequestEnds` | `RequestsAreShort` |
| `RequestAnswered` | `LockIsServed`, `NobodyOvertakes` |
| `KernelComesToRest` | `KernelWindsDown` |

Every invariant and every safety property of the passing runs has a theorem.

## 8. Not modelled

Most of the repository by lines is a renamed copy of a third-party bot
(`econith_quant/econith`), which the platform does not drive, and scripts around
the program. Of ECONITH itself:

- **Floating-point code without control state**: VaR, the economics of the World
  kernel and of the graph, trained models, training and evaluation, feature
  preprocessing. The models take any result they may give.
- **Macro hub**: one independent task per source, which polls, backs off and
  overwrites its own slot; nothing is shared that could be out of step.
- **Storage, collectors, research**: programs that write files.
- **HTTP plumbing, dashboard, vendor and social bridges**: the endpoints that
  change modelled state are actions of the models; the rest reads.
- **Mock TWAP bridge** (off by default) and **`execute_algo`** (no caller).
- **In modelled components**: the clock's priority heap (`enqueue` has no
  caller), the streamer's mock generator and price overlay, the cockpit's session
  statistics, the counters and sealed rollout files of the hypothesis runner.
