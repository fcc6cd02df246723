# Verification of tinvest-cpp

TLA+ models of the SDK (streams, limiter, calls, coroutines, decimal arithmetic,
strategies and backtest), the TLC runs that check them on
small instances, and proofs that TLAPS checks for every value of the constants.
The paths below are relative to the repository (`src/`); "MDS" stands for
`src/market_data_stream.cpp`.

## 1. The system

tinvest-cpp is a C++20 client of the T-Invest gRPC API. An application owns a
`Client`, calls its services from any thread, and opens streams.

| Part | State | Operations | Talks to |
|---|---|---|---|
| `MarketDataStream` (MDS, `streams/market_data_stream.hpp`) | `mu_` with flags, `ctx_`, `reactor_`, write queue, registry, worker thread | `start`, `stop`, `run`, `run_once`, `send`, reactor callbacks | gRPC, user callbacks |
| Subscription registry (MDS 255-402) | map from target to its request | ten `(un)subscribe_*` methods, `get_my_subscriptions` | `send` |
| `ServerStream` (`streams/server_stream.hpp`) | `mu_`, flags, `ctx_`, worker thread | `start`, `stop`, `run`, `run_once`, callbacks | gRPC, user callbacks |
| `StreamOptions`, backoff | attempt counter | delay before a reconnect | both streams |
| `RateLimiter` (`rate_limiter.hpp`) | table of shared groups, windows, waiting threads | `configure`, `set_limit`, `acquire`, `try_acquire` | unary calls |
| Unary calls (`detail/unary.hpp`) | attempt, error, delay; heap `State` of an asynchronous call | `unary_sync`, `unary_async` | limiter, gRPC |
| `Client` (`client.cpp`) | channel, services, limiter | `load_rate_limits`, `setup_context` | unary calls |
| `UnaryAwaiter`, `Task`, `sync_wait` (`awaitable.hpp`) | coroutine frames, semaphore | suspend, resume, complete | asynchronous calls |
| `Decimal`, `Money` (`decimal.hpp`) | value types | arithmetic, parsing, formatting | - |
| Indicators, strategies, backtest (`algo/`) | windows, positions | `push`, `on_bar`, `run_backtest` | - |
| Services, errors, contracts, examples | none | wrappers, values, generated code | - |

What is hard to test in it: the four places that race to release the one hold
of a call; pointers to stack objects of `run_once()` kept in members; changes of
the registry that race with a reconnect; `stop()` against every wait of the
worker; threads that sleep in the limiter while its table is replaced; retries
that need new slots; heap state that deletes itself; rounding with every sign;
signals and equity that are carried from bar to bar. `PROJECT.json` lists each
hazard with its line and the properties that cover it.

## 2. Modules

| Module | Models |
|---|---|
| `Subscriptions` | what a request is, the keys it touches, the registry's updates and its replay |
| `ClientCall` | a streaming call of gRPC's callback API (external): hold, reads, writes, `OnDone` |
| `StreamOptions` | the delay before a reconnect; `reconnect = false` |
| `StreamLifecycle` | abstract: the order of `on_state` notifications and handlers that a user may rely on |
| `MarketDataStream` | the bidirectional stream; composes the three modules above, implements `StreamLifecycle` |
| `ServerStream` | the server-side stream, likewise |
| `RateLimiter` | windows, groups, the table, blocking and non-blocking slots, time |
| `AsyncCall` | abstract: what `unary_async` promises to those who build on it |
| `UnaryCall` | `unary_sync`, `unary_async`, `load_rate_limits`, composed with `RateLimiter`; implements `AsyncCall` |
| `Awaitable` | `UnaryAwaiter`, `Task`, `sync_wait`, built on `AsyncCall` |
| `Decimal` | constructors, conversions, arithmetic, parsing and formatting of `Decimal` |
| `Rationals` | exact fractions, in place of doubles |
| `Indicators` | `Sma`, `Ema`, `Rsi`, `Macd`, `Bollinger`, `Donchian` |
| `Strategies` | the six strategies, on `Indicators` |
| `Backtest` | `run_backtest`, driving a strategy |
| `MCMarketDataStream`, `MCRateLimiter`, `MCUnaryCall`, `MCBacktest` | instances for TLC |
| `StreamProofs` | lemmas about the operations on a gRPC call, the registry and its queue, and the delay before a reconnect |
| `MarketDataStreamProofs` | types and safety of the stream, its registry, its backoff; it implements `StreamLifecycle` |
| `ServerStreamProofs` | safety of `ServerStream`; it implements `StreamLifecycle` |
| `UnaryCallProofs` | quota, refusals and wake-ups of the limiter; slots, retries and callbacks of unary calls; they use the limiter as `RateLimiter` says and implement `AsyncCall` |
| `AwaitableProofs` | lifetime of frames, threads, results and stacks of tasks |
| `DecimalProofs` | rounding, normal form and texts of `Decimal` |
| `StrategyProofs` | lemmas: arithmetic of fractions, sums and windows of the indicators, what `on_bar()` returns after a history |
| `BacktestProofs` | signals, readings, equity, trade log and drawdown of a backtest |

### How state and actions correspond to the code

**MarketDataStream.** The members under `mu_` keep their names without the
underscore (`stopping`, `broken`, `done`, `got_data`, `hold_released`,
`write_in_flight`, `write_queue`, `subscriptions`, `ctx`, `reactor`, `worker`).
A pointer to a context or reactor is the worker in whose `run_once()` it lives.
`pc[w]` is the control point of a worker in `run()` and `run_once()`,
`cpc`, `joining` and `release` hold the locals of a thread in `stop()`, and
`call[w]` the worker's gRPC call with the locals of its running callbacks.
One action is one critical section or one call outside the lock, so every
unlocked gap of the code is an interleaving point: in `stop()` between the lock
and `RemoveHold()` and `join()`; in `run_once()` between snapshot, `Begin()`,
publication and wait; in the callbacks before `RemoveHold()`. `send()` holds
the lock throughout and is one action. `sent[w]` (what the server was told on
this call), `unsynced`, `notified` and `calls` are history for the properties.
With several controllers any thread may call `start()` and `stop()`.
`StreamOptions::reconnect` is a variable that never changes and has any value
at first, so that one run covers both settings.

**ServerStream** has the same shape without hold, writes and registry, and with
the ping filter (`Filter`) between the first message and the handler. The
factories are one action, `make_stream`: they differ only in stub method and
request. `set_ping_filter` takes no lock, and the model calls it only on a
stream that does not run. Neither this model nor `MarketDataStream` has
callbacks that call back into the stream.

**Subscriptions.** A request has a kind, an action, instruments and parameters
with what `single()` keeps of them; a registry is a function on the keys that
`keys_of()` computes. The string form of a key is not modelled: a key is the
tuple of the parts it is built from.

**ClientCall.** External. It has what the streams rely on: `OnDone` comes only
after the call is over, all callbacks have returned and no hold is left; a
cancel before the call is bound takes effect when it starts; a broken call may
still deliver messages it had received.

**RateLimiter.** Time is the age of each window in ticks; `recent` records the
slots given away per tick of the last window, for the properties. Groups are
shared objects, named by model values; one that neither the table nor a thread
refers to is free again. A name is a pair (number of leading slashes, method).
A thread in `wait_until()` is asleep until a `notify_all()`, a time-out or a
spurious wake-up.

**UnaryCall** extends `RateLimiter`, so every step of the limiter, by every
thread, interleaves with the calls. The answer of the server is any of a set of
(code, reset time); the delay is computed in milliseconds as in the code.
`load_rate_limits()` is a call of one method followed by `configure()`.

**Awaitable.** `frame[f]` is the life of a coroutine frame, `owner`,
`continuation`, `outcome` and `result` are the members of `Task`, promise and
awaiter, and `stack[t]` holds what a thread is executing, with a mark on every
function that will still touch its frame. Symmetric transfer replaces the
innermost function, `resume()` adds one. The body of a task is the user's: any
sequence of awaited RPCs and tasks, dropped tasks, and a return or an exception.
The model knows of asynchronous calls only what `AsyncCall` says, and
`AsyncContract` proves that `UnaryCall` keeps to it.

**Decimal.** A behaviour is a variable that is made in one of the ways the class
offers and then computed with. `Base`, `Digits` and `Width` stand for 10, 9 and
64. Division truncates and narrowing wraps, as in C++; steps whose `__int128`
overflows, and an integer part that does not fit into an `int64_t`, are undefined
behaviour and have no step. `last` is the exact result as a fraction and
`fits` says that no result so far was too large for `units_`. A text is a
sign, digits, a separator, digits, and whether something else follows.
`from_double` gets a fraction; the rounding of doubles is left out.

**Indicators, Strategies, Backtest.** An indicator or strategy is a record of
its members and its method returns the new record, with the running sums,
seeds and flags of the code; `on_bar` is the virtual call, and `UserStrategy`
answers anything. A double is an exact fraction, so a comparison never depends on
rounding; the Bollinger band, which has a square root, is compared by its square
and the sign of the multiplier. A bar (`Bar`) has a positive close, and its low is
not above its high. A step of `Backtest` is
one iteration of the loop of `run_backtest()`. Percentages are ratios; `bars`,
`actions` and `curve` are history for the properties.

## 3. Runs

| Run | Checks | Instance |
|---|---|---|
| `stream_safety` | lifetime of context and reactor, hold, single write, registry, `stop()`, backoff, order of notifications | 1 worker, 1 controller, 3 calls of `send`, with and without reconnect; 341,568 states |
| `stream_liveness` | `stop()` returns; a break is followed by a new attempt, or without reconnect by the end of the worker (`BreakIsHandled`); a lasting connection is told everything | fewer requests; 31,660 states |
| `server_stream_reconnect` | the same questions for `ServerStream` | 2 workers, 1 controller, with and without reconnect; 14,536 states |
| `unary_safety` | the limiter's quota, refusals and wake-ups; each attempt has its slot, retries follow the policy, callbacks run once, `AsyncCall` is implemented | 2 threads, 2 methods, 3 groups, 2 tariffs, window of 2 ticks, 1 asynchronous call, 5 answers; 1,217,796 states |
| `unary_liveness` | `CallsEnd`: blocking calls return unless overtaken, asynchronous state is freed | 2 threads, 1 tariff, few answers; 55,857 states |
| `coroutines` | lifetime of frames and semaphore, one thread per task, results before resumption, stack depth, `sync_wait()` returns when everything is over | 3 tasks, 2 RPCs, 3 threads |
| `decimal` | results are exact or rounded half away from zero, normalized, and read back from their text | base 2, 2 digits, 5 bits; 15,722 states |
| `backtest` | signals against their definitions over the whole history; crossings alternate; readings in range; equity against trade log and report; drawdown against the curve | 10 strategies with short periods, one with a negative multiplier; every series of up to 5 or 7 bars over 3 prices; 224,516 states |

**Bounds and why they are enough.** One worker and one controller: a second
worker exists only when two controllers race (the runs with two show it), and
reconnects reuse the worker with a new call, so calls of different connections
meet in the instance. Three calls of `send()` allow a subscription before, in
and after a reconnect and its removal. `MaxShift` 2 or 3 with a cap between two
powers reaches both the growth and the cap of the delay. Two threads on a
window with one slot make one wait for the other; three groups are one in the
table, one that a sleeping thread keeps alive, and a new one. Two attempts
cover first and retried requests; reset times of 64 and 65 s are just within and
just beyond `max_wait` after the code's 200 ms are added. `retry = true` is left
to `unary_trading`, because the code treats it like no value. Three tasks and
two RPCs give a task that awaits a task that awaits an RPC, a task resumed on a second gRPC thread, and a
refused call inside a callback; three RPCs (937,696 states) show nothing new.
Decimals of 5 bits with a nano of a quarter go through every sign, every carry,
exact halves, and results beyond the width, and the proofs of section 5 cover the
real widths. Five bars fill a window of two or three, and let a position be
opened, closed and opened again; seven give a crossing average time for two
crossings. Prices 1 to 3 give rises, falls and ties.

**Fairness.** Threads that can run do run, gRPC runs the callbacks it owes and
answers writes, and time passes: weak fairness of these steps. Strong fairness
is assumed for the failing read of a call that is over, because only finitely
many messages can still be under way. A unary RPC ends, with an answer, a broken
connection or its deadline; where neither `Config::default_timeout` nor the call
sets one (`client.hpp:51`), `CallsEnd` is about servers that answer. Nothing else is assumed of the server, of breaks, or
of the user. The limiter has no queue: a thread can be overtaken for
ever, and the properties say exactly that.

## 4. Disagreements between the code and what is written about it

Each of these is a run whose property TLC refutes, and a finding in
`PROJECT.json` with the quote.

| Run | What the code does |
|---|---|
| `stream_window` | A subscription made between snapshot and publication in `run_once()` is not sent on that connection. |
| `stream_stop_start` | `start()` during `stop()` starts a second worker, and `stop()` may never return. |
| `limiter_stale_group` | A thread that waits when the table is replaced goes on waiting for the old group. |
| `unary_trading` | Trading methods are retried by default like all others. |

Smaller differences, met while reading and kept in the models as the code has
them, without a run of their own:

- `send()` between `stop()` and the next `start()` drops a subscription (MDS
  387); `market_data_stream.hpp:4` says subscriptions are remembered.
- The second of two concurrent `stop()` calls returns before `OnDone` (MDS 114);
  `ARCHITECTURE.md:114` says `stop()` waits for it.
- With `reconnect = false` "stopped" is reported without a `stop()` (MDS 139);
  `server_stream.hpp:30` says "stop() called or stream destroyed".
- With the default options the delay ends at 25.6 s (MDS 141), and it has no
  random part; `ARCHITECTURE.md:105` says 30 s, with jitter. `BackoffGrows` is
  about the delay of the code: its longest one is the one the formula gives.
- A new group's window is not expired at first use within a minute of the
  clock's epoch (`rate_limiter.hpp:100`), as the comment on line 95 assumes.
- `opts.retry = true` does not enable a retry that the policy disables
  (`unary.hpp:71`); `call_options.hpp:17` says "Force-enable".
- A refused asynchronous call runs its callback on the calling thread
  (`unary.hpp:104`), which `unary.hpp:90` documents and `error.hpp:65` does not,
  and so resumes a coroutine there (`awaitable.hpp:14` says on a gRPC thread).
  `CallbackOnce` and `StackBounded` state what follows.
- A product of `Decimal`s wraps in `units_` (`decimal.hpp:110`) from about 9.2e36
  nano² on; the comment on line 73 names only the limit of `__int128`, 1.7e38.
- `from_string()` accumulates the integer part in an `int64_t` without a check
  (`decimal.hpp:170`): 20 digits overflow it. The model reads no such text.

## 5. Proofs

Every safety invariant, action property and refinement that a passing run
checks is also proved for every value of the constants. `PROJECT.json` lists the theorems with the property each states.

**Assumptions.** The constants satisfy the named `ASSUME`s of the modules that
declare them (`None` is no worker, delays are naturals, tariffs are sequences of
limits and sets of names, the RPCs that coroutines await are finitely many, and so
on); TLC evaluates each in a run. For the backtest, strategies come from their
constructors with positive periods, closes are positive (`Bar`), and the
commission is below 1: the code divides by entry price, window size and peak
without a check. The theorems about the streams, except
`TypeCorrect`, also assume `OneController`: one thread calls `start()` and
`stop()`. That assumption is needed: with two, the second `stop()` does not wait,
and two workers can share the members (`stream_stop_start`), which breaks the
argument about the hold.

**Induction.** The provers have no induction rule for data that they can apply,
so an induction is written as an argument about a least counterexample
(`LeastNumber`, `UpTo`, `IntervalInduction`), which rests on the library's
theorem that < is well-founded on the naturals. A loop is a recursive function in
the models; `Trace` and `OneTrace` show that such a function exists and
satisfies its equation.

### MarketDataStream

`TypeCorrect`: `Spec => []TypeOK`, for any sets of
workers, controllers and calls, including the bound of the delay. It rests on
the lemmas of `StreamProofs` that registry updates, replay and the operations on
a call keep their types.

| Theorem of `MarketDataStreamProofs` | Property |
|---|---|
| `NoDangling` | no thread can reach a destroyed context or reactor |
| `HoldOnce` | the hold is removed exactly once |
| `HoldKept` | the hold of a closed call is gone or about to be removed |
| `OneWrite` | one outstanding write, on a started call |
| `StopWaits` | `stop()` returns only after `OnDone` |
| `Quiet` | nothing happens between `stop()` and the next `start()` |
| `RegistryIsTracked` | what was written and is queued brings the server to what the registry holds |
| `DelaysGrow` | delays grow without data and start again after data |
| `ImplementsLifecycle` | the refinement of `StreamLifecycle` |

The inductive invariant `IInv` is `TypeOK /\ WorkerOwned /\ CallInv`.
None of the properties is inductive. `WorkerOwned` says that a worker is either in
`worker_` or being joined, so that with one controller there is at most one
(`OneWorker`). `CallInv` says for each worker how its control point, the
members under `mu_` and the state of its call agree (`CallShape`), that an
outstanding write has set `write_in_flight_` (`WriteInv`), and whose turn it is
to remove the hold (`HoldInv`): the hold is there until it is claimed and
removed, at most one of worker, read callback, write callback and `stop()` has
claimed it (`OneClaim`), `hold_released_` says whether one has, and a claimed
hold belongs to a broken stream. A worker outside `run_once()` is `Resting`:
nothing points to it, so steps of others keep its part (`OthersRest`,
`OthersKept`). There is one lemma per group of actions: `ControlStep`,
`RunStep`, `CallStep`, `CallbackStep` and `SendStep`.

On top of `IInv`, each in turn inductive relative to it:

- `Told`: what was last reported agrees with the control point of the one
  worker and the progress of its call. Each step then maps to a step of
  `StreamLifecycle` or to a stutter.
- `Delayed`: the delay last waited for is what `Backoff` gives for the attempt
  before the counted one, or for the last exponent once that is reached.
  `BackoffGrows` follows because the doubling is monotone.
- `Registered`: every entry of the table is a request for its own key
  (`WellKeyed`), so that a replay restores it, and for a connection that is not
  broken the last queued request for a key, or else what was written, has the
  effect of the table (`Tracks`). `TracksAppend` and `TracksTail` say what a new
  request and a write do to it.

### ServerStream

`NoDangling` and `Quiet` follow from `Types /\ Owned /\ CallShape`, the same
argument without hold and writes: a thread that exists is in `worker_` or being
joined, so there is one, and `ctx_` is set exactly while a `run_once()` of its
has the context in scope, which it leaves only after `OnDone`.
`ImplementsLifecycle` adds `Told`, as above.

### RateLimiter and unary calls

`LimiterCorrect` is about every tariff, window, set of threads and sequence of
reconfigurations. Its invariant `LimiterInv` has two parts. For each group
(`GroupInv`) it relates the counter to the history of slots: those given since the
window began are what `count_` says, and those of the last window are at most the
limit more than that, which is where "twice the limit" comes from. For each
sleeping thread it says that its group is full and its window has not expired
(`Full`): that is not so by itself, but because everything that changes it
(a roll, a reconfiguration, time) wakes the thread in the same step. `SlotSum`
and `TickSum` are the facts about sums over a window, by induction over its ticks.

`CallsUseLimiter` shows that `UnarySpec` implements the limiter's `Spec`, so
`QuotaIsKept`, `RefusalsAreJustified` and `NoWakeupIsLost` hold of the composed
system.

`AttemptsPaid` (`EveryAttemptPaid`) and `RetriesAreJustified`
(`RetriesJustified`) follow from an invariant of one thread, `LoopInv`, that
adds to them what holds between the decision to retry and the retry (the error
allows it, the attempt is below `max_attempts`), and that a thread outside
`unary_sync()` has no slot left. `OneThread` carries it over to the others.
`CallbackRunsOnce` (`CallbackOnce`) and `AsyncContract` (the refinement
`AsyncCallSpec`) rest on `OtherStepsKeepAsync`: only the four steps of an
asynchronous call touch it, whatever limiter and blocking calls do.

### Awaitable

All five invariants of the run, for any number of tasks and calls. The idea is
that a task and the tasks it awaits are one strand of execution: it is on one
thread, or one gRPC call has it. `IInv` says so (`Strand`), and around it: the
tasks that have begun are the chain of continuations that ends in the root
(`Chain`); `Task` objects live in the frames of such tasks and form a tree
without cycles (`Tree`, `Ranked`); below the innermost function of a stack there
are only `await_suspend()` calls, which do not touch their frames any more
(`Stacks`); what callbacks and stacks refer to is waiting for them (`Handles`);
`Results` and `Waiter` say what has been stored and how far `sync_wait()` is.
`NothingIsLeftBehind` needs that a living task without a living owner is the
root, by induction over the tree. `StacksStayBounded` counts a refused call for
every level of nesting.

### Decimal

The theorems are about every base, number of digits and width, the real ones
included.

- `DivRoundNearest`: `div_round()` is the nearest integer, a half away from zero,
  for all signs. `NormalizeExact`: the constructor keeps the value and
  establishes the class invariant. `OperationsRound`: every operation on numbers,
  from any two values, rounds correctly and normalizes.
- `ArithmeticIsExact` (`ExactlyRounded`) and `AlwaysNormalized` (`Normalized`)
  are about whole computations, with texts: `from_string()` truncates
  (`ParseRounded`), because after each digit the loop has the value of the digits
  so far, until the scale is used up (`LoopsCompute`). Their invariant `IInv` is
  both properties together with the types, which also hold after a wrap.
- `TextsRoundTrip` (`TextRoundTrip`): the digits of a number have its value
  (`PrefixValue`), whole part and fraction separately (`WholeRoundTrip`,
  `FractionRoundTrip`); the zeros that `to_string()` leaves out change nothing
  (`ZerosAtTheEnd`), and the sign is kept also between -1 and 0.

### Indicators, strategies, backtest

The theorems of `BacktestProofs` are about every constructed strategy, every
commission and every series of bars of any length. They rest on `StrategyProofs`,
which starts from the fractions: `gcd` divides and scales (`GcdDivides`,
`GcdScale`), so a fraction has one reduced form (`FracEq`), and `Rat` is an
ordered field as far as the proofs need it (`RatSums`, `RatProducts`,
`RatQuotients`, `RatOrder`, and their kin).

| Theorem | Property | Invariant, and why the property alone is not inductive |
|---|---|---|
| `CrossingsAlternate` | `CrossesAlternate` | `CrossInv` adds that `has_prev_` is set once there was a signal (`SignalHasPrev`); without it a signal after the first would be compared with nothing |
| `SignalsAreDefined` | `SignalsFollowHistory` | `SignalInv`: the window of an average is the last closes of the history and its running sum their sum, `prev_above_` is the comparison one bar earlier (`SmaKnows`); the windows of a channel are the last highs and lows (`DonTracks`) |
| `ReadingsStayInRange` | `ReadingsInRange` | `ReadInv`: an average, or the window of its seed, lies within the closes (`EmaKnows`); while no close fell, the average loss is zero (`RsiKnows`) |
| `EquityIsProduct` | `EquityIsTradeProduct` | `EquityInv`: the position is open exactly when the actions say so (`Holding`), the entries in the log and the open one are the openings (`Openings`), and trades end before the next begins |
| `DrawdownIsWorst` | `DrawdownIsWorstLoss` | `DrawInv`: the peak is the highest point of the curve so far (`Top`) |

`DrawdownIsWorstLoss` is about the equity after each bar. The commission of a position
closed at the end comes after the last update of `max_drawdown_pct`
(`backtest.hpp:87`), in the code and in the model.

All of them use the types, `TypesHold`: equity, peak and entry price stay
positive, so no quotient has a zero in it.

Two facts carry more than bookkeeping. `SlideRecent` and `SmaTracksPush`: adding
the new value and subtracting the dropped one keeps a sum equal to the sum of
the window, through the warm-up. `BandHolds`: no value of a window of m + 1 values
is more than the square root of m standard deviations below the mean, by the
identity and the inequality on sums of squares in `BandIdentity` and `SumsAbove`;
so a strategy with `mult` >= 0 and `mult`^2 >= `period` - 1 never buys.

The fractions are exact. What the rounding of doubles does to a comparison of
two nearly equal numbers is outside these theorems.

### Only model-checked

Liveness (`StopReturns`, `BreakIsHandled`, `StaysConnectedGetsSubscribed`,
`CallsEnd`, `SyncWaitEnds`): fairness is out of the prover's reach.

## 6. Not modelled

- `Client`'s constructor and `setup_context()` only pass settings to gRPC.
- Service wrappers, errors and contracts add no state of their own; examples and
  benchmarks are programs that use the SDK.
- The Sharpe ratio with its bar returns (a square root of doubles) and the
  buy-and-hold figure (a quotient of two prices) of the backtest report, and the
  rounding of doubles everywhere: floating-point results are out of TLC's reach.
- The contents of market data, the text of errors, tracking ids and metadata.
- User callbacks that call `stop()` (a thread joining itself, with a certain
  outcome) or `send()`, and `set_ping_filter()` on a running stream (a data race
  with no protocol to check).
- More than one thread in `sync_wait()`, or a gRPC thread in it: the tasks of two
  threads share nothing but the limiter, which `UnaryCall` covers.
- The growth of `attempt` beyond the point where the code's exponent stops.
