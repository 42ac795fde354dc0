# TLA+ model of the go-quai sealing worker

This directory holds a model-checking development for `src/core/worker.go`, the
component of go-quai that assembles candidate blocks ("sealing work") and hands
them to the consensus engine. The modules are written from the source; the
natural-language specification (`spec.md`) is used for what the worker
*promises*, and every place where promise and code disagree is recorded as a
finding in `PROJECT.json`, with the run that exhibits it.

## 1. The system

| part | code | state | operations |
|---|---|---|---|
| resubmit interval | `recalcRecommit`, locals of `newWorkLoop` | `minRecommit`, `recommit` | construction, `setRecommitInterval`, feedback |
| `newWorkLoop` | lines 408-503 | `interrupt`, timer, the interval | cases `startCh`, `chainHeadCh`, `timer.C`, `resubmitIntervalCh`, `resubmitAdjustCh`, `exitCh`; helper `commit` |
| `mainLoop` | lines 571-682 | `w.current`, uncle pools, snapshot | cases `newWorkCh`, `getWorkCh`, `chainSideCh`, `cleanTicker.C`, `txsCh`, `exitCh`, subscription errors |
| a round of work | `commitWork`, `generateWork`, `prepareWork`, `adjustGasLimit`, `fillTransactions`, `commit` | the environment under construction | prepare, adjust gas, fill (twice), commit, swap |
| filling a block | `fillTransactions`, `commitTransactions`, `commitTransaction` | the environment's state, gas pool and `tcount`; the iterator | split, poll the interrupt, skip, execute, pop or shift, feedback |
| uncles | `makeEnv`, `commitUncle`, the `commitUncles` closure, side block case, clean ticker | `localUncles`, `remoteUncles`, the `ancestors`, `family` and `uncles` of an environment | prepare, side event, sweep |
| `taskLoop` | lines 686-731 | `stopCh`, `w.pendingTasks` | case `taskCh`, case `exitCh` |
| controller | `newWorker`, `start`, `stop`, `close`, `setEtherbase`, `setRecommitInterval`, `GeneratePendingHeader`, `getSealingBlock`, `postSideBlock`, `pending` and its two variants | `running`, `coinbase`, `startCh`, `exitCh`, the callers that wait | one call each; `start`, `setRecommitInterval`, `getSealingBlock` and `postSideBlock` wait for a loop; `close` and `GeneratePendingHeader` are several statements the loops run between |
| outside | header chain, transaction pool, Go timer | chain head, feeds | head event, transaction batch, side block, timer expiry |
| `Core` facade | `src/unnamed/part_000` (core.go) | none | forwarding only |

The three loops are goroutines. They meet on unbuffered channels (`newWorkCh`,
`taskCh`, `getWorkCh`, `resubmitIntervalCh`: a rendezvous), buffered channels
(`startCh` of capacity 1, `resubmitAdjustCh` of capacity 10, the three event
channels), the closed-channel broadcast `exitCh`, two atomics (`running`,
`newTxs`), the *interrupt cell* (an `int32` that `newWorkLoop` allocates for each
request and stores into at most once) and two locked tables (`pendingTasks`,
the snapshot).

What makes the worker hard to test: a round of `mainLoop` takes many steps
during which `newWorkLoop` supersedes it, the chain moves on, callers stop or
close the worker; `newWorkLoop` finishes its `commit` helper (timer reset,
`newTxs` zeroed) only after `mainLoop` has already started on the request;
`mainLoop` can block in a channel send in the middle of a round; every
environment owns a background prefetcher that exactly one `discard` must stop;
the pending list a fill works through holds nonces behind and ahead of the
state; the uncle pools hold blocks announced against a chain that has since
forked, reorganised and grown; and the methods of the controller run on the
goroutines of their callers, which wait for a loop that may be busy, stuck or
gone.

## 2. Modules

The project models the worker at two levels. `WorkerLoops` has all the
concurrency and keeps little data: a fill is a number of calls of
`commitTransactions`, each of which executes some transactions; the uncle
pools are a count. `TxBatch` and `Uncles` take one sequential part each and
model its data: the transactions with their nonces, gas and flaws; the blocks
with their parents and uncles. `Fill` is the seam between `TxBatch` and
`WorkerLoops`, and `UncleCount` the seam between `Uncles` and `WorkerLoops`.

* **`Recommit.tla`** - the interval arithmetic. Durations are integers in units
  of 1/`Second` s; a fill ratio is a pair `<<used, limit>>`; float64 arithmetic
  followed by the `int64` truncation becomes one exact integer division.
  `recalcRecommit`, `Sanitize`, `FillRatio`, `SetInterval`, `Adjust` follow the
  code line by line.
* **`WorkerLoops.tla`** - the three loops, the controller and the outside
  world. It instantiates `Recommit` for `minRecommit`/`recommit`.
  `nwPC`, `mlPC`, `tlPC` say where each loop stands: at its `select`, or at
  one of the points inside a handler where another goroutine can run
  (`sendWork`/`sent` in the commit helper; `adjustGas`, `fill`, `iterate`,
  `sendAdjust`, `commit`, `sendTask` in a round; `insert` in `taskLoop`).
  `fill` is the top of an iteration of `commitTransactions` and `iterate` the
  iteration after its poll of the interrupt (line 842) found the cell clear:
  what `newWorkLoop` stores in the cell in between is seen by the next poll. Every action is one
  handler, or the stretch of a handler between two such points, with all the
  state it changes. `round` holds the locals of the round in progress together
  with two history fields the properties read (`gasFrom`, `abandoned`);
  `unread` and `stale` are history variables: the pool has announced
  transactions that no round has asked it for, and a commit has failed and
  left the snapshot behind. A call that waits is two steps: the caller comes
  to stand in its send or `select` (`start`, `setRecommitInterval`,
  `getSealingBlock`, `postSideBlock`; `blocked` counts the callers by the
  place they stand at), and a loop takes what it sends (`NwStart` after
  `startSend`, `NwInterval`, `GetWork`, `SideSent`) or the exit case lets it
  go (`CallerExit`). The methods that touch shared state more than once are
  a step for each touch: `close` stores `w.running` and then closes `exitCh`
  (`close`, `closeExit`); `GeneratePendingHeader` clears the stale tasks,
  zeroes `w.newTxs` and calls `prepareWork` (`GeneratePendingHeader`,
  `HeaderZeroed`, `HeaderPrepared`). `setEtherbase` sets the zero address or
  any other.
  `budget` is the scenario of a behaviour, chosen at `Init` from the constant
  `Budgets`: how many calls and events of each kind there are.
* **`Fill.tla`** - what a fill does to an environment, as the rest of the
  worker sees it: `Signalled` (the commit helper stores its signal), `Polled`
  (an iteration loads the cell and finds it clear), `Executed` (gas leaves the
  pool and `tcount` advances, together, in an iteration that is past its
  poll), `Passed` (an iteration skips its transaction or executes it in vain),
  `Interrupted` (a poll finds the signal: a resubmit reports the fill ratio, a
  new head abandons the fill) and `Finished` (a call ends and reports a
  decrease). It has no transactions. The poll and the rest of the iteration
  are two steps, as in the code: a signal stored between them lets one more
  transaction execute, and a call whose loop then breaks returns false.
  `WorkerLoops` steps a round through the same actions (`FillPolled`,
  `FillExecuted`, `FillInterrupted`, `FillFinished`, with the feedback sent on
  a channel that may be full); in `TxBatch` and `Fill` the feedbacks are a
  list, and the send that waits for room is in `WorkerLoops` (`Notify`,
  `SendAdjust`), where the channel and its reader are.
* **`TxBatch.tla`** - `fillTransactions`, `commitTransactions` and
  `commitTransaction` with their data. A transaction is a nonce, a gas amount
  and a flaw (`none`, `protected`, `type`, `other`); the state is the nonce of
  each sender; the iterator is, for each sender, the list still to come.
  `ApplyTransaction` (not in the sources) is the order of checks of the
  state transition: type, nonce, the sender's balance, the gas pool.
  `Advance` is the error switch: which errors `Pop` the sender and which
  `Shift` to its next transaction. The price order of the iterator is left
  open: any sender's first transaction may be the next. The transaction case
  of `mainLoop`, which calls `commitTransactions` on `w.current` without an
  interrupt, is the same loop started on a used gas pool.
  `Contract == INSTANCE Fill WITH gasPool <- Gas, todo <- Todo` is the
  refinement mapping: the gas pool once allocated, and the number of calls
  still to return; `polled` is the same variable in both.
* **`Uncles.tla`** - the uncle pools and the environments against a chain of
  blocks. A block is a parent, a number and a set of uncles; its hash is its
  index. `ImportBlock` (the header chain, not in the sources) takes any block
  on any recent parent with uncles the consensus rule accepts, moves the head
  when the block is higher, and announces the blocks that left the canonical
  chain, or the block itself, on `chainSideCh`. `makeEnv`, `commitUncle`,
  `commitUncles`, `prepareWork`, `SideEvent` and `CleanTick` follow the code;
  `commitUncles` returns the set of environments that the orders of a Go map
  range can produce. `ValidUncle` is the rule of the consensus engine, written
  over the chain itself and not over the sets the worker keeps.
  `GeneratePendingHeader` and `HeaderReturned` are the beginning and the end
  of the loops over the pools that `prepareWork` runs on the goroutine of a
  caller of `GeneratePendingHeader`.
* **`UncleCount.tla`** - the uncles counted: how many blocks the two pools
  hold and how many uncles `w.current` has. `Prepare` (a new `w.current` has
  at most as many uncles as the pools hold blocks, and at most two),
  `SideBlock` (a block joins a pool, and `w.current` may take it when it has
  fewer than two) and `Sweep` (blocks leave the pools) are all that moves
  them. `WorkerLoops` takes `Admitted` and `Swept` from it for `commitUncles`
  and `CleanTick`; in `Uncles`,
  `Count == INSTANCE UncleCount WITH uncleCands <- Cardinality(localUncles
  \cup remoteUncles), held <- ...Cardinality(current.uncles)` is the
  refinement mapping.
* **`MCRecommit.tla`, `MCWorkerLoops.tla`, `MCTxBatch.tla`** - values for the
  constants. `MCWorkerLoops` names the scenarios of the runs, and for the run
  `sealing` the initial predicate `SealingInit`, which gives each scenario
  the chain it is about: the dev-mode chain for the worker that is never
  started, and an interval that starts below the minimum or at the maximum
  where `setRecommitInterval` is called.

Abstraction of data in `WorkerLoops`: a block is its header, transaction count
and uncle count, and a header is its number and whether `prepareWork` wrote
`w.coinbase` into it; an environment adds what is left of its gas pool (in
units of `params.TxGas`), `copy` builds the environment of a copy and
`unclelist` is the count of the uncles; a transaction batch is a token; `newTxs` is 0 or "positive";
an interrupt cell is a model value with a value in `{0, 1, 2}`; two cells are
enough because the code never holds more than the cell of the round in
progress and the cell of the newest request. The head event is put into
`chainHeadCh` in the step that moves the head, and the head moves up by one:
the header chain is not in the sources, and reorganisations, which `Uncles`
has, are not in `WorkerLoops`. `timer.Reset` in the commit
helper arms the timer and leaves a tick that is already in `timer.C` where it
is, as the Go runtime this code was written for does.

## 3. Runs

Passing runs (a scenario of `Budgets` gives, per kind of outside call or event,
how many may happen; a run with several scenarios checks each of them):

| run | configuration | bounds | distinct states | properties |
|---|---|---|---|---|
| `recommit` | `Recommit.cfg` | 1 ms resolution, intervals 0.5, 1, 3, 15, 20 s, ratios 0, 1/20, 1/4, 1/2, 1 | 26,005 | `IntervalTypeOK`, `RecommitBetweenFloorAndMax`, `FeedbackMakesProgress` |
| `sealing` | `WorkerSealing.cfg` | five scenarios: 1 start with 1 transaction batch and 1 new head; 1 start with 3 side blocks on a side channel of 2; a dev-mode chain with 1 each of new head, transaction batch, GeneratePendingHeader and getSealingBlock and no start; 1 each of start, stop, setEtherbase and GeneratePendingHeader; 1 new head and 1 setRecommitInterval | 4,612,232 | `TypeOK`, `SupersededRoundSignalled`, `ResubmitTimerStaysArmed`, `PrefetchersAreOwned`, `SnapshotIsCurrent`, `SnapshotMonotone` |
| `shutdown` | `WorkerShutdown.cfg` | 1 close, 1 subscription error and 1 call of start, setRecommitInterval, getSealingBlock or postSideBlock, with and without etherbase, head fixed; `FairSpec` | 196,259 | `ShutdownCompletes`, `CallsReturn`, `PrefetchersAreOwned` |
| `txbatch` | `TxBatch.cfg` | 2 senders, each with 0 to 2 pending transactions of nonce 0 to 2, state nonce 1, gas limit 3, sound transactions of 1 or 2 units; `FairSpec` | 1,911,403 | `TypeOK`, `NothingExecutableLeftBehind`, `KeepsFillContract`, `FillReturns` |
| `uncle_rules` | `Uncles.cfg` | 6 blocks, forks up to 2 below the head, depth 3, stale threshold 3, side channel of 3 | 192,270 | `TypeOK`, `UnclesValid`, `PrefersLocal`, `SweepKeepsCandidates`, `KeepsUncleCount` |

What the properties say:

* `SupersededRoundSignalled`: a round whose interrupt cell is no longer the
  one `newWorkLoop` holds has a signal in that cell.
* `ResubmitTimerStaysArmed`: while the worker seals and nothing is on its way
  to `newWorkLoop`, the resubmit timer is armed or has ticked.
* `PrefetchersAreOwned`: every running prefetcher belongs to an environment
  the worker holds, but for the one each `GeneratePendingHeader` leaves.
* `SnapshotMonotone`: the block `pending()` shows is never replaced by one of
  a lower number, whichever of the snapshot's writers comes next. It is stated
  of a chain whose head grows: after a reorganisation to a lower head
  `prepareWork` builds on that head, and the snapshot follows it.
* `SnapshotIsCurrent`: whenever `mainLoop` is at its `select`, what
  `pendingBlock` shows is the block of `w.current`. The snapshot is written
  from three environments (the copy of the round's work, before the swap;
  `w.current` in the transaction case; a copy of `w.current` in the side
  block case); the exception, which `stale` records, is the commit that
  returned the error of `FinalizeAndAssemble` before `updateSnapshot`.
* `ShutdownCompletes`: after `close`, `newWorkLoop` and `taskLoop` return and
  `mainLoop` returns or stands at its feedback send.
* `CallsReturn`: every call of `start`, `setRecommitInterval`,
  `getSealingBlock` and `postSideBlock` returns, unless the loops are stuck
  while `exitCh` is open (`mainLoop` has returned on a subscription error, or
  stands at its feedback send while `newWorkLoop` stands at its own), or
  `start` is called around `close`. A caller of `getSealingBlock` is counted
  until `generateWork` has answered it.
* `KeepsFillContract`: `TxBatch` implements `Fill` (refinement): whatever the
  pending list, a failed transaction leaves gas, `tcount` and the state alone,
  nothing is executed after a poll that found the signal, at most one
  transaction is executed between the store of a signal and the poll that
  finds it, and every call sends the feedback its ending calls for.
* `NothingExecutableLeftBehind`: when a fill has returned uninterrupted, no
  pending transaction of a sender without an account-wide offence would still
  execute. It depends on every case of the switch: a stale nonce must shift, a
  nonce gap may pop.
* `FillReturns`: the loop ends, whichever case of the switch an iteration
  takes.
* `UnclesValid`: every uncle of `w.current` is one the consensus rule accepts
  for a block on the environment's parent, also after reorganisations, and for
  a side block offered to a `w.current` built on an older head.
* `PrefersLocal`: an environment from `prepareWork` has as many uncles as the
  pools have valid ones for it, two at most, local ones first, in every map
  order.
* `SweepKeepsCandidates`: the clean ticker removes no block that is still a
  valid uncle for a block on the head or on a fork as high.
* `KeepsUncleCount`: `Uncles` implements `UncleCount` (refinement): the pools
  and `w.current`, counted, move only as `Prepare`, `SideBlock` and `Sweep`
  allow, whatever the chain does to the blocks in them. `WorkerLoops` takes its
  counts from the operators of `UncleCount` (`Admitted`, `Swept`), so this is
  what says that the counts the rounds work with leave out no behaviour of the
  pools. The converse does not hold and is not claimed: `WorkerLoops` admits
  every count `UncleCount` allows, also those the four rules of `commitUncle`
  would refuse for the blocks at hand.

Why these bounds are enough for what is claimed: `sealing` has three sources of
rounds (the init token, the start token, the head event) plus timer resubmits,
so a round is superseded by a new head and by a resubmit, the feedback buffer
(size 1 here) fills, and `mainLoop` waits in its send; its second scenario
needs three side blocks to reach the limit of two uncles and try a third, with
a caller of `postSideBlock` waiting for room in the channel; its third
scenario has the rounds of a worker that is not running (the init token, the
head, the dev-mode commit of the transaction case) with `generateWork` and
`GeneratePendingHeader` between their steps; its fourth puts `stop`,
`setEtherbase` and a header call around the rounds of a start, so that a round
is refused for its missing etherbase and a round prepared while stopped is
committed while running; its fifth moves the interval, from a value below the
minimum or at the maximum, under the feedback of a round. `shutdown` closes
the worker, and fails a subscription, at every point of a round and of a call
that waits; its scenarios have no head event, so of the two ways the loops get
stuck it reaches the first (the second is the subject of `wedge`). In
`txbatch` the nonces 0, 1 and 2 are behind,
at and ahead of the state, two transactions of a sender make a ladder or a gap,
two senders make a local and a remote call, and a gas limit of 3 with
transactions of 1 or 2 units runs out in the middle of a list. In `uncle_rules`
the depth of `makeEnv`'s walk and the stale threshold are 3 where the code has 7
for both: six blocks then make chains longer than the depth, with forks at
several heights, reorganisations, uncles of uncles' siblings and three possible
uncles for a block that may hold two. Between them the passing runs take every
action and every disjunct of the next-state relations. The interval is pinned at
its maximum in the `WorkerLoops` runs, but for the fifth scenario of `sealing`:
there no feedback moves it, and its arithmetic is the subject of `recommit`. Deadlock checking is
off for the `WorkerLoops` runs and for `txbatch` because the system really
stops: after `close` the loops have returned, without `close` nothing happens
once the budgets are spent, and a fill that has returned is over. It is on for
`uncle_rules` and `recommit`.

Runs in which TLC finds that the code does not do what is said of it:

| run | property (what is said) | what the code does |
|---|---|---|
| `wedge` | `MainLoopCanExit`: exit cancels every worker | `mainLoop` blocks for ever in `resubmitAdjustCh <-` (lines 849, 936) when the buffer is full and `newWorkLoop` is gone; the run uses a buffer of 2, filled by the feedbacks `newWorkLoop` leaves unread, and the real buffer of 10 needs ten unread feedbacks |
| `abandoned_work` | `NewHeadDiscardsPartialWork` | `commitWork` commits the interrupted work (line 1124) |
| `gas_parent` | `GasLimitFromParent` | `adjustGasLimit` re-reads the head (line 1071) |
| `stale_task` | `PendingTasksFresh` | `taskLoop` inserts after `clearPending` (line 720) |
| `lost_txs` | `NewTransactionsResubmitted`: a tick resubmits when transactions have arrived | the commit helper zeroes `newTxs` (line 432) after `mainLoop` has counted a batch that the round did not read (line 669) |
| `zero_coinbase` | `SealedForEtherbase`: a block offered to the sealer names a fee recipient | `prepareWork` writes `w.coinbase` into the header only when the worker is running at that moment (line 996) and `commit` asks `isRunning()` again (line 1139): the round of the init token, prepared before `start()`, is sent to the sealer after it with the zero address in its header |
| `pool_race` | `PoolsNotShared`: the pools are touched on `mainLoop` only | `GeneratePendingHeader` ranges over both maps on its caller's goroutine (lines 1029, 1030) while `mainLoop` inserts (lines 609, 611) and deletes (lines 627, 632) |

Seven more disagreements are recorded as findings on passing runs, whose
property states what the code does keep:

| finding on | what is said | what holds |
|---|---|---|
| `recommit`, `RecommitBetweenFloorAndMax` | recommit stays in [minRecommit, 15 s] | a user interval above 15 s is accepted (line 476): the bound is the larger of the floor and the maximum |
| `txbatch`, `KeepsFillContract` | one feedback per round | one per call of `commitTransactions`, two calls per round (lines 1054, 1060) |
| `sealing`, `PrefetchersAreOwned` | every environment is discarded | `GeneratePendingHeader` never discards (line 564): one prefetcher per call is left |
| `uncle_rules`, `PrefersLocal` | `noUncle`, `noExtra` and the parent of `getSealingBlock` | `prepareWork` reads none of them (lines 1172-1179): the block has the uncles of any other |
| `shutdown`, `CallsReturn` | a subscription error is terminal and the worker unwinds | `mainLoop` returns and closes nothing (line 674): the other loops and the callers wait until `close` |
| `shutdown`, `CallsReturn` | a call returns, on the reply or on shutdown | `start` sends on `startCh` with no exit case (line 364): after `close` it blocks for ever on a token nobody takes |
| `sealing`, `SnapshotIsCurrent` | the snapshot is the view of the block being assembled | after a failed `FinalizeAndAssemble` (line 1148) `w.current` is swapped and the snapshot is not written |

## 4. Fairness

Safety runs use `Spec`, with no fairness. `shutdown` uses `FairSpec` of
`WorkerLoops`: weak fairness of each loop and of the callers inside a method,
at a send that has room or between two statements (the Go scheduler runs a
goroutine that can take a step), and strong fairness of the
cases of a `select` that the properties need taken: the exit case of
`newWorkLoop` (`NwExit`), its receives from `startCh`, `resubmitIntervalCh`
and `resubmitAdjustCh` (`NwStart`, `NwInterval`, `NwAdjust`), and the receive
of `mainLoop` from `getWorkCh` (`GetWork`). A `select` chooses uniformly at
random among its ready cases, so a case that is ready again and again is
taken. Without it TLC finds the behaviours in which the timer case, re-armed
each time, is chosen for ever while `exitCh` is closed or a feedback waits.
The outside world, the calls themselves and the subscription error have no
fairness. `txbatch` uses `FairSpec` of `TxBatch`: weak fairness of
`commitTransactions`, a loop on a goroutine that nothing blocks (its feedback
send is the subject of `wedge`, in `WorkerLoops`); the store of the interrupt
has none.

## 5. Not modelled

* the `Core` facade (forwarding only), `totalFees`, `copyReceipts`;
* the price order of the transaction iterator, the contents of receipts and
  logs, the pending-logs feed;
* header fields other than the number and the fee recipient, timestamps (`forceTime` is a
  preparation that may fail), base fee, the consensus engine's `Prepare` and
  `FinalizeAndAssemble` but for their failure;
* the values of `adjustGasLimit` (only which block it reads);
* aliasing between an environment and its copies: an environment is a value.
  `copy` deep-copies the state and the receipts and shares the transactions
  and the uncle headers, which nothing in this file writes;
* a torn read of `w.coinbase` in `commitWork` and `GeneratePendingHeader`
  (lines 1103, 551), which read it without `w.mu`: `prepareWork` reads it
  again under the lock for everything that is done with it, so the race has
  no outcome the model can tell from the locked read;
* `setGasCeil`, `setExtra`, `enablePreseal`, `disablePreseal`: `w.noempty` is
  read by nothing (the pre-seal commit is commented out in `commitWork`), and
  the gas ceiling and the extra data go into a header whose content decides no
  branch of the worker; the test hooks, logging;
* what the racing loops of `GeneratePendingHeader` read from the pools: the
  uncles they collect are dropped with the environment, so the race is
  modelled by its occurrence (`pool_race`) and not by its outcomes;
* a second `close`, which panics in the caller;
* progress of sealing: a round that fails (no etherbase, a failing engine,
  state or pool) is skipped and the next event starts another, so nothing
  says that a head is eventually built on;
* time: the timer fires at any moment after it is armed, so nothing is said
  of how early a resubmit may come.

## 6. Plan

Done: `Recommit`, `WorkerLoops`, `Fill`, `TxBatch`, `Uncles`, `UncleCount` with
the runs above.

Open:

1. an abstract specification of the worker as seen by its users (what
   `pendingBlock` and the sealer are given, and when) and `WorkerLoops` shown
   to refine it;
2. the feedback buffer at its real size of 10 with the interval free to move:
   the passing runs use a buffer of 1 and `wedge` a buffer of 2;
3. `WorkerLoops` with the pools of `Uncles` in place of their count: the
   rounds now take every count `UncleCount` allows, which is more than the
   four rules of `commitUncle` admit for a given chain; the product would
   multiply the states of `sealing` by those of `uncle_rules`.
