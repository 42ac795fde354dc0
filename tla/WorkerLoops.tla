---------------------------- MODULE WorkerLoops ----------------------------
(***************************************************************************)
(* The three goroutines of the sealing worker (src/core/worker.go) and the *)
(* channels, atomics and locked tables through which they meet:            *)
(*                                                                         *)
(*   newWorkLoop  decides when a round of sealing work starts, and tells   *)
(*                the round in flight that it is superseded;               *)
(*   mainLoop     builds the environment of a round, fills it with         *)
(*                transactions, hands the result on as a task, and owns    *)
(*                w.current and the pending snapshot;                      *)
(*   taskLoop     takes the tasks and files them in w.pendingTasks.        *)
(*                                                                         *)
(* Around them: the chain (head events), the transaction pool and the side *)
(* chain (events), and the callers of the worker's methods.                *)
(*                                                                         *)
(* What is kept of the data: a header is its number and whether it names a *)
(* fee recipient; an environment is its header, its                        *)
(* transaction count, what is left of its gas pool (in units of            *)
(* params.TxGas) and the number of its uncles.                             *)
(***************************************************************************)
EXTENDS Integers, Sequences, FiniteSets

CONSTANTS
    MaxHead,         \* bound: the highest block number the chain reaches
    Budgets,         \* bound: the scenarios to check, each of which says
                     \* for each kind of call or event how many there are
    GasSlots,        \* the gas limit of a header, in units of params.TxGas
    AdjustChanSize,  \* resubmitAdjustChanSize
    HeadChanSize,    \* chainHeadChanSize
    SideChanSize,    \* chainSideChanSize
    TxChanSize,      \* txChanSize
    StaleThreshold,  \* staleThreshold
    DevModes,        \* chainConfig.Clique with Period 0: the values to check
    InitTokens,      \* the init argument of newWorker: the values to check
    Etherbases,      \* config.Etherbase is set: the values to check
    Second,          \* time units per second (module Recommit)
    Intervals,       \* recommit intervals a user may ask for (module Recommit)
    Cells,           \* the int32 cells a commit may allocate
    NoCell,          \* the nil *int32
    Nil              \* a nil pointer

(* The calls and events that come from outside the worker.                 *)
Kinds == {"head", "txs", "side", "start", "stop", "close", "etherbase",
          "interval", "header", "getWork", "subErr"}

(* The calls that wait for a loop: in a select that has an exit case, and  *)
(* start in a send that has none.                                          *)
Selects == {"interval", "getWork", "side"}
Waits   == Selects \cup {"start"}

(* Where a caller may stand inside a method: at the send or the select of  *)
(* a call that waits, in close before close(w.exitCh), and in              *)
(* GeneratePendingHeader before its store into w.newTxs ("header") and     *)
(* before its call of prepareWork ("prepare").                             *)
Places == Waits \cup {"close", "header", "prepare"}

ASSUME /\ MaxHead \in Nat /\ Budgets \subseteq [Kinds -> Nat]
       /\ \A b \in Budgets : b["head"] <= MaxHead
       /\ GasSlots \in Nat \ {0}
       /\ AdjustChanSize \in Nat \ {0} /\ HeadChanSize \in Nat \ {0}
       /\ SideChanSize \in Nat /\ TxChanSize \in Nat
       /\ StaleThreshold \in Nat \ {0}
       /\ DevModes \subseteq BOOLEAN /\ InitTokens \subseteq BOOLEAN
       /\ Etherbases \subseteq BOOLEAN
       /\ Cardinality(Cells) >= 2 /\ NoCell \notin Cells

VARIABLES
    head,              \* the number of hc.CurrentBlock()
    chainHeadCh,       \* w.chainHeadCh: the numbers of the announced heads
    chainSideCh,       \* side blocks waiting in w.chainSideCh
    txsCh,             \* transaction batches waiting in w.txsCh
    unread,            \* the pool has transactions no round has asked it for
    budget,            \* the scenario, one of Budgets
    calls,             \* calls and events from outside so far, by kind
    devMode,           \* chainConfig.Clique != nil && Clique.Period == 0
    coinbase,          \* w.coinbase is not the zero address
    running,           \* w.running
    blocked,           \* callers inside a method, by the place they stand at
    startCh,           \* tokens in w.startCh (capacity 1)
    exited,            \* w.exitCh is closed
    resubmitAdjustCh,  \* w.resubmitAdjustCh: the feedback not yet read
    newTxs,            \* w.newTxs: 0, or 1 for any positive count
    cell,              \* the value of each interrupt cell
    pendingTasks,      \* w.pendingTasks: the block numbers it holds tasks for
    snapshot,          \* w.snapshotBlock, or Nil
    stale,             \* history: a commit failed and left the snapshot behind
    nwPC,              \* newWorkLoop: where it stands
    interrupt,         \* newWorkLoop: its interrupt pointer
    timer,             \* newWorkLoop: its timer, armed and/or ticked
    minRecommit,       \* newWorkLoop: minRecommit
    recommit,          \* newWorkLoop: recommit
    mlPC,              \* mainLoop: where it stands
    round,             \* mainLoop: the locals of the round in progress
    work,              \* mainLoop: the environment of that round, or Nil
    current,           \* w.current, or Nil
    uncleCands,        \* blocks in w.localUncles and w.remoteUncles
    prefetchers,       \* state prefetchers started and not stopped
    tlPC,              \* taskLoop: where it stands
    tlTask,            \* taskLoop: the task received and not yet filed
    stopCh             \* taskLoop: stopCh is an open channel

chain    == <<head, chainHeadCh>>
feeds    == <<chainSideCh, txsCh, unread>>
config   == <<budget, devMode, coinbase>>
switch   == <<running, blocked, startCh, exited>>
shown    == <<snapshot, stale>>
tables   == <<pendingTasks, shown>>
interval == <<minRecommit, recommit>>
nwLocals == <<nwPC, interrupt, timer>>
mlLocals == <<mlPC, round, work>>
envs     == <<current, uncleCands, prefetchers>>
tlLocals == <<tlPC, tlTask, stopCh>>

mlOwn    == <<mlLocals, envs>>

outside == <<chain, feeds, calls, config, switch>>   \* what callers and events move
shared  == <<resubmitAdjustCh, newTxs, cell, tables>>   \* what the loops meet through
loops   == <<interval, nwLocals, mlOwn, tlLocals>>   \* what one loop holds for itself

vars == <<outside, shared, loops>>

-----------------------------------------------------------------------------
(* commitInterruptNone, commitInterruptNewHead, commitInterruptResubmit    *)
None     == 0
NewHead  == 1
Resubmit == 2

NoGas == -1    \* env.gasPool == nil

(* The interval arithmetic of newWorkLoop, with the fill ratios this       *)
(* module's gas pool can produce.                                          *)
Interval == INSTANCE Recommit
                WITH Ratios <- {<<used, GasSlots>> : used \in 0 .. GasSlots}

(* header.Number, and header.Coinbase as set or left zero.                 *)
Headers == [number : 1 .. MaxHead + 1, coinbase : BOOLEAN]

Environments ==
    [header : Headers, tcount : 0 .. GasSlots, gasPool : NoGas .. GasSlots,
     uncles : 0 .. 2]

Blocks == [header : Headers, tcount : 0 .. GasSlots, uncles : 0 .. 2]

(* environment.copy: a new environment with the fields of this one, a     *)
(* pool that was allocated being copied with what is left in it.           *)
copy(env) ==
    [header |-> env.header, tcount |-> env.tcount, gasPool |-> env.gasPool,
     uncles |-> env.uncles]

(* environment.unclelist: the uncles in the order Go ranges over the map,  *)
(* of which the count is kept.                                             *)
unclelist(env) == env.uncles

(* What NewBlock and FinalizeAndAssemble keep of an environment.           *)
BlockOf(env) ==
    [header |-> env.header, tcount |-> env.tcount, uncles |-> unclelist(env)]

(* engine.SealHash, to what the pending table is read by: the number.      *)
SealHash(block) == block.header.number

Callers == {"commitWork", "txs", "side", "getWork"}

(* The locals of mainLoop while it is away from its select: the interrupt  *)
(* of the request, who called, the number of the block the header's gas    *)
(* limit was computed from, the calls of commitTransactions still to make, *)
(* whether one of them returned true, and the feedback or task a blocked   *)
(* send holds.                                                             *)
Rounds ==
    [interrupt : Cells \cup {NoCell}, caller : Callers,
     gasFrom : 0 .. MaxHead \cup {Nil}, todo : 0 .. 2, abandoned : BOOLEAN,
     adjust : Interval!Feedbacks \cup {Nil},
     task : Blocks \cup {Nil}]

NoRound ==
    [interrupt |-> NoCell, caller |-> "commitWork", gasFrom |-> Nil,
     todo |-> 0, abandoned |-> FALSE, adjust |-> Nil,
     task |-> Nil]

Live(env) == IF env = Nil THEN 0 ELSE 1

(* The pools and the uncles of w.current, counted with the operators of    *)
(* module UncleCount, which module Uncles is shown to implement.           *)
Count == INSTANCE UncleCount WITH
    held <- IF current = Nil THEN Nil ELSE current.uncles

(* env.gasPool after the first lines of commitTransactions, which allocate *)
(* the pool of an environment that has none.                               *)
Gas(env) == IF env.gasPool = NoGas THEN GasSlots ELSE env.gasPool

(* clearPending: the tasks that are staleThreshold or more behind go.      *)
clearPending(tasks, number) ==
    {n \in tasks : ~(n + StaleThreshold <= number)}

(* One more call or event of a kind, while the bound allows it.            *)
Spend(kind) ==
    /\ calls[kind] < budget[kind]
    /\ calls' = [calls EXCEPT ![kind] = @ + 1]

(* A caller comes to stand in the send or the select of its method.        *)
Call(kind) ==
    /\ Spend(kind)
    /\ blocked' = [blocked EXCEPT ![kind] = @ + 1]

(* A caller that stood there goes on.                                      *)
Served(kind) ==
    /\ blocked[kind] > 0
    /\ blocked' = [blocked EXCEPT ![kind] = @ - 1]

(* A caller goes from one place of its method to the next.                 *)
Moves(from, to) ==
    /\ blocked[from] > 0
    /\ blocked' = [blocked EXCEPT ![from] = @ - 1, ![to] = @ + 1]

-----------------------------------------------------------------------------
(* newWorker: the loops are started at their selects, nothing is pending,  *)
(* and init puts a token into startCh.                                     *)
Init ==
    /\ head = 0 /\ chainHeadCh = <<>> /\ chainSideCh = 0 /\ txsCh = 0
    /\ unread = FALSE
    /\ budget \in Budgets /\ calls = [k \in Kinds |-> 0]
    /\ devMode \in DevModes /\ coinbase \in Etherbases
    /\ running = FALSE /\ blocked = [place \in Places |-> 0] /\ exited = FALSE
    /\ \E init \in InitTokens : startCh = IF init THEN 1 ELSE 0
    /\ resubmitAdjustCh = <<>> /\ newTxs = 0
    /\ cell = [c \in Cells |-> None]
    /\ pendingTasks = {} /\ snapshot = Nil /\ stale = FALSE
    /\ nwPC = "select" /\ interrupt = NoCell
    /\ timer = [armed |-> FALSE, tick |-> FALSE]
    /\ Interval!IntervalInit
    /\ mlPC = "select" /\ round = NoRound /\ work = Nil
    /\ current = Nil /\ uncleCands = 0 /\ prefetchers = 0
    /\ tlPC = "select" /\ tlTask = Nil /\ stopCh = FALSE

-----------------------------------------------------------------------------
(* The world outside the worker.                                           *)

(* The header chain takes a new head and announces it on its feed.  A feed *)
(* blocks on a full subscriber channel: the chain waits.                   *)
ChainHead ==
    /\ Spend("head")
    /\ Len(chainHeadCh) < HeadChanSize
    /\ head' = head + 1
    /\ chainHeadCh' = Append(chainHeadCh, head + 1)
    /\ UNCHANGED <<feeds, config, switch, shared, loops>>

(* The transaction pool announces a batch of new transactions.             *)
NewTxsEvent ==
    /\ Spend("txs")
    /\ txsCh < TxChanSize
    /\ txsCh' = txsCh + 1
    /\ unread' = TRUE
    /\ UNCHANGED <<chain, chainSideCh, config, switch, shared, loops>>

(* The runtime timer of newWorkLoop expires: a tick is buffered in timer.C *)
TimerFires ==
    /\ timer.armed
    /\ timer' = [armed |-> FALSE, tick |-> TRUE]
    /\ UNCHANGED <<outside, shared, interval, nwPC, interrupt, mlOwn,
                   tlLocals>>

-----------------------------------------------------------------------------
(* The methods of the worker, called from any goroutine.                   *)

(* start, first statement: the flag is stored.                             *)
start ==
    /\ Call("start")
    /\ running' = TRUE
    /\ UNCHANGED <<chain, feeds, config, startCh, exited, shared, loops>>

(* start, second statement: the token is sent, when startCh has room.      *)
startSend ==
    /\ Served("start")
    /\ startCh = 0
    /\ startCh' = 1
    /\ UNCHANGED <<chain, feeds, calls, config, running, exited, shared,
                   loops>>

(* setRecommitInterval, getSealingBlock and postSideBlock: the caller      *)
(* comes to its select, of a send to a loop and the exit case.             *)
Select(kind) ==
    /\ Call(kind)
    /\ UNCHANGED <<chain, feeds, config, running, startCh, exited, shared,
                   loops>>

setRecommitInterval == Select("interval")
getSealingBlock     == Select("getWork")
postSideBlock       == Select("side")

(* A mutation of CallerExit: the select has no exit case.                  *)
CallerWaits(kind) == FALSE /\ UNCHANGED vars

(* case <-w.exitCh of a caller's select: the call returns.                 *)
CallerExit(kind) ==
    /\ exited
    /\ Served(kind)
    /\ UNCHANGED <<chain, feeds, calls, config, running, startCh, exited,
                   shared, loops>>

(* case w.chainSideCh <- event of postSideBlock, when the channel has room *)
SideSent ==
    /\ Served("side")
    /\ chainSideCh < SideChanSize
    /\ chainSideCh' = chainSideCh + 1
    /\ UNCHANGED <<chain, txsCh, unread, calls, config, running, startCh,
                   exited, shared, loops>>

stop ==
    /\ Spend("stop")
    /\ running' = FALSE
    /\ UNCHANGED <<chain, feeds, config, blocked, startCh, exited, shared,
                   loops>>

(* close, first statement: the flag is stored.  "The worker does not       *)
(* support being closed multiple times."                                   *)
close ==
    /\ Call("close")
    /\ ~exited
    /\ running' = FALSE
    /\ UNCHANGED <<chain, feeds, config, startCh, exited, shared, loops>>

(* close, second statement: close(w.exitCh).  What its wg.Wait waits for   *)
(* is the subject of the liveness property.                                *)
closeExit ==
    /\ Served("close")
    /\ exited' = TRUE
    /\ UNCHANGED <<chain, feeds, calls, config, running, startCh, shared,
                   loops>>

(* setEtherbase(addr), for the zero address or any other.                  *)
setEtherbase ==
    /\ Spend("etherbase")
    /\ coinbase' \in BOOLEAN
    /\ UNCHANGED <<chain, feeds, budget, devMode, switch, shared, loops>>

(* makeEnv: an empty environment for the header, its prefetcher started.   *)
makeEnv(header) ==
    [header |-> header, tcount |-> 0, gasPool |-> NoGas, uncles |-> 0]

(* commitUncle over the two pools, as prepareWork calls it: each possible  *)
(* uncle is admitted or rejected, until the environment holds two.  Which  *)
(* blocks the four rules of commitUncle admit is the subject of module     *)
(* Uncles; the rounds need the count, every one UncleCount allows.         *)
commitUncles(env) ==
    {[env EXCEPT !.uncles = n] : n \in Count!Admitted(uncleCands)}

(* w.prepareWork as its callers call it: refused when sealing without an   *)
(* etherbase, failing when the engine or the state fails, and else a new   *)
(* environment on the current head, whose header names the etherbase when  *)
(* the worker is sealing.                                                  *)
PreparedWork ==
    IF running /\ ~coinbase
    THEN {Nil}
    ELSE {Nil} \cup commitUncles(makeEnv([number |-> head + 1,
                                          coinbase |-> running]))

(* GeneratePendingHeader(header), to the end of its clearPending: the      *)
(* stale tasks are cleared, under w.pendingMu.                             *)
GeneratePendingHeader(number) ==
    /\ Call("header")
    /\ pendingTasks' = clearPending(pendingTasks, number)
    /\ UNCHANGED <<chain, feeds, config, running, startCh, exited,
                   resubmitAdjustCh, newTxs, cell, shown, loops>>

(* GeneratePendingHeader, atomic.StoreInt32(&w.newTxs, 0).                 *)
HeaderZeroed ==
    /\ Moves("header", "prepare")
    /\ newTxs' = 0
    /\ UNCHANGED <<chain, feeds, calls, config, running, startCh, exited,
                   resubmitAdjustCh, cell, tables, loops>>

(* GeneratePendingHeader, from its look at the etherbase to its return: an *)
(* environment is prepared whose header is returned, and the environment   *)
(* is dropped as it is.                                                    *)
HeaderPrepared ==
    /\ Served("prepare")
    /\ \E env \in PreparedWork : prefetchers' = prefetchers + Live(env)
    /\ UNCHANGED <<chain, feeds, calls, config, running, startCh, exited,
                   shared, interval, nwLocals, mlLocals, current, uncleCands,
                   tlLocals>>

-----------------------------------------------------------------------------
(* newWorkLoop                                                             *)

(* A cell for new(int32): one that the round in progress does not hold.    *)
FreshCell == CHOOSE c \in Cells : c # round.interrupt

(* A mutation of commit: the round before is not told.                     *)
CommitWithoutSignal(s) ==
    /\ cell' = [cell EXCEPT ![FreshCell] = None]
    /\ interrupt' = FreshCell
    /\ nwPC' = "sendWork"

(* The commit helper up to its select: the signal is stored in the cell of *)
(* the request before, a new cell is allocated, and the loop stands at the *)
(* send of the new request.                                                *)
commit(s) ==
    LET signalled == IF interrupt = NoCell THEN cell
                     ELSE [cell EXCEPT ![interrupt] = s]
    IN  /\ cell' = [signalled EXCEPT ![FreshCell] = None]
        /\ interrupt' = FreshCell
        /\ nwPC' = "sendWork"

(* case <-w.startCh                                                        *)
NwStart ==
    /\ nwPC = "select"
    /\ startCh = 1
    /\ startCh' = 0
    /\ pendingTasks' = clearPending(pendingTasks, head)
    /\ commit(NewHead)
    /\ UNCHANGED <<chain, feeds, calls, config, running, blocked, exited,
                   resubmitAdjustCh, newTxs, shown, interval, timer, mlOwn,
                   tlLocals>>

(* case head := <-w.chainHeadCh                                            *)
NwChainHead ==
    /\ nwPC = "select"
    /\ chainHeadCh # <<>>
    /\ chainHeadCh' = Tail(chainHeadCh)
    /\ pendingTasks' = clearPending(pendingTasks, Head(chainHeadCh))
    /\ commit(NewHead)
    /\ UNCHANGED <<head, feeds, calls, config, switch, resubmitAdjustCh,
                   newTxs, shown, interval, timer, mlOwn, tlLocals>>

(* The commit helper after its send: the timer is reset and w.newTxs is    *)
(* zeroed, while mainLoop is at work on the request.                       *)
NwSent ==
    /\ nwPC = "sent"
    /\ nwPC' = "select"
    /\ timer' = [timer EXCEPT !.armed = TRUE]
    /\ newTxs' = 0
    /\ UNCHANGED <<outside, resubmitAdjustCh, cell, tables, interval,
                   interrupt, mlOwn, tlLocals>>

(* case <-timer.C, when sealing is off or the chain is a 0-period clique:  *)
(* the tick is taken and the timer stays as it is.                         *)
NwTimerIdle ==
    /\ nwPC = "select"
    /\ timer.tick
    /\ ~(running /\ ~devMode)
    /\ timer' = [timer EXCEPT !.tick = FALSE]
    /\ UNCHANGED <<outside, shared, interval, nwPC, interrupt, mlOwn,
                   tlLocals>>

(* A mutation of Rearmed: the short circuit forgets the timer.             *)
NotRearmed == [armed |-> FALSE, tick |-> FALSE]

(* timer.Reset(recommit) once the tick has been taken.                     *)
Rearmed == [armed |-> TRUE, tick |-> FALSE]

(* case <-timer.C, sealing, no new transaction: the timer is reset.        *)
NwTimerReset ==
    /\ nwPC = "select"
    /\ timer.tick
    /\ running /\ ~devMode
    /\ newTxs = 0
    /\ timer' = Rearmed
    /\ UNCHANGED <<outside, shared, interval, nwPC, interrupt, mlOwn,
                   tlLocals>>

(* case <-timer.C, sealing, new transactions: a resubmit round.            *)
NwTimerResubmit ==
    /\ nwPC = "select"
    /\ timer.tick
    /\ running /\ ~devMode
    /\ newTxs # 0
    /\ timer' = [timer EXCEPT !.tick = FALSE]
    /\ commit(Resubmit)
    /\ UNCHANGED <<outside, resubmitAdjustCh, newTxs, tables, interval, mlOwn,
                   tlLocals>>

(* case interval := <-w.resubmitIntervalCh, meeting the send of            *)
(* setRecommitInterval: the channel has no buffer.                         *)
NwInterval(requested) ==
    /\ nwPC = "select"
    /\ Served("interval")
    /\ Interval!SetInterval(requested)
    /\ UNCHANGED <<chain, feeds, calls, config, running, startCh, exited,
                   shared, nwLocals, mlOwn, tlLocals>>

(* case adjust := <-w.resubmitAdjustCh                                     *)
NwAdjust ==
    /\ nwPC = "select"
    /\ resubmitAdjustCh # <<>>
    /\ resubmitAdjustCh' = Tail(resubmitAdjustCh)
    /\ Interval!Adjust(Head(resubmitAdjustCh))
    /\ UNCHANGED <<outside, newTxs, cell, tables, nwLocals, mlOwn, tlLocals>>

(* A mutation of NwCommitExit: the send of the request has no exit case.   *)
NwCommitBlocks == FALSE /\ UNCHANGED vars

(* case <-w.exitCh in the commit helper: commit returns and the loop is    *)
(* back at its select, the request unsent and the timer as it was.         *)
NwCommitExit ==
    /\ nwPC = "sendWork"
    /\ exited
    /\ nwPC' = "select"
    /\ UNCHANGED <<outside, shared, interval, interrupt, timer, mlOwn,
                   tlLocals>>

(* case <-w.exitCh of the loop, and the deferred timer.Stop().             *)
NwExit ==
    /\ nwPC = "select"
    /\ exited
    /\ nwPC' = "done"
    /\ timer' = [timer EXCEPT !.armed = FALSE]
    /\ UNCHANGED <<outside, shared, interval, interrupt, mlOwn, tlLocals>>

-----------------------------------------------------------------------------
(* mainLoop                                                                *)

(* commitWork, or generateWork, to the return of prepareWork: nothing when *)
(* sealing without an etherbase or when the preparation fails, and else a  *)
(* round begins for the caller, with the interrupt it was given.           *)
commitWork(intr, caller) ==
    \E env \in PreparedWork :
        IF env = Nil
        THEN UNCHANGED <<mlLocals, prefetchers>>
        ELSE /\ work' = env
             /\ prefetchers' = prefetchers + 1
             /\ mlPC' = "adjustGas"
             /\ round' = [NoRound EXCEPT !.interrupt = intr, !.caller = caller]

(* case req := <-w.newWorkCh, meeting the send in the commit helper.       *)
NewWork ==
    /\ nwPC = "sendWork" /\ mlPC = "select"
    /\ nwPC' = "sent"
    /\ commitWork(interrupt, "commitWork")
    /\ UNCHANGED <<outside, shared, interval, interrupt, timer, current,
                   uncleCands, tlLocals>>

(* case req := <-w.getWorkCh, meeting the send of getSealingBlock:         *)
(* generateWork, whose parameters prepareWork does not look at.  The       *)
(* caller waits for the result, which generateWork sends when it returns.  *)
GetWork ==
    /\ mlPC = "select"
    /\ Served("getWork")
    /\ commitWork(NoCell, "getWork")
    /\ UNCHANGED <<chain, feeds, calls, config, running, startCh, exited,
                   shared, interval, nwLocals, current, uncleCands, tlLocals>>

(* adjustGasLimit, which reads the chain head again, and fillTransactions  *)
(* up to its first call of commitTransactions: the pool is asked for its   *)
(* pending list, which may fail or be empty, and may hold local            *)
(* transactions, remote ones or both.                                      *)
AdjustGasLimit ==
    /\ mlPC = "adjustGas"
    /\ unread' = FALSE
    /\ \E todo \in 0 .. 2 :
          /\ round' = [round EXCEPT !.gasFrom = head, !.todo = todo]
          /\ mlPC' = IF todo = 0 THEN "commit" ELSE "fill"
    /\ UNCHANGED <<chain, chainSideCh, txsCh, calls, config, switch, shared,
                   interval, nwLocals, work, envs, tlLocals>>

(* The value of the round's interrupt, as commitTransactions loads it.     *)
Signal == IF round.interrupt = NoCell THEN None ELSE cell[round.interrupt]

(* commitTransactions returns to fillTransactions, which returns at once   *)
(* on true and goes on to its next call, if it has one, on false.          *)
Returns(r, result) ==
    [r EXCEPT !.todo = IF result THEN 0 ELSE @ - 1,
              !.abandoned = @ \/ result,
              !.adjust = Nil]

Resume(r) ==
    /\ round' = r
    /\ mlPC' = IF r.todo = 0 THEN "commit" ELSE "fill"

(* w.resubmitAdjustCh <- adjust, and return false.  The send has no other  *)
(* case: with the buffer full mainLoop stands at it.                       *)
Notify(adjust) ==
    IF Len(resubmitAdjustCh) < AdjustChanSize
    THEN /\ resubmitAdjustCh' = Append(resubmitAdjustCh, adjust)
         /\ Resume(Returns(round, FALSE))
    ELSE /\ mlPC' = "sendAdjust"
         /\ round' = [round EXCEPT !.adjust = adjust]
         /\ UNCHANGED resubmitAdjustCh

(* commitTransactions, the top of an iteration: the cell is loaded and     *)
(* found clear.  What newWorkLoop stores in it from here on is seen by the *)
(* next poll, if the call comes to one.                                    *)
FillPolled ==
    /\ mlPC = "fill"
    /\ round.interrupt # NoCell /\ Signal = None
    /\ mlPC' = "iterate"
    /\ UNCHANGED <<outside, shared, interval, nwLocals, round, work, envs,
                   tlLocals>>

(* The iteration is past its poll; a call without an interrupt has none.   *)
Clear ==
    \/ mlPC = "iterate"
    \/ mlPC = "fill" /\ round.interrupt = NoCell

(* commitTransactions, an iteration that finds the interrupt set: on a     *)
(* resubmit the fill ratio is reported and the call returns false, on a    *)
(* new head it returns true.                                               *)
FillInterrupted ==
    /\ mlPC = "fill"
    /\ Signal # None
    /\ work' = [work EXCEPT !.gasPool = Gas(work)]
    /\ IF Signal = Resubmit
       THEN Notify([ratio |-> Interval!FillRatio(GasSlots - Gas(work), GasSlots),
                    inc |-> TRUE])
       ELSE Resume(Returns(round, TRUE)) /\ UNCHANGED resubmitAdjustCh
    /\ UNCHANGED <<outside, newTxs, cell, tables, interval, nwLocals, envs,
                   tlLocals>>

(* commitTransactions, an iteration that executes a transaction: the gas   *)
(* it costs leaves the pool and tcount advances.  (An iteration whose      *)
(* transaction fails changes the iterator only.)                           *)
FillExecuted ==
    /\ Clear
    /\ Gas(work) >= 1
    /\ \E cost \in 1 .. Gas(work) :
          work' = [work EXCEPT !.gasPool = Gas(work) - cost, !.tcount = @ + 1]
    /\ mlPC' = "fill"
    /\ UNCHANGED <<outside, shared, interval, nwLocals, round, envs,
                   tlLocals>>

(* commitTransactions, the iteration that breaks, with the pool below      *)
(* params.TxGas or the transactions at their end, and the lines after the  *)
(* loop: a round that has an interrupt reports a decrease, and the call    *)
(* returns false, whatever the cell holds by then.                         *)
FillFinished ==
    /\ Clear
    /\ work' = [work EXCEPT !.gasPool = Gas(work)]
    /\ IF round.interrupt # NoCell
       THEN Notify([ratio |-> <<0, 1>>, inc |-> FALSE])
       ELSE Resume(Returns(round, FALSE)) /\ UNCHANGED resubmitAdjustCh
    /\ UNCHANGED <<outside, newTxs, cell, tables, interval, nwLocals, envs,
                   tlLocals>>

(* The send on w.resubmitAdjustCh that had to wait goes through.           *)
SendAdjust ==
    /\ mlPC = "sendAdjust"
    /\ Len(resubmitAdjustCh) < AdjustChanSize
    /\ resubmitAdjustCh' = Append(resubmitAdjustCh, round.adjust)
    /\ Resume(Returns(round, FALSE))
    /\ UNCHANGED <<outside, newTxs, cell, tables, interval, nwLocals, work,
                   envs, tlLocals>>

(* pending, pendingBlock and pendingBlockAndReceipts: what a reader is     *)
(* shown, under the read lock of the snapshot.                             *)
pendingBlock == snapshot

(* A mutation of updateSnapshot: the block is the one of w.current as it   *)
(* is now, which commitWork has not swapped yet.                           *)
SnapshotOfCurrent(env) ==
    /\ snapshot' = IF current = Nil THEN BlockOf(env) ELSE BlockOf(current)
    /\ stale' = FALSE

(* updateSnapshot: the block of the environment is published.              *)
updateSnapshot(env) ==
    /\ snapshot' = BlockOf(env)
    /\ stale' = FALSE

(* The environment commit was called with: a copy of the round's work, or  *)
(* of w.current when a side block was added to it.                         *)
Committed == copy(IF round.caller = "side" THEN current ELSE work)

(* A mutation of DiscardCurrent: the discard is forgotten.                 *)
KeepCurrent == UNCHANGED prefetchers

(* if w.current != nil { w.current.discard() }                             *)
DiscardCurrent == prefetchers' = prefetchers - Live(current)

(* A mutation of SwapCurrent: a w.current that is there is kept, and the   *)
(* work discarded.                                                         *)
SwapIfNone ==
    /\ work' = Nil
    /\ IF current = Nil
       THEN current' = work /\ UNCHANGED prefetchers
       ELSE prefetchers' = prefetchers - 1 /\ UNCHANGED current

(* The last lines of commitWork: the old w.current is discarded and the    *)
(* work takes its place.                                                   *)
SwapCurrent ==
    /\ DiscardCurrent
    /\ current' = work
    /\ work' = Nil

(* A mutation of DiscardWork: generateWork does not defer the discard.     *)
DropWork ==
    /\ work' = Nil
    /\ UNCHANGED <<prefetchers, current>>

(* The deferred work.discard() of generateWork.                            *)
DiscardWork ==
    /\ prefetchers' = prefetchers - 1
    /\ work' = Nil
    /\ UNCHANGED current

(* commit, or FinalizeAndAssemble in generateWork, has returned and the    *)
(* caller runs to the end of its case: commitWork swaps w.current, and the *)
(* transaction case, from which commitWork was called, then counts the     *)
(* batch into w.newTxs.                                                    *)
Returned ==
    /\ mlPC' = "select"
    /\ round' = NoRound
    /\ CASE round.caller = "side"    -> UNCHANGED <<work, current, prefetchers>>
         [] round.caller = "getWork" -> DiscardWork
         [] OTHER                    -> SwapCurrent
    /\ newTxs' = IF round.caller = "txs" THEN 1 ELSE newTxs

(* commit, to its select or its return: not sealing, the snapshot is       *)
(* updated; sealing, the block is assembled and offered as a task, or      *)
(* FinalizeAndAssemble fails and commit returns the error.  generateWork   *)
(* assembles the block, or fails to, and returns it.                       *)
Commit ==
    /\ mlPC = "commit"
    /\ \/ /\ round.caller # "getWork" /\ running
          /\ mlPC' = "sendTask"
          /\ round' = [round EXCEPT !.task = BlockOf(Committed)]
          /\ UNCHANGED <<work, current, prefetchers, newTxs, shown>>
       \/ /\ round.caller = "getWork" \/ running
          /\ Returned /\ UNCHANGED snapshot
          /\ stale' = (stale \/ round.caller # "getWork")
       \/ /\ round.caller # "getWork" /\ ~running
          /\ Returned /\ updateSnapshot(Committed)
    /\ UNCHANGED <<outside, resubmitAdjustCh, cell, pendingTasks, interval,
                   nwLocals, uncleCands, tlLocals>>

(* case w.taskCh <- task, meeting case task := <-w.taskCh.  mainLoop       *)
(* updates the snapshot and returns; taskLoop interrupts the task before   *)
(* and stands before the pending table with the new one.                   *)
NewTask ==
    /\ mlPC = "sendTask" /\ tlPC = "select"
    /\ updateSnapshot(Committed)
    /\ Returned
    /\ tlTask' = round.task
    /\ stopCh' = TRUE
    /\ tlPC' = "insert"
    /\ UNCHANGED <<outside, resubmitAdjustCh, cell, pendingTasks, interval,
                   nwLocals, uncleCands>>

(* case <-w.exitCh in commit: the task is dropped, the snapshot updated.   *)
CommitExit ==
    /\ mlPC = "sendTask"
    /\ exited
    /\ updateSnapshot(Committed)
    /\ Returned
    /\ UNCHANGED <<outside, resubmitAdjustCh, cell, pendingTasks, interval,
                   nwLocals, uncleCands, tlLocals>>

(* A mutation of HasRoom: the count of uncles is not looked at.            *)
AlwaysRoom(env) == TRUE

(* len(w.current.uncles) < 2                                               *)
HasRoom(env) == env.uncles < 2

(* case ev := <-w.chainSideCh: a block the pools hold already is dropped;  *)
(* a new one joins them, and when sealing with fewer than two uncles in    *)
(* w.current it is offered to commitUncle, whose success leads to commit.  *)
SideEvent ==
    /\ mlPC = "select"
    /\ chainSideCh > 0
    /\ chainSideCh' = chainSideCh - 1
    /\ \/ UNCHANGED <<uncleCands, current, mlPC, round>>
       \/ /\ uncleCands' = uncleCands + 1
          /\ \/ UNCHANGED <<current, mlPC, round>>
             \/ /\ running /\ current # Nil /\ HasRoom(current)
                /\ current' = [current EXCEPT !.uncles = @ + 1]
                /\ mlPC' = "commit"
                /\ round' = [NoRound EXCEPT !.caller = "side"]
    /\ UNCHANGED <<chain, txsCh, unread, calls, config, switch, shared,
                   interval, nwLocals, work, prefetchers, tlLocals>>

(* case <-cleanTicker.C: possible uncles that have gone stale are removed. *)
CleanTick ==
    /\ mlPC = "select"
    /\ uncleCands > 0
    /\ uncleCands' \in Count!Swept(uncleCands)
    /\ UNCHANGED <<outside, shared, interval, nwLocals, mlLocals, current,
                   prefetchers, tlLocals>>

(* commitTransactions(env, txset, nil), which nothing interrupts, run to   *)
(* its end: some transactions are executed, each for one unit of gas or    *)
(* more, and none when none fits.                                          *)
Filled(env) ==
    LET outcomes == {p \in (0 .. Gas(env)) \X (0 .. Gas(env)) :
                        p[1] <= p[2] /\ (p[1] = 0) = (p[2] = 0)}
    IN  {[env EXCEPT !.tcount = @ + p[1], !.gasPool = Gas(env) - p[2]] :
            p \in outcomes}

(* case ev := <-w.txsCh, not sealing and with a pending environment: the   *)
(* batch is applied to w.current, the snapshot follows when tcount moved,  *)
(* and the batch is counted.  When the block is full already the case      *)
(* ends at its continue, before the count.                                 *)
TxsEventPending ==
    /\ mlPC = "select"
    /\ txsCh > 0
    /\ ~running /\ current # Nil
    /\ txsCh' = txsCh - 1
    /\ IF current.gasPool # NoGas /\ current.gasPool < 1
       THEN UNCHANGED <<current, shown, newTxs>>
       ELSE /\ \E env \in Filled(current) :
                 /\ current' = env
                 /\ IF env.tcount # current.tcount
                    THEN updateSnapshot(env) ELSE UNCHANGED shown
            /\ newTxs' = 1
    /\ UNCHANGED <<chain, chainSideCh, unread, calls, config, switch,
                   resubmitAdjustCh, cell, pendingTasks, interval, nwLocals,
                   mlLocals, uncleCands, prefetchers, tlLocals>>

(* case ev := <-w.txsCh otherwise: on a 0-period clique chain commitWork   *)
(* is called, without an interrupt, and the batch is counted when it has   *)
(* returned; on any other chain the batch is only counted.                 *)
TxsEventSealing ==
    /\ mlPC = "select"
    /\ txsCh > 0
    /\ ~(~running /\ current # Nil)
    /\ txsCh' = txsCh - 1
    /\ IF devMode
       THEN /\ commitWork(NoCell, "txs")
            /\ newTxs' = IF mlPC' = "select" THEN 1 ELSE newTxs
       ELSE /\ newTxs' = 1
            /\ UNCHANGED <<mlLocals, prefetchers>>
    /\ UNCHANGED <<chain, chainSideCh, unread, calls, config, switch,
                   resubmitAdjustCh, cell, tables, interval, nwLocals,
                   current, uncleCands, tlLocals>>

(* mainLoop returns: its deferred function discards w.current.             *)
MainLoopReturns ==
    /\ mlPC = "select"
    /\ mlPC' = "done"
    /\ DiscardCurrent
    /\ UNCHANGED <<chain, feeds, config, switch, shared, interval, nwLocals,
                   round, work, current, uncleCands, tlLocals>>

(* case <-w.exitCh                                                         *)
MlExit == exited /\ MainLoopReturns /\ UNCHANGED calls

(* case <-w.txsSub.Err(), <-w.chainHeadSub.Err(), <-w.chainSideSub.Err():  *)
(* a feed of the chain or the pool is closed under the worker.             *)
SubscriptionError == Spend("subErr") /\ MainLoopReturns

-----------------------------------------------------------------------------
(* taskLoop                                                                *)

(* The task received is filed in w.pendingTasks under its seal hash.       *)
TaskPending ==
    /\ tlPC = "insert"
    /\ pendingTasks' = pendingTasks \cup {SealHash(tlTask)}
    /\ tlTask' = Nil
    /\ tlPC' = "select"
    /\ UNCHANGED <<outside, resubmitAdjustCh, newTxs, cell, shown,
                   interval, nwLocals, mlOwn, stopCh>>

(* case <-w.exitCh: the task in flight is interrupted, the loop returns.   *)
TlExit ==
    /\ tlPC = "select"
    /\ exited
    /\ stopCh' = FALSE
    /\ tlPC' = "done"
    /\ UNCHANGED <<outside, shared, interval, nwLocals, mlOwn, tlTask>>

-----------------------------------------------------------------------------
Outside ==
    \/ ChainHead \/ NewTxsEvent \/ TimerFires

Controller ==
    \/ start \/ stop \/ close \/ setEtherbase
    \/ setRecommitInterval \/ getSealingBlock \/ postSideBlock
    \/ \E number \in 0 .. head : GeneratePendingHeader(number)

(* The callers go on when they can.                                        *)
Waiting ==
    \/ startSend \/ SideSent \/ closeExit
    \/ HeaderZeroed \/ HeaderPrepared
    \/ \E kind \in Selects : CallerExit(kind)

newWorkLoop ==
    \/ NwStart \/ NwChainHead \/ NwSent
    \/ NwTimerIdle \/ NwTimerReset \/ NwTimerResubmit
    \/ \E requested \in Intervals : NwInterval(requested)
    \/ NwAdjust \/ NwCommitExit \/ NwExit

mainLoop ==
    \/ NewWork \/ GetWork \/ AdjustGasLimit
    \/ FillPolled \/ FillInterrupted \/ FillExecuted \/ FillFinished
    \/ SendAdjust
    \/ Commit \/ NewTask \/ CommitExit
    \/ SideEvent \/ CleanTick \/ TxsEventPending \/ TxsEventSealing
    \/ MlExit

taskLoop == TaskPending \/ TlExit

(* A closed feed ends mainLoop; it is the feed that closes, and no         *)
(* scheduling makes it.                                                    *)
Next ==
    \/ Outside \/ Controller \/ Waiting \/ SubscriptionError
    \/ newWorkLoop \/ mainLoop \/ taskLoop

Spec == Init /\ [][Next]_vars

(* The three loops and the callers are goroutines of their own, and the Go *)
(* scheduler runs a goroutine that can take a step.  A select chooses at   *)
(* random among the cases that are ready: a case that is ready again and   *)
(* again, as the exit case and the receives from callers are while a timer *)
(* that is always re-armed keeps them company, is taken sooner or later.   *)
FairSpec ==
    /\ Spec
    /\ WF_vars(newWorkLoop) /\ WF_vars(mainLoop) /\ WF_vars(taskLoop)
    /\ WF_vars(Waiting)
    /\ SF_vars(NwExit) /\ SF_vars(NwStart) /\ SF_vars(NwAdjust)
    /\ SF_vars(GetWork)
    /\ SF_vars(\E requested \in Intervals : NwInterval(requested))

-----------------------------------------------------------------------------
TypeOK ==
    /\ head \in 0 .. MaxHead
    /\ chainHeadCh \in Seq(1 .. MaxHead) /\ Len(chainHeadCh) <= HeadChanSize
    /\ chainSideCh \in 0 .. SideChanSize /\ txsCh \in 0 .. TxChanSize
    /\ unread \in BOOLEAN
    /\ budget \in Budgets
    /\ calls \in [Kinds -> Nat] /\ \A k \in Kinds : calls[k] <= budget[k]
    /\ devMode \in BOOLEAN /\ coinbase \in BOOLEAN
    /\ running \in BOOLEAN /\ exited \in BOOLEAN
    /\ blocked \in [Places -> Nat] /\ startCh \in 0 .. 1
    /\ resubmitAdjustCh \in Seq(Interval!Feedbacks)
    /\ Len(resubmitAdjustCh) <= AdjustChanSize
    /\ newTxs \in 0 .. 1
    /\ cell \in [Cells -> {None, NewHead, Resubmit}]
    /\ pendingTasks \subseteq 1 .. MaxHead + 1
    /\ snapshot \in Blocks \cup {Nil} /\ stale \in BOOLEAN
    /\ nwPC \in {"select", "sendWork", "sent", "done"}
    /\ interrupt \in Cells \cup {NoCell}
    /\ timer \in [armed : BOOLEAN, tick : BOOLEAN]
    /\ Interval!IntervalTypeOK
    /\ mlPC \in {"select", "adjustGas", "fill", "iterate", "sendAdjust",
                 "commit", "sendTask", "done"}
    /\ round \in Rounds
    /\ work \in Environments \cup {Nil}
    /\ current \in Environments \cup {Nil}
    /\ uncleCands \in 0 .. budget["side"]
    /\ prefetchers \in 0 .. 2 + budget["header"]
    /\ tlPC \in {"select", "insert", "done"}
    /\ tlTask \in Blocks \cup {Nil}
    /\ stopCh \in BOOLEAN

-----------------------------------------------------------------------------
(* Properties.                                                             *)

(* A round that newWorkLoop has superseded has been told so: when the      *)
(* interrupt of the round in progress is no longer the one newWorkLoop     *)
(* holds, the commit helper has stored a signal in it before it allocated  *)
(* the next (commit, "atomic.StoreInt32(interrupt, s)" then                *)
(* "interrupt = new(int32)").  commitTransactions polls that cell only.    *)
SupersededRoundSignalled ==
    round.interrupt \notin {NoCell, interrupt} => cell[round.interrupt] # None

(* While the worker is sealing on a chain that resubmits, and no start     *)
(* token or head event is on its way to newWorkLoop, the resubmit timer is *)
(* armed or has a tick waiting: the periodic resubmit cannot go to sleep   *)
(* for good.  The timer is re-armed by the commit helper after its send    *)
(* and by the short circuit of case <-timer.C, and by nothing else; a tick *)
(* taken while the worker was stopped leaves it unarmed.                   *)
ResubmitTimerStaysArmed ==
    /\ running /\ ~devMode /\ ~exited
    /\ nwPC = "select" /\ startCh = 0 /\ blocked["start"] = 0
    /\ chainHeadCh = <<>>
    => timer.armed \/ timer.tick

(* The environments the worker holds: the work of the round in progress    *)
(* and w.current, until mainLoop's deferred function has run.              *)
Owned == Live(work) + IF mlPC = "done" THEN 0 ELSE Live(current)

(* Every prefetcher that makeEnv started belongs to an environment the     *)
(* worker still holds, but for the one each GeneratePendingHeader leaves   *)
(* behind, and none is stopped twice: commitWork discards the w.current it *)
(* replaces, generateWork discards its work, also when a round was         *)
(* interrupted or its commit failed, and mainLoop discards w.current when  *)
(* it returns.                                                             *)
PrefetchersAreOwned == prefetchers - Owned \in 0 .. calls["header"]

(* What readers of pending() see is the block of w.current, whenever       *)
(* mainLoop is at its select: commitWork, the side block case and the      *)
(* transaction case each publish the environment they leave in w.current,  *)
(* commit from a copy it is given before the swap and the transaction case *)
(* from w.current itself.  The one exception is a commit that returned the *)
(* error of FinalizeAndAssemble, before its updateSnapshot: the snapshot   *)
(* then shows an environment that is gone, until the next one is           *)
(* published.                                                              *)
SnapshotIsCurrent ==
    mlPC = "select" /\ current # Nil /\ ~stale
    => pendingBlock = BlockOf(current)

(* "Snapshot updates are monotone [...] (never a stale overwrite)": the    *)
(* block that pending() shows is never replaced by one of a lower number.  *)
(* commit writes the snapshot from a copy of the round's work, before      *)
(* commitWork swaps w.current, and the transaction case writes it from     *)
(* w.current: the two agree because every round that wrote the snapshot    *)
(* goes on to the swap, abandoned or not.  The head of the chain grows     *)
(* here (ChainHead); a reorganisation to a lower head is not covered.      *)
SnapshotMonotone ==
    [][pendingBlock # Nil =>
          pendingBlock'.header.number >= pendingBlock.header.number]_vars

(* close() returns: once exitCh is closed newWorkLoop and taskLoop return, *)
(* and mainLoop returns or stands at its send on w.resubmitAdjustCh, the   *)
(* one send of the worker that has no exit case (MainLoopCanExit).         *)
ShutdownCompletes ==
    exited ~> /\ nwPC = "done" /\ tlPC = "done"
              /\ mlPC \in {"done", "sendAdjust"}

(* The loops wait and nothing wakes them: mainLoop has returned on the     *)
(* error of a subscription, which closes nothing, or it stands at its send *)
(* on w.resubmitAdjustCh while newWorkLoop stands at its send on           *)
(* w.newWorkCh or has returned.                                            *)
LoopsStuck ==
    \/ mlPC = "done"
    \/ mlPC = "sendAdjust" /\ nwPC \in {"sendWork", "done"}

(* A caller is in the method: in its send or select, or, in                *)
(* getSealingBlock, waiting for the result of generateWork.                *)
InCall(kind) ==
    \/ blocked[kind] > 0
    \/ kind = "getWork" /\ round.caller = "getWork"
                        /\ mlPC \notin {"select", "done"}

(* Every call of start, setRecommitInterval, getSealingBlock and           *)
(* postSideBlock returns, "on the reply or on shutdown", with three        *)
(* exceptions, in each of which the caller waits for ever: the loops are   *)
(* stuck and exitCh is open, so that the exit case of the caller's select  *)
(* is of no use; and start, whose send on w.startCh has no exit case,      *)
(* after close.                                                            *)
CallsReturn ==
    \A kind \in Waits :
        \/ []<>(~InCall(kind))
        \/ <>[](LoopsStuck /\ ~exited)
        \/ kind = "start" /\ <>[]exited

-----------------------------------------------------------------------------
(* What the specification, or a comment of the code, says of the worker,   *)
(* and the code does not do.                                               *)

(* "exitCh cancels all background workers": with exitCh closed and         *)
(* newWorkLoop gone, mainLoop is not left at a send nobody will receive.   *)
(* commitTransactions sends on w.resubmitAdjustCh without an exit case.    *)
MainLoopCanExit == ~(exited /\ nwPC = "done" /\ mlPC = "sendAdjust")

(* "For the first two cases, the semi-finished work will be discarded"     *)
(* (commitTransactions): work that a new-head signal has interrupted is    *)
(* not offered to the sealer.  commitWork calls commit whatever            *)
(* fillTransactions met.                                                   *)
NewHeadDiscardsPartialWork == mlPC = "sendTask" => ~round.abandoned

(* adjustGasLimit "recomputes the header's gas limit from parent's gas     *)
(* limit": the block it reads is the parent of the header.  It reads       *)
(* hc.CurrentBlock() again, after prepareWork did.                         *)
GasLimitFromParent ==
    round.gasFrom # Nil => round.gasFrom = work.header.number - 1

(* "The pending-tasks table never contains an entry older than head - 7",  *)
(* read at rest: when newWorkLoop has seen every head and taskLoop has     *)
(* filed every task.  taskLoop files a task after newWorkLoop has cleared  *)
(* the table for a head that makes it stale.                               *)
PendingTasksFresh ==
    /\ chainHeadCh = <<>> /\ nwPC = "select" /\ tlPC = "select"
    => \A number \in pendingTasks : number + StaleThreshold > head

(* "coinbase - fee recipient (required when running)", and the error of    *)
(* prepareWork, "refusing to mine without etherbase": a block offered to   *)
(* the sealer names a fee recipient.  prepareWork puts w.coinbase into the *)
(* header only when the worker is running at that moment, and commit asks  *)
(* isRunning() again at the end of the round: work prepared before start() *)
(* is sealed after it, with the zero address in its header.                *)
SealedForEtherbase == mlPC = "sendTask" => round.task.header.coinbase

(* "timer fires: if running [...] and newTxs > 0, issue commit(noempty,     *)
(* resubmit)": transactions that came after a round read the pool are      *)
(* picked up by the next tick.  While the pool has transactions that no    *)
(* round has asked it for, the worker is sealing and has built a block,    *)
(* and nothing is on its way to either loop, w.newTxs is not zero.  The    *)
(* commit helper zeroes it after its send, when mainLoop may have finished *)
(* the round and counted a batch the round did not see.                    *)
NewTransactionsResubmitted ==
    /\ running /\ ~devMode /\ ~exited /\ current # Nil
    /\ nwPC = "select" /\ startCh = 0 /\ blocked["start"] = 0
    /\ chainHeadCh = <<>>
    /\ mlPC = "select" /\ txsCh = 0
    /\ unread
    => newTxs # 0
=============================================================================
