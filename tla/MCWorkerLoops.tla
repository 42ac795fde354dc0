--------------------------- MODULE MCWorkerLoops ---------------------------
(* Values for the constants of WorkerLoops, for model checking.            *)
EXTENDS WorkerLoops, TLC

(* Time in units of 200 ms: intervalAdjustBias is one unit.                *)
MCSecond == 5

(* A user interval below the minimum and one at the maximum.               *)
MCIntervals == {2, 75}

(* The maximum, 15 s: no feedback moves an interval that starts there.     *)
MCPinnedInterval == {75}

(* The calls and events of a scenario: none of a kind that is not named.   *)
Only(named) ==
    [k \in Kinds |-> IF k \in DOMAIN named THEN named[k] ELSE 0]

(* The worker is started, a head arrives and a batch of transactions; or   *)
(* it is started and three side blocks arrive.                             *)
SealingBudgets ==
    {Only([start |-> 1, head |-> 1, txs |-> 1]),
     Only([start |-> 1, side |-> 3])}

(* The worker is started, and nothing else is asked of it.                 *)
StartBudgets == {Only([start |-> 1])}

(* The worker is started and a batch of transactions arrives.              *)
TxsBudgets == {Only([start |-> 1, txs |-> 1])}

(* The worker is started and heads arrive, and nothing else is asked of    *)
(* it.                                                                     *)
HeadBudgets     == {Only([start |-> 1, head |-> 1])}
TwoHeadsBudgets == {Only([start |-> 1, head |-> 2])}

(* The worker is started and closed, and a head arrives.                   *)
CloseBudgets == {Only([start |-> 1, close |-> 1, head |-> 1])}

(* The worker is closed, or a feed closes under it, after a start or       *)
(* while a caller waits for one of its loops.                              *)
ShutdownBudgets ==
    {Only([close |-> 1, subErr |-> 1] @@ [kind \in {wait} |-> 1]) :
        wait \in Waits}

(* The methods other goroutines call.  On a 0-period clique chain, a       *)
(* worker that is never started is asked for a header and for a sealing    *)
(* block while a head and a batch of transactions arrive.                  *)
DevBudgets ==
    {Only([head |-> 1, txs |-> 1, header |-> 1, getWork |-> 1])}

(* The worker is started and stopped while its etherbase is taken away and *)
(* a header is asked for; or its interval is set while a head arrives.     *)
CallersBudgets ==
    {Only([start |-> 1, stop |-> 1, etherbase |-> 1, header |-> 1]),
     Only([head |-> 1, interval |-> 1])}

(* The run sealing: the scenarios of sealing and of the callers, each on   *)
(* the chain it is about, and the interval free to move where it is set.   *)
AllBudgets == SealingBudgets \cup DevBudgets \cup CallersBudgets

SealingInit ==
    /\ Init
    /\ devMode = (budget \in DevBudgets)
    /\ budget["interval"] = 0 => recommit = 15 * MCSecond

SealingSpec == SealingInit /\ [][Next]_vars
=============================================================================
