-------------------------------- MODULE Fill --------------------------------
(***************************************************************************)
(* What fillTransactions (src/core/worker.go) does to an environment, as   *)
(* the rest of the worker sees it: the contract of its calls of            *)
(* commitTransactions, without the transactions.                           *)
(*                                                                         *)
(* A call polls the interrupt at the top of every iteration, and the rest  *)
(* of the iteration is a step of its own: a signal stored in between is    *)
(* seen by the next poll, if there is one.  An iteration that executes a   *)
(* transaction takes gas from the pool and advances tcount; any other      *)
(* iteration leaves the environment alone.  A call ends on the interrupt   *)
(* or on its own, and tells the resubmit interval how it ended.            *)
(*                                                                         *)
(* Module TxBatch, with the iterator and the error switch, implements this *)
(* specification; module WorkerLoops steps a round through these actions,  *)
(* with the feedback sent on a channel that may be full.                   *)
(***************************************************************************)
EXTENDS Integers, Sequences

CONSTANTS
    GasLimit,  \* env.header.GasLimit, in units of params.TxGas
    Nil        \* a nil pointer

ASSUME GasLimit \in Nat \ {0}

VARIABLES
    gasPool,    \* env.gasPool, once allocated
    tcount,     \* env.tcount
    interrupt,  \* the value of the interrupt cell, Nil when there is none
    todo,       \* the calls of commitTransactions still to return
    polled,     \* the iteration in progress has loaded the cell, clear
    abandoned,  \* a call has returned true
    feedbacks   \* what has been sent on w.resubmitAdjustCh

fvars == <<gasPool, tcount, interrupt, todo, polled, abandoned, feedbacks>>

(* commitInterruptNone, commitInterruptNewHead, commitInterruptResubmit    *)
None     == 0
NewHead  == 1
Resubmit == 2

(* Only the operators on ratios and feedbacks are taken from Recommit.     *)
Interval ==
    INSTANCE Recommit
        WITH Second <- 5, Intervals <- {}, minRecommit <- 0, recommit <- 0,
             Ratios <- {<<used, GasLimit>> : used \in 0 .. GasLimit}

Increase == [ratio |-> Interval!FillRatio(GasLimit - gasPool, GasLimit),
             inc |-> TRUE]
Decrease == [ratio |-> <<0, 1>>, inc |-> FALSE]

-----------------------------------------------------------------------------
(* The pool's pending list fails or is empty, or holds local transactions, *)
(* remote ones or both; the environment is new or has been filled before.  *)
FillInit ==
    /\ gasPool \in 0 .. GasLimit
    /\ tcount = 0
    /\ interrupt \in {Nil, None}
    /\ todo \in 0 .. 2
    /\ polled = FALSE
    /\ abandoned = FALSE
    /\ feedbacks = <<>>

(* newWorkLoop's commit helper stores its signal, once, in the cell of the *)
(* round it supersedes.                                                    *)
Signalled ==
    /\ interrupt = None
    /\ interrupt' \in {NewHead, Resubmit}
    /\ UNCHANGED <<gasPool, tcount, todo, polled, abandoned, feedbacks>>

(* "interrupt != nil && atomic.LoadInt32(interrupt) != commitInterruptNone" *)
(* is false: the iteration goes on, whatever is stored in the cell later.  *)
Polled ==
    /\ todo > 0 /\ ~polled
    /\ interrupt = None
    /\ polled' = TRUE
    /\ UNCHANGED <<gasPool, tcount, interrupt, todo, abandoned, feedbacks>>

(* The iteration is past its poll; a call without an interrupt has none.   *)
Clear == interrupt = Nil \/ polled

(* An iteration executes a transaction.                                    *)
Executed ==
    /\ todo > 0 /\ Clear
    /\ \E cost \in 1 .. gasPool :
          gasPool' = gasPool - cost
    /\ tcount' = tcount + 1
    /\ polled' = FALSE
    /\ UNCHANGED <<interrupt, todo, abandoned, feedbacks>>

(* An iteration skips its transaction, or executes it in vain.             *)
Passed ==
    /\ polled
    /\ polled' = FALSE
    /\ UNCHANGED <<gasPool, tcount, interrupt, todo, abandoned, feedbacks>>

(* An iteration finds the interrupt set: a resubmit reports the fill ratio *)
(* and the call returns false, a new head makes it return true, on which   *)
(* fillTransactions returns as well.                                       *)
Interrupted ==
    /\ todo > 0 /\ ~polled
    /\ \/ /\ interrupt = Resubmit
          /\ feedbacks' = Append(feedbacks, Increase)
          /\ todo' = todo - 1
          /\ UNCHANGED abandoned
       \/ /\ interrupt = NewHead
          /\ abandoned' = TRUE
          /\ todo' = 0
          /\ UNCHANGED feedbacks
    /\ UNCHANGED <<gasPool, tcount, interrupt, polled>>

(* The loop breaks, and a call that has an interrupt reports a decrease,   *)
(* also when a signal has been stored since the poll: the call returns     *)
(* false on it.                                                            *)
Finished ==
    /\ todo > 0 /\ Clear
    /\ todo' = todo - 1
    /\ polled' = FALSE
    /\ feedbacks' = IF interrupt = Nil THEN feedbacks
                    ELSE Append(feedbacks, Decrease)
    /\ UNCHANGED <<gasPool, tcount, interrupt, abandoned>>

FillNext ==
    \/ Signalled
    \/ Polled \/ Executed \/ Passed \/ Interrupted \/ Finished

FillSpec == FillInit /\ [][FillNext]_fvars
=============================================================================
