------------------------------ MODULE TxBatch ------------------------------
(***************************************************************************)
(* fillTransactions, commitTransactions and commitTransaction of the       *)
(* sealing worker (src/core/worker.go): the pending transactions of the    *)
(* pool are executed on an environment, the local senders' first, until    *)
(* the gas runs out, the transactions do, or the round is interrupted.     *)
(*                                                                         *)
(* A transaction is its nonce, the gas it is given (and uses, in units of  *)
(* params.TxGas) and what is wrong with it, if anything.  The state is the *)
(* nonce of each sender.  The price order of the iterator is left open:    *)
(* any sender's first transaction may be the one Peek returns.             *)
(*                                                                         *)
(* The same loop serves case ev := <-w.txsCh of mainLoop, which calls      *)
(* commitTransactions once, without an interrupt, on w.current: that is a  *)
(* fill with no local sender on an environment that may have been filled   *)
(* before.                                                                 *)
(***************************************************************************)
EXTENDS Integers, Sequences, FiniteSets, Functions

CONSTANTS
    Accounts,  \* the senders of pending transactions
    Batches,   \* the pending lists the pool may hold: for each sender one
    Nonces,    \* the nonces a sender may have in the state at the start
    GasLimit,  \* env.header.GasLimit, in units of params.TxGas
    Nil        \* a nil pointer

Flaws == {"none", "protected", "type", "other"}

(* The pool hands out the transactions of a sender in the order of their   *)
(* nonces.                                                                 *)
ByNonce(list) ==
    \A i, j \in DOMAIN list : i < j => list[i].nonce < list[j].nonce

ASSUME /\ GasLimit \in Nat \ {0} /\ Nonces \subseteq Nat
       /\ \A b \in Batches :
             /\ DOMAIN b = Accounts
             /\ \A a \in Accounts :
                   /\ ByNonce(b[a])
                   /\ \A tx \in Range(b[a]) :
                         /\ tx.nonce \in Nat /\ tx.gas \in Nat \ {0}
                         /\ tx.flaw \in Flaws

VARIABLES
    batch,      \* pending: what txPool.Pending returned
    locals,     \* txPool.Locals()
    nonce,      \* env.state: the nonce of each sender
    gasPool,    \* env.gasPool, NoGas when nil
    tcount,     \* env.tcount, counted from the start
    interrupt,  \* the value of the interrupt cell, Nil when there is none
    pc,         \* the call of commitTransactions in progress, or "done"
    polled,     \* the iteration in progress has loaded the cell, clear
    txs,        \* the iterator of that call: what is left, by sender
    abandoned,  \* a call has returned true
    feedbacks   \* what has been sent on w.resubmitAdjustCh

env   == <<nonce, gasPool, tcount>>
input == <<batch, locals>>
vars  == <<input, env, interrupt, pc, polled, txs, abandoned, feedbacks>>

-----------------------------------------------------------------------------
(* commitInterruptNone, commitInterruptNewHead, commitInterruptResubmit    *)
None     == 0
NewHead  == 1
Resubmit == 2

NoGas == -1    \* env.gasPool == nil

(* Only the operator on fill ratios is taken from Recommit.                *)
Interval ==
    INSTANCE Recommit
        WITH Second <- 5, Intervals <- {}, Ratios <- {},
             minRecommit <- 0, recommit <- 0

(* The first lines of commitTransactions: the pool of an environment that  *)
(* has none is allocated from the gas limit of the header.                 *)
Gas == IF gasPool = NoGas THEN GasLimit ELSE gasPool

(* fillTransactions splits the pending lists: the senders the pool calls   *)
(* local, and the rest.                                                    *)
localTxs  == [a \in Accounts |-> IF a \in locals THEN batch[a] ELSE <<>>]
remoteTxs == [a \in Accounts |-> IF a \in locals THEN <<>> ELSE batch[a]]

(* len(localTxs) > 0, len(remoteTxs) > 0                                   *)
Some(lists) == \E a \in Accounts : lists[a] # <<>>

(* TransactionsByPriceAndNonce.  Peek returns the best-priced of the       *)
(* senders' first transactions; Shift replaces it by the next of the same  *)
(* sender; Pop drops the sender.                                           *)
Heads(it)    == {a \in Accounts : it[a] # <<>>}
Shift(it, a) == [it EXCEPT ![a] = Tail(@)]
Pop(it, a)   == [it EXCEPT ![a] = <<>>]

(* tx.Protected() && !w.chainConfig.IsEIP155(number)                       *)
Protected(tx) == tx.flaw = "protected"

(* ApplyTransaction: the error it returns for a transaction of sender a.   *)
ApplyTransaction(a, tx) ==
    IF tx.flaw = "type" THEN "ErrTxTypeNotSupported"
    ELSE IF tx.nonce < nonce[a] THEN "ErrNonceTooLow"
    ELSE IF tx.nonce > nonce[a] THEN "ErrNonceTooHigh"
    ELSE IF tx.flaw = "other" THEN "ErrOther"
    ELSE IF tx.gas > Gas THEN "ErrGasLimitReached"
    ELSE "nil"

(* A mutation of commitTransaction: the pool is not charged.               *)
CommitWithoutGas(a, tx, err) ==
    /\ nonce' = IF err = "nil" THEN [nonce EXCEPT ![a] = @ + 1] ELSE nonce
    /\ gasPool' = Gas

(* A mutation of commitTransaction: a failed transaction is not reverted.  *)
CommitWithoutRevert(a, tx, err) ==
    /\ nonce' = [nonce EXCEPT ![a] = @ + 1]
    /\ gasPool' = IF tx.gas > Gas THEN Gas ELSE Gas - tx.gas

(* commitTransaction: the transaction is applied, and the state is         *)
(* reverted to the snapshot when that fails.                               *)
commitTransaction(a, tx, err) ==
    IF err = "nil"
    THEN nonce' = [nonce EXCEPT ![a] = @ + 1] /\ gasPool' = Gas - tx.gas
    ELSE nonce' = nonce /\ gasPool' = Gas

(* The errors on which the switch of commitTransactions pops.              *)
Popping == {"ErrGasLimitReached", "ErrNonceTooHigh", "ErrTxTypeNotSupported"}

(* A mutation of Advance: a stale transaction drops its sender.            *)
AdvanceDropsStale(it, a, err) ==
    IF err \in Popping \cup {"ErrNonceTooLow"} THEN Pop(it, a)
    ELSE Shift(it, a)

(* A mutation of Advance: the default case forgets its Shift.              *)
AdvanceKeepsFailed(it, a, err) ==
    IF err \in Popping THEN Pop(it, a)
    ELSE IF err = "ErrOther" THEN it
    ELSE Shift(it, a)

(* The switch of commitTransactions, to what it does with the iterator:    *)
(* out of gas, a nonce ahead of the state and an unsupported type pop; a   *)
(* nonce behind the state, success and any other error shift.              *)
Advance(it, a, err) ==
    IF err \in Popping THEN Pop(it, a) ELSE Shift(it, a)

-----------------------------------------------------------------------------
(* fillTransactions up to its first call of commitTransactions, on the new *)
(* environment of a round, with an interrupt (commitWork) or without one   *)
(* (generateWork, and commitWork in dev mode); or the transaction case of  *)
(* mainLoop, on a w.current that is not full.                              *)
Init ==
    /\ batch \in Batches
    /\ nonce \in [Accounts -> Nonces]
    /\ \/ /\ locals \in SUBSET Accounts
          /\ gasPool = NoGas
          /\ interrupt \in {Nil, None}
       \/ /\ locals = {}
          /\ gasPool \in 1 .. GasLimit
          /\ interrupt = Nil
    /\ pc = IF Some(localTxs) THEN "local"
            ELSE IF Some(remoteTxs) THEN "remote" ELSE "done"
    /\ txs = IF Some(localTxs) THEN localTxs ELSE remoteTxs
    /\ polled = FALSE
    /\ tcount = 0 /\ abandoned = FALSE /\ feedbacks = <<>>

(* newWorkLoop's commit helper stores its signal, once, in the cell of the *)
(* round it supersedes.                                                    *)
Store ==
    /\ interrupt = None
    /\ interrupt' \in {NewHead, Resubmit}
    /\ UNCHANGED <<input, env, pc, polled, txs, abandoned, feedbacks>>

(* commitTransactions returns to fillTransactions, which returns on true,  *)
(* and on false goes on to the remote transactions when it has just done   *)
(* the local ones and there are any.                                       *)
Return(result) ==
    /\ abandoned' = result
    /\ polled' = FALSE
    /\ IF pc = "local" /\ ~result /\ Some(remoteTxs)
       THEN pc' = "remote" /\ txs' = remoteTxs
       ELSE pc' = "done" /\ UNCHANGED txs

(* The top of an iteration, "interrupt != nil && atomic.LoadInt32(         *)
(* interrupt) != commitInterruptNone", finds the cell clear.  The rest of  *)
(* the iteration follows in a step of its own: newWorkLoop may store its   *)
(* signal in between.                                                      *)
Poll ==
    /\ pc # "done" /\ ~polled
    /\ interrupt = None
    /\ polled' = TRUE
    /\ UNCHANGED <<input, env, interrupt, pc, txs, abandoned, feedbacks>>

(* An iteration finds the interrupt set: on a resubmit the fill ratio is   *)
(* sent and the call returns false, on a new head it returns true.         *)
Interrupted ==
    /\ pc # "done" /\ ~polled
    /\ interrupt \notin {Nil, None}
    /\ gasPool' = Gas
    /\ feedbacks' =
          IF interrupt = Resubmit
          THEN Append(feedbacks,
                      [ratio |-> Interval!FillRatio(GasLimit - Gas, GasLimit),
                       inc |-> TRUE])
          ELSE feedbacks
    /\ Return(interrupt = NewHead)
    /\ UNCHANGED <<input, nonce, tcount, interrupt>>

(* The iteration is past its poll; a call without an interrupt has none.   *)
Clear == pc # "done" /\ (interrupt = Nil \/ polled)

(* The iterations below are past the poll and find the pool at             *)
(* params.TxGas or above.                                                  *)
Iterating == Clear /\ Gas >= 1

(* A replay-protected transaction on a chain that is not in its EIP155     *)
(* phase: its sender is popped.                                            *)
SkipProtected ==
    /\ Iterating
    /\ \E a \in Heads(txs) :
          /\ Protected(Head(txs[a]))
          /\ txs' = Pop(txs, a)
    /\ gasPool' = Gas
    /\ polled' = FALSE
    /\ UNCHANGED <<input, nonce, tcount, interrupt, pc, abandoned, feedbacks>>

(* The transaction is executed, and the switch on its error moves the      *)
(* iterator; tcount advances on success.                                   *)
Execute ==
    /\ Iterating
    /\ \E a \in Heads(txs) :
          LET tx  == Head(txs[a])
              err == ApplyTransaction(a, tx)
          IN  /\ ~Protected(tx)
              /\ commitTransaction(a, tx, err)
              /\ tcount' = IF err = "nil" THEN tcount + 1 ELSE tcount
              /\ txs' = Advance(txs, a, err)
    /\ polled' = FALSE
    /\ UNCHANGED <<input, interrupt, pc, abandoned, feedbacks>>

(* The loop breaks, with the pool below params.TxGas or the iterator at    *)
(* its end.  A call that has an interrupt reports a decrease, and the call *)
(* returns false, whatever the cell holds by then.  (The logs it publishes *)
(* are left out.)                                                          *)
Break ==
    /\ Clear
    /\ Gas < 1 \/ Heads(txs) = {}
    /\ gasPool' = Gas
    /\ feedbacks' = IF interrupt = Nil THEN feedbacks
                    ELSE Append(feedbacks, [ratio |-> <<0, 1>>, inc |-> FALSE])
    /\ Return(FALSE)
    /\ UNCHANGED <<input, nonce, tcount, interrupt>>

commitTransactions ==
    Poll \/ Interrupted \/ SkipProtected \/ Execute \/ Break

Next == Store \/ commitTransactions

Spec == Init /\ [][Next]_vars

(* mainLoop is a goroutine the scheduler runs: an iteration that can be    *)
(* taken is taken.                                                         *)
FairSpec == Spec /\ WF_vars(commitTransactions)

-----------------------------------------------------------------------------
(* The types, and with them that no more transactions are executed than   *)
(* the gas limit pays for: every one takes its gas from the pool.          *)
TypeOK ==
    /\ batch \in Batches /\ locals \subseteq Accounts
    /\ nonce \in [Accounts -> Nat]
    /\ gasPool \in {NoGas} \cup 0 .. GasLimit /\ tcount \in 0 .. GasLimit
    /\ interrupt \in {Nil, None, NewHead, Resubmit}
    /\ pc \in {"local", "remote", "done"} /\ polled \in BOOLEAN
    /\ DOMAIN txs = Accounts
    /\ abandoned \in BOOLEAN /\ Len(feedbacks) <= 2

-----------------------------------------------------------------------------
(* Properties.                                                             *)

(* The calls of commitTransactions still to return.                        *)
Todo ==
    CASE pc = "local"  -> IF Some(remoteTxs) THEN 2 ELSE 1
      [] pc = "remote" -> 1
      [] pc = "done"   -> 0

Contract == INSTANCE Fill WITH gasPool <- Gas, todo <- Todo

(* The loop keeps the contract of module Fill, on which the model of the   *)
(* three loops rests: gas leaves the pool and tcount advances only         *)
(* together, by one transaction at a time and only in an iteration whose   *)
(* poll found the interrupt clear, so that at most one transaction follows *)
(* the store of a signal; an iteration whose transaction fails leaves the  *)
(* environment as it was (commitTransaction reverts to its snapshot);      *)
(* every call that returns has sent the feedback its ending calls for, and *)
(* a call that returned true was the last.                                 *)
KeepsFillContract == Contract!FillSpec

(* The transaction would execute on the environment as it is: it is the    *)
(* next of its sender, it has no flaw, and the pool has the gas for it.    *)
Executable(a, tx) ==
    /\ tx.flaw = "none"
    /\ tx.nonce = nonce[a]
    /\ tx.gas <= Gas

(* No transaction of the sender is replay-protected or of an unsupported   *)
(* type, the offences for which a sender is dropped as a whole.            *)
Clean(a) == \A tx \in Range(batch[a]) : tx.flaw \notin {"protected", "type"}

(* "A single offending transaction should not starve its successors":      *)
(* when fillTransactions has returned without being interrupted, no        *)
(* pending transaction of a clean sender is left out that would still      *)
(* execute.  The switch of commitTransactions shifts past a stale nonce    *)
(* and past a success, and pops only where the sender's later nonces       *)
(* cannot execute either.                                                  *)
NothingExecutableLeftBehind ==
    pc = "done" /\ interrupt \in {Nil, None}
    => \A a \in Accounts :
          Clean(a) => \A tx \in Range(batch[a]) : ~Executable(a, tx)

(* fillTransactions returns: every iteration of commitTransactions that    *)
(* does not end the call takes a transaction off the iterator, whichever   *)
(* case of the switch it runs into.                                        *)
FillReturns == <>(pc = "done")
=============================================================================
