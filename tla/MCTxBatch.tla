----------------------------- MODULE MCTxBatch -----------------------------
(***************************************************************************)
(* TxBatch for two senders with up to two pending transactions each:       *)
(* nonces behind, at and ahead of the state, with and without gaps;        *)
(* transactions that fit the pool and that do not; every flaw.             *)
(***************************************************************************)
EXTENDS TxBatch

(* Sound transactions of one or two units of gas, flawed ones of one.      *)
MCTransactions ==
    [nonce : 0 .. 2, gas : 1 .. 2, flaw : {"none"}]
        \cup [nonce : 0 .. 2, gas : {1}, flaw : Flaws \ {"none"}]

MCLists ==
    {list \in UNION {[1 .. n -> MCTransactions] : n \in 0 .. 2} : ByNonce(list)}

MCBatches == [Accounts -> MCLists]

(* A sender's nonce in the state: 0 is behind it, 1 at it, 2 ahead of it.  *)
MCNonces == {1}
=============================================================================
