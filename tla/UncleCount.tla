----------------------------- MODULE UncleCount -----------------------------
(***************************************************************************)
(* The uncles of the worker (src/core/worker.go), counted: how many blocks *)
(* the two pools of mainLoop hold, and how many uncles w.current has.      *)
(*                                                                         *)
(* This is all that the rounds of the worker need of the uncles.  Module   *)
(* WorkerLoops steps its rounds over these counts, with the operators      *)
(* defined here; module Uncles, with the blocks, the chain and the rules   *)
(* of commitUncle, implements this specification.                          *)
(***************************************************************************)
EXTENDS Integers

CONSTANT Nil  \* a nil pointer

VARIABLES
    uncleCands,  \* blocks in w.localUncles and w.remoteUncles
    held         \* len(w.current.uncles), Nil while w.current is nil

cvars == <<uncleCands, held>>

(* The uncles the two loops of prepareWork may leave in an environment:    *)
(* each block of a pool is admitted or rejected, and a loop breaks at two. *)
Admitted(cands) == 0 .. IF cands > 2 THEN 2 ELSE cands

(* The blocks the sweep of the clean ticker may leave in the pools.        *)
Swept(cands) == 0 .. cands - 1

CountInit == uncleCands = 0 /\ held = Nil

(* prepareWork, and the swap of commitWork: a new w.current.               *)
Prepare ==
    /\ held' \in Admitted(uncleCands)
    /\ UNCHANGED uncleCands

(* case ev := <-w.chainSideCh, for a block the pools do not hold: it joins *)
(* a pool, and w.current takes it when it has room and commitUncle agrees. *)
SideBlock ==
    /\ uncleCands' = uncleCands + 1
    /\ \/ UNCHANGED held
       \/ held # Nil /\ held < 2 /\ held' = held + 1

(* case <-cleanTicker.C                                                    *)
Sweep ==
    /\ uncleCands' \in Swept(uncleCands)
    /\ UNCHANGED held

CountNext == Prepare \/ SideBlock \/ Sweep

CountSpec == CountInit /\ [][CountNext]_cvars

=============================================================================
