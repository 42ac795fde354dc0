------------------------------- MODULE Uncles -------------------------------
(***************************************************************************)
(* The uncles of a sealing block (src/core/worker.go): the two pools of    *)
(* side blocks that mainLoop keeps, the ancestors and the family that      *)
(* makeEnv collects, the four rules of commitUncle, and the two places     *)
(* that call it: prepareWork for a new environment, and the side block     *)
(* case of mainLoop for w.current.                                         *)
(*                                                                         *)
(* A block is its parent, its number and its uncles; its hash is its place *)
(* in the sequence of the blocks the chain knows.  The pools are written   *)
(* on mainLoop; what is hard is the chain moving under them: a possible    *)
(* uncle is included by a later block, becomes an ancestor after a         *)
(* reorganisation, or grows too old.  GeneratePendingHeader reads the      *)
(* pools on the goroutine of its caller.                                   *)
(***************************************************************************)
EXTENDS Integers, Sequences, FiniteSets, SequencesExt

CONSTANTS
    Depth,           \* the 7 of GetBlocksFromHash(parent.Hash(), 7)
    StaleThreshold,  \* staleThreshold
    SideChanSize,    \* chainSideChanSize
    MaxBlocks,       \* bound: the blocks the chain comes to know
    MaxFork,         \* bound: how far behind the head a new block's parent is
    Nil              \* a nil pointer

ASSUME /\ Depth \in Nat \ {0} /\ StaleThreshold \in Nat \ {0}
       /\ SideChanSize \in Nat /\ MaxBlocks \in Nat \ {0} /\ MaxFork \in Nat

VARIABLES
    blocks,        \* the blocks the chain knows, by hash
    head,          \* the hash of hc.CurrentBlock()
    chainSideCh,   \* w.chainSideCh: the hashes of the side blocks announced
    localUncles,   \* w.localUncles
    remoteUncles,  \* w.remoteUncles
    current,       \* w.current, or Nil
    ranging        \* a caller of GeneratePendingHeader ranges over the pools

chain == <<blocks, head>>
pools == <<localUncles, remoteUncles>>
vars  == <<chain, chainSideCh, pools, current, ranging>>

Genesis == [parent |-> 0, number |-> 0, uncles |-> {}]

Known == DOMAIN blocks

Number(hash) == blocks[hash].number

-----------------------------------------------------------------------------
(* The chain and the consensus engine.                                     *)

(* Block a is b or an ancestor of b.                                       *)
RECURSIVE OnChain(_, _)
OnChain(a, b) == b # 0 /\ (a = b \/ OnChain(a, blocks[b].parent))

(* The uncle rule of the consensus engine, for a block whose parent is     *)
(* given: an uncle is no ancestor of the block, its parent is one of the   *)
(* block's ancestors of the last Depth generations and not the block's own *)
(* parent, and none of those ancestors has it as an uncle already.         *)
ValidUncle(uncle, parent) ==
    LET near(a) == OnChain(a, parent) /\ Number(parent) + 1 - Number(a) <= Depth
    IN  /\ ~OnChain(uncle, parent)
        /\ near(blocks[uncle].parent) /\ blocks[uncle].parent # parent
        /\ \A a \in Known : near(a) => uncle \notin blocks[a].uncles

(* hc.GetBlocksFromHash(hash, n): the block and its ancestors, n at most.  *)
RECURSIVE GetBlocksFromHash(_, _)
GetBlocksFromHash(hash, n) ==
    IF n = 0 \/ hash = 0 THEN {}
    ELSE {hash} \cup GetBlocksFromHash(blocks[hash].parent, n - 1)

(* The chain takes a block, this node's or another's, with uncles the      *)
(* engine accepts.  A block higher than the head becomes the head, and the *)
(* blocks that leave the canonical chain are announced as side blocks; any *)
(* other block is a side block itself.  A feed blocks on a full channel.   *)
ImportBlock(parent, uncles) ==
    LET hash  == Len(blocks) + 1
        grows == Number(parent) + 1 > Number(head)
        side  == IF grows
                 THEN {b \in Known : OnChain(b, head) /\ ~OnChain(b, parent)}
                 ELSE {hash}
    IN  /\ hash <= MaxBlocks
        /\ Number(head) - Number(parent) <= MaxFork
        /\ Cardinality(uncles) <= 2
        /\ blocks' = Append(blocks, [parent |-> parent, uncles |-> uncles,
                                     number |-> Number(parent) + 1])
        /\ head' = IF grows THEN hash ELSE head
        /\ chainSideCh' = chainSideCh \o SetToSeq(side)
        /\ Len(chainSideCh') <= SideChanSize
        /\ UNCHANGED <<pools, current, ranging>>

-----------------------------------------------------------------------------
(* The environment: the hash of its header's parent, and its three sets.   *)

(* A mutation of makeEnv: the uncles of the ancestors are left out.        *)
makeEnvOfAncestors(parent) ==
    LET recent == GetBlocksFromHash(parent, Depth)
    IN  [parent |-> parent, ancestors |-> recent, family |-> recent,
         uncles |-> {}]

(* makeEnv, the loop over the ancestors.                                   *)
makeEnv(parent) ==
    LET recent == GetBlocksFromHash(parent, Depth)
    IN  [parent |-> parent, ancestors |-> recent,
         family |-> recent \cup UNION {blocks[a].uncles : a \in recent},
         uncles |-> {}]

(* commitUncle: the uncle is added unless one of the four rules rejects it.*)
commitUncle(env, uncle) ==
    IF \/ uncle \in env.uncles
       \/ blocks[uncle].parent = env.parent
       \/ blocks[uncle].parent \notin env.ancestors
       \/ uncle \in env.family
    THEN env
    ELSE [env EXCEPT !.uncles = @ \cup {uncle}]

(* A mutation of HasRoom: the count of uncles is not looked at.            *)
AlwaysRoom(env) == TRUE

(* len(env.uncles) < 2                                                     *)
HasRoom(env) == Cardinality(env.uncles) < 2

(* A mutation of commitUncles: the loop does not break at two uncles.      *)
CommitEvery(env, pool) ==
    {FoldLeft(commitUncle, env, order) : order \in SetToSeqs(pool)}

(* The commitUncles closure of prepareWork: a pool is a map, which Go      *)
(* ranges over in any order, and the loop breaks when two are in.          *)
commitUncles(env, pool) ==
    LET try(e, uncle) == IF HasRoom(e) THEN commitUncle(e, uncle) ELSE e
    IN  {FoldLeft(try, env, order) : order \in SetToSeqs(pool)}

(* A mutation of prepareWork: the remote pool is tried first.              *)
PrepareRemoteFirst ==
    UNION {commitUncles(env, localUncles) :
              env \in commitUncles(makeEnv(head), remoteUncles)}

(* prepareWork, what it returns: an environment on the current head, with  *)
(* uncles from the local pool and then from the remote one.  The noUncle   *)
(* of its parameters is not read: generateWork, for getSealingBlock, gets  *)
(* the environments that commitWork gets.                                  *)
prepareWork ==
    UNION {commitUncles(env, remoteUncles) :
              env \in commitUncles(makeEnv(head), localUncles)}

-----------------------------------------------------------------------------
(* mainLoop                                                                *)

Init ==
    /\ blocks = <<Genesis>> /\ head = 1
    /\ chainSideCh = <<>>
    /\ localUncles = {} /\ remoteUncles = {}
    /\ current = Nil /\ ranging = FALSE

(* commitWork: the environment prepareWork returns becomes w.current.  Its *)
(* transactions and its commit, which leave the uncles alone, are in       *)
(* modules TxBatch and WorkerLoops; a preparation that fails is a step     *)
(* that changes nothing.                                                   *)
commitWork ==
    /\ UNCHANGED <<chain, chainSideCh, pools, ranging>>
    /\ current' \in prepareWork

(* case ev := <-w.chainSideCh: a block the pools hold is dropped; another  *)
(* joins the pool of its author, and when the worker is sealing and        *)
(* w.current has room it is offered to commitUncle.  The commit of a copy  *)
(* of w.current that follows a success is in module WorkerLoops.           *)
SideEvent ==
    /\ chainSideCh # <<>>
    /\ chainSideCh' = Tail(chainSideCh)
    /\ LET block == Head(chainSideCh) IN
         IF block \in localUncles \cup remoteUncles
         THEN UNCHANGED <<pools, current>>
         ELSE /\ \/ localUncles' = localUncles \cup {block}
                    /\ UNCHANGED remoteUncles
                 \/ remoteUncles' = remoteUncles \cup {block}
                    /\ UNCHANGED localUncles
              /\ \E isRunning \in BOOLEAN :
                    current' = IF isRunning /\ current # Nil /\ HasRoom(current)
                               THEN commitUncle(current, block)
                               ELSE current
    /\ UNCHANGED <<chain, ranging>>

(* A mutation of Stale: the threshold is left out.                         *)
StaleAtOnce(uncle) == Number(uncle) <= Number(head)

(* uncle.NumberU64()+staleThreshold <= chainHead.NumberU64()               *)
Stale(uncle) == Number(uncle) + StaleThreshold <= Number(head)

(* case <-cleanTicker.C: the stale blocks leave both pools.                *)
CleanTick ==
    /\ localUncles' = {uncle \in localUncles : ~Stale(uncle)}
    /\ remoteUncles' = {uncle \in remoteUncles : ~Stale(uncle)}
    /\ UNCHANGED <<chain, chainSideCh, current, ranging>>

(* GeneratePendingHeader, on the goroutine of its caller: prepareWork      *)
(* comes to the loops of commitUncles over the two pools, which hold no    *)
(* lock.                                                                   *)
GeneratePendingHeader ==
    /\ ~ranging
    /\ ranging' = TRUE
    /\ UNCHANGED <<chain, chainSideCh, pools, current>>

(* The loops are through, and the header of the environment is returned:   *)
(* its uncles are not part of it.                                          *)
HeaderReturned ==
    /\ ranging
    /\ ranging' = FALSE
    /\ UNCHANGED <<chain, chainSideCh, pools, current>>

Chain ==
    \E parent \in Known :
        \E uncles \in SUBSET {uncle \in Known : ValidUncle(uncle, parent)} :
            ImportBlock(parent, uncles)

mainLoop == commitWork \/ SideEvent \/ CleanTick

Next == Chain \/ mainLoop \/ GeneratePendingHeader \/ HeaderReturned

Spec == Init /\ [][Next]_vars

-----------------------------------------------------------------------------
Environments ==
    [parent : Known, ancestors : SUBSET Known, family : SUBSET Known,
     uncles : {uncles \in SUBSET Known : Cardinality(uncles) <= 2}]

(* The types, and with them the two uncles a block may have at most: "the  *)
(* worker enforces an upper bound of 2 uncles", in the loop of prepareWork *)
(* and in the side block case.                                             *)
TypeOK ==
    /\ Len(blocks) \in 1 .. MaxBlocks
    /\ \A hash \in Known :
          /\ blocks[hash].parent \in 0 .. hash - 1
          /\ blocks[hash].uncles \subseteq 1 .. hash - 1
    /\ head \in Known
    /\ chainSideCh \in Seq(Known) /\ Len(chainSideCh) <= SideChanSize
    /\ localUncles \subseteq Known /\ remoteUncles \subseteq Known
    /\ current \in Environments \cup {Nil}
    /\ ranging \in BOOLEAN

(* Every uncle of an environment is one the consensus engine accepts in a  *)
(* block on the environment's parent, whatever the chain has done since    *)
(* the possible uncle was announced: makeEnv's ancestors and family,       *)
(* collected once, and the four rules of commitUncle, applied by           *)
(* prepareWork and again by the side block case, admit no block that is an *)
(* ancestor, is too old, hangs off the chain, or is an uncle already.      *)
UnclesValid ==
    current # Nil =>
        \A uncle \in current.uncles : ValidUncle(uncle, current.parent)

(* The possible uncles of a pool that a block on the parent may include.   *)
Candidates(pool, parent) == {uncle \in pool : ValidUncle(uncle, parent)}

(* "Prefer to locally generated uncle": an environment that prepareWork    *)
(* returns holds as many uncles as the pools have for it, two at most, and *)
(* as many of the local pool as that pool has for it, in whatever order Go *)
(* ranges over the pools.                                                  *)
Preferred(env) ==
    LET local  == Candidates(localUncles, env.parent)
        remote == Candidates(remoteUncles, env.parent)
    IN  /\ Cardinality(env.uncles \cap local) = Min({2, Cardinality(local)})
        /\ Cardinality(env.uncles) = Min({2, Cardinality(local \cup remote)})

PrefersLocal ==
    [][commitWork => Preferred(current')]_vars

(* The sweep of the clean ticker removes only blocks that are of no use    *)
(* any more: a block that leaves a pool is no valid uncle for a block on   *)
(* the head, nor on any block as high as the head.  staleThreshold and the *)
(* depth of makeEnv's walk are two constants of the code, and the sweep    *)
(* counts from the head while the rule counts from the sealing block.      *)
SweepKeepsCandidates ==
    [][\A uncle \in (localUncles \cup remoteUncles)
                      \ (localUncles' \cup remoteUncles') :
          \A parent \in Known :
              Number(parent) >= Number(head) => ~ValidUncle(uncle, parent)]_vars

(* The pools and w.current, counted.                                       *)
Count == INSTANCE UncleCount WITH
    uncleCands <- Cardinality(localUncles \cup remoteUncles),
    held <- IF current = Nil THEN Nil ELSE Cardinality(current.uncles)

(* The counts that module WorkerLoops steps its rounds over are all there  *)
(* is to see of the uncles from outside: a new environment of prepareWork  *)
(* has no more uncles than the pools hold blocks, two at most; w.current   *)
(* gains an uncle only with the side block that has just joined a pool,    *)
(* and never a third; the sweep of the clean ticker and the growth of the  *)
(* chain take no uncle out of w.current.                                   *)
KeepsUncleCount == Count!CountSpec

-----------------------------------------------------------------------------
(* What the specification says of the worker, and the code does not do.    *)

(* "All mutation of [...] localUncles, remoteUncles [...] happens on the   *)
(* main loop; those fields are not externally shared": no block joins or   *)
(* leaves a pool while another goroutine ranges over it.  The side block   *)
(* case and the sweep of mainLoop write the maps that prepareWork, called  *)
(* by GeneratePendingHeader, is reading: a race that the Go runtime ends   *)
(* with "concurrent map iteration and map write".                          *)
PoolsNotShared ==
    [][ranging => UNCHANGED pools]_vars

=============================================================================
