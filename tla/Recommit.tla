------------------------------ MODULE Recommit ------------------------------
(***************************************************************************)
(* The resubmit interval of the sealing worker (src/core/worker.go).       *)
(*                                                                         *)
(* newWorkLoop keeps two durations: minRecommit, the floor the user asked  *)
(* for, and recommit, the interval the resubmit timer is re-armed with.    *)
(* They change on three occasions: construction of the worker, an explicit *)
(* setRecommitInterval, and a feedback message from commitTransactions.    *)
(*                                                                         *)
(* Durations are integers counted in units of 1/Second seconds.  The code  *)
(* computes in float64 nanoseconds and truncates the result to an int64;   *)
(* here the result is computed exactly and truncated once, at the          *)
(* resolution Second gives.  A fill ratio, a float64 in the code, is a     *)
(* pair <<used, limit>>.                                                   *)
(***************************************************************************)
EXTENDS Integers

CONSTANTS
    Second,     \* model time units per second (a multiple of 5)
    Intervals,  \* the durations a user may configure or set
    Ratios      \* the fill ratios <<used, limit>> a feedback may carry

ASSUME /\ Second \in Nat \ {0}
       /\ Second % 5 = 0
       /\ Intervals \subseteq Nat
       /\ \A r \in Ratios : r[1] \in Nat /\ r[2] \in Nat \ {0} /\ r[1] <= r[2]

VARIABLES
    minRecommit,  \* newWorkLoop's minRecommit
    recommit      \* newWorkLoop's recommit

ivars == <<minRecommit, recommit>>

-----------------------------------------------------------------------------
minRecommitInterval == 1 * Second
maxRecommitInterval == 15 * Second
intervalAdjustBias  == Second \div 5        \* 200 ms
\* intervalAdjustRatio = 0.1 is the 9 : 1 weighting in Weighted below

AtLeast(a, b) == IF a < b THEN b ELSE a
AtMost(a, b)  == IF a > b THEN b ELSE a

(* "Sanitizing miner recommit interval": raised to the minimum, never      *)
(* lowered to the maximum.                                                 *)
Sanitize(interval) == AtLeast(interval, minRecommitInterval)

(* The ratio commitTransactions reports on a resubmit interrupt:           *)
(* (limit - remaining) / limit, raised to 0.1.                             *)
FillRatio(used, limit) ==
    IF 10 * used < limit THEN <<1, 10>> ELSE <<used, limit>>

(* prev * (1 - 0.1) + 0.1 * (target +- bias), truncated, where target is   *)
(* the rational t[1] / t[2].                                               *)
Weighted(prev, t, bias) ==
    (9 * prev * t[2] + t[1] + bias * t[2]) \div (10 * t[2])

(* A mutation of Biased: the bias is left out.                             *)
Unbiased(prev, t, inc) == Weighted(prev, t, 0)

Biased(prev, t, inc) ==
    Weighted(prev, t, IF inc THEN intervalAdjustBias ELSE -intervalAdjustBias)

(* A mutation of recalcRecommit: the decrease is not held at the floor.    *)
RecalcNoFloor(minR, prev, target, inc) ==
    IF inc THEN AtMost(Biased(prev, target, TRUE), maxRecommitInterval)
           ELSE Biased(prev, target, FALSE)

recalcRecommit(minR, prev, target, inc) ==
    IF inc THEN AtMost(Biased(prev, target, TRUE), maxRecommitInterval)
           ELSE AtLeast(Biased(prev, target, FALSE), minR)

(* The interval after a feedback message: an increase aims at              *)
(* recommit / ratio, a decrease at minRecommit.                            *)
Adjusted(minR, prev, adjust) ==
    IF adjust.inc
    THEN recalcRecommit(minR, prev,
                        <<prev * adjust.ratio[2], adjust.ratio[1]>>, TRUE)
    ELSE recalcRecommit(minR, prev, <<minR, 1>>, FALSE)

Feedbacks ==
    [ratio : {FillRatio(r[1], r[2]) : r \in Ratios}, inc : {TRUE}]
        \cup [ratio : {<<0, 1>>}, inc : {FALSE}]

-----------------------------------------------------------------------------
(* newWorker sanitizes config.Recommit and hands it to newWorkLoop, which  *)
(* starts with minRecommit = recommit.                                     *)
IntervalInit ==
    \E configured \in Intervals :
        /\ recommit = Sanitize(configured)
        /\ minRecommit = recommit

(* case interval := <-w.resubmitIntervalCh                                 *)
SetInterval(interval) ==
    /\ minRecommit' = Sanitize(interval)
    /\ recommit' = Sanitize(interval)

(* case adjust := <-w.resubmitAdjustCh                                     *)
Adjust(adjust) ==
    /\ recommit' = Adjusted(minRecommit, recommit, adjust)
    /\ UNCHANGED minRecommit

IntervalNext ==
    \/ \E interval \in Intervals : SetInterval(interval)
    \/ \E adjust \in Feedbacks : Adjust(adjust)

IntervalSpec == IntervalInit /\ [][IntervalNext]_ivars

-----------------------------------------------------------------------------
IntervalTypeOK ==
    /\ minRecommit \in {Sanitize(interval) : interval \in Intervals}
    /\ recommit \in minRecommitInterval .. AtLeast(minRecommit, maxRecommitInterval)

(* What the code keeps: recommit lies between the user's floor and the     *)
(* maximum, whichever way round the two are.  recalcRecommit clamps an     *)
(* increase to maxRecommitInterval and a decrease to minRecommit, and a    *)
(* user interval above the maximum is accepted as it is.                   *)
RecommitBetweenFloorAndMax ==
    /\ recommit >= AtMost(minRecommit, maxRecommitInterval)
    /\ recommit <= AtLeast(minRecommit, maxRecommitInterval)

(* The comment on intervalAdjustBias: the bias is there "so that the limit *)
(* can be reachable".  From every reachable interval below the maximum, an *)
(* increase feedback of any ratio really increases it, and from every      *)
(* reachable interval above the floor a decrease feedback really decreases *)
(* it, so repeated feedback of one kind arrives at the limit.              *)
FeedbackMakesProgress ==
    \A adjust \in Feedbacks :
        LET next == Adjusted(minRecommit, recommit, adjust)
        IN  /\ adjust.inc /\ recommit < maxRecommitInterval => next > recommit
            /\ ~adjust.inc /\ recommit > minRecommit => next < recommit
=============================================================================
