------------------------------ MODULE RecvPool ------------------------------
(***************************************************************************)
(* What the receive side of a Device promises: the counter posted_recv_num *)
(* agrees with the adapter at every step, so that neither the shared       *)
(* receive queue (max_recv_num entries) nor the receive completion queue   *)
(* (max_cqe_num entries) overflows, and a sender never waits for ever for  *)
(* a receive to be posted.                                                 *)
(***************************************************************************)
EXTENDS Integers

CONSTANTS Ranks, MinRecv, MaxRecv, MaxCqe

ASSUME PoolAssumption ==
    /\ MaxRecv \in Nat /\ MaxCqe \in Nat
    /\ MinRecv \in 1 .. MaxRecv
    /\ MaxRecv < MaxCqe

VARIABLES posted,  \* posted[r]: posted_recv_num of rank r's Device
          avail,   \* avail[r]: receives in its shared receive queue
          done     \* done[r]: receive completions waiting to be polled

vars == <<posted, avail, done>>

Init ==
    /\ posted = [r \in Ranks |-> 0]
    /\ avail = [r \in Ranks |-> 0]
    /\ done = [r \in Ranks |-> 0]

\* Mutant: the pool is topped up by one buffer too many.
OverRefill(n) == IF n < MinRecv THEN MaxRecv - n + 1 ELSE 0

\* Mutant: the low-water test is off by one.
LateRefill(n) == IF n < MinRecv - 1 THEN MaxRecv - n ELSE 0

\* How many receives checkAndPostRecvs posts when n are posted.
Refill(n) == IF n < MinRecv THEN MaxRecv - n ELSE 0

\* The benchmark's first checkAndPostRecvs.
Start(r) ==
    /\ posted[r] = 0
    /\ posted' = [posted EXCEPT ![r] = Refill(0)]
    /\ avail' = [avail EXCEPT ![r] = @ + Refill(0)]
    /\ UNCHANGED done

\* The adapter uses a receive for a message that arrives.
Consume(r) ==
    /\ avail[r] > 0
    /\ avail' = [avail EXCEPT ![r] = @ - 1]
    /\ done' = [done EXCEPT ![r] = @ + 1]
    /\ UNCHANGED posted

\* Mutant: the program forgets --posted_recv_num.
UncountedTake(r) ==
    /\ done[r] > 0
    /\ done' = [done EXCEPT ![r] = @ - 1]
    /\ posted' = [posted EXCEPT ![r] = @ + Refill(@)]
    /\ avail' = [avail EXCEPT ![r] = @ + Refill(posted[r])]

\* The program takes a completion, decrements the counter and tops up.
Take(r) ==
    /\ done[r] > 0
    /\ done' = [done EXCEPT ![r] = @ - 1]
    /\ posted' = [posted EXCEPT ![r] = @ - 1 + Refill(@ - 1)]
    /\ avail' = [avail EXCEPT ![r] = @ + Refill(posted[r] - 1)]

Next == \E r \in Ranks : Start(r) \/ Consume(r) \/ Take(r)

Spec == Init /\ [][Next]_vars

----------------------------------------------------------------------------
\* The counter is exact and the pool is between its water marks.
PoolExact ==
    /\ posted \in [Ranks -> Nat]
    /\ avail \in [Ranks -> Nat]
    /\ done \in [Ranks -> Nat]
    /\ \A r \in Ranks : /\ posted[r] = avail[r] + done[r]
                        /\ posted[r] = 0 \/ posted[r] \in MinRecv .. MaxRecv

\* Neither queue overflows: ibv_post_srq_recv does not fail and the
\* completion queue is never overrun.
NoOverflow == \A r \in Ranks : avail[r] <= MaxRecv /\ done[r] < MaxCqe

\* A program that has taken all its completions has a receive posted for the
\* next message: the sender is not left in receiver-not-ready retries.
NeverStarved == \A r \in Ranks : posted[r] > 0 /\ done[r] = 0 => avail[r] > 0
============================================================================
