--------------------------- MODULE RecvPoolProofs ---------------------------
(***************************************************************************)
(* The accounting of the receive buffers is right for every number of      *)
(* ranks and every admissible min_recv_num, max_recv_num and max_cqe_num.  *)
(* PoolExact is inductive; the two promises follow from it.                *)
(***************************************************************************)
EXTENDS RecvPool, TLAPS

\* After a refill the pool is between its water marks.
LEMMA RefillMarks ==
    ASSUME NEW n \in Nat, n <= MaxRecv
    PROVE  Refill(n) \in Nat /\ n + Refill(n) \in MinRecv .. MaxRecv
BY PoolAssumption DEF Refill

\* Every step of a rank or of its adapter keeps the counter exact.
LEMMA StepExact == PoolExact /\ [Next]_vars => PoolExact'
<1> SUFFICES ASSUME PoolExact, [Next]_vars  PROVE PoolExact'
  OBVIOUS
<1> USE PoolAssumption
<1>1. ASSUME NEW r \in Ranks, Start(r)  PROVE PoolExact'
  <2>1. Refill(0) \in Nat /\ 0 + Refill(0) \in MinRecv .. MaxRecv
    BY RefillMarks
  <2>2. avail[r] = 0 /\ done[r] = 0
    BY <1>1 DEF Start, PoolExact
  <2> QED  BY <1>1, <2>1, <2>2 DEF Start, PoolExact
<1>2. ASSUME NEW r \in Ranks, Consume(r)  PROVE PoolExact'
  BY <1>2 DEF Consume, PoolExact
<1>3. ASSUME NEW r \in Ranks, Take(r)  PROVE PoolExact'
  <2> DEFINE n == posted[r] - 1
  <2>1. n \in Nat /\ n <= MaxRecv
    BY <1>3 DEF Take, PoolExact
  <2>2. Refill(n) \in Nat /\ n + Refill(n) \in MinRecv .. MaxRecv
    BY <2>1, RefillMarks
  <2>3. /\ done' = [done EXCEPT ![r] = @ - 1]
        /\ posted' = [posted EXCEPT ![r] = n + Refill(n)]
        /\ avail' = [avail EXCEPT ![r] = @ + Refill(n)]
        /\ done[r] > 0
    BY <1>3 DEF Take
  <2> QED  BY <2>2, <2>3 DEF PoolExact
<1>4. CASE UNCHANGED vars
  BY <1>4 DEF vars, PoolExact
<1> QED  BY <1>1, <1>2, <1>3, <1>4 DEF Next

\* posted_recv_num always equals the receives in the queue plus the
\* completions not yet polled, and is between the water marks once started.
THEOREM CounterIsExact == Spec => []PoolExact
<1>1. Init => PoolExact
  BY PoolAssumption DEF Init, PoolExact
<1> QED  BY <1>1, StepExact, PTL DEF Spec

\* Neither the shared receive queue nor the receive completion queue is ever
\* overrun by checkAndPostRecvs.
THEOREM QueuesNeverOverflow == Spec => []NoOverflow
<1>1. ASSUME PoolExact, NEW r \in Ranks
      PROVE  avail[r] <= MaxRecv /\ done[r] < MaxCqe
  <2>1. /\ avail[r] \in Nat /\ done[r] \in Nat /\ posted[r] \in Nat
        /\ posted[r] = avail[r] + done[r]
        /\ posted[r] <= MaxRecv
    BY <1>1, PoolAssumption DEF PoolExact
  <2> QED  BY <2>1, PoolAssumption
<1>2. PoolExact => NoOverflow
  BY <1>1 DEF NoOverflow
<1> QED  BY <1>2, CounterIsExact, PTL

\* A rank that has polled all its completions has a receive for the next
\* message.
THEOREM SenderNeverStarves == Spec => []NeverStarved
<1>1. PoolExact => NeverStarved
  BY DEF PoolExact, NeverStarved
<1> QED  BY <1>1, CounterIsExact, PTL
============================================================================
