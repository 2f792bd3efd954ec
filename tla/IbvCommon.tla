------------------------------ MODULE IbvCommon ------------------------------
(***************************************************************************)
(* The Device of ibv_common.hpp after init: the operations the benchmarks  *)
(* perform on it.  The operators are conjuncts of the benchmarks' actions; *)
(* each sets the primed variables of the Device fields it assigns.         *)
(***************************************************************************)
EXTENDS Fabric

CONSTANTS MinRecv,    \* min_recv_num
          MaxCqe      \* max_cqe_num

ASSUME DeviceAssumption ==
    /\ MinRecv \in 1 .. MaxRecv
    /\ MaxCqe \in Nat /\ MaxCqe > MaxRecv

VARIABLES posted_recv_num,  \* posted_recv_num[r], a field of rank r's Device
          config            \* the options of the run, inline_size of the Device
                            \* among them (send_inline is true everywhere)

deviceVars == <<fabricVars, posted_recv_num>>

DeviceInit(mr_size) ==
    /\ FabricInit(mr_size)
    /\ posted_recv_num = [r \in Ranks |-> 0]

----------------------------------------------------------------------------
\* A signaled work request of rank r for its peer.
WorkRequest(r, op, buf, len, raddr, imm, wr_id) ==
    LET inline == op # "READ" /\ len <= config.inline_size
    IN [op |-> op, buf |-> buf, len |-> len, raddr |-> raddr, imm |-> imm,
        wr_id |-> wr_id, inline |-> inline, st |-> "posted",
        data |-> IF inline THEN Load(mem'[r], buf, len) ELSE <<>>,
        left |-> 1 .. len]

\* ibv_post_send: a send queue entry is free again once its completion has
\* been polled; on a full queue the call fails.
CanPost(r) == Len(sq[r]) + Len(send_cq[r]) < MaxSend
Post(r, w) == sq' = [sq EXCEPT ![r] = Append(@, w)]

postSend(r, buf, len, wr_id) ==
    Post(r, WorkRequest(r, "SEND", buf, len, 0, 0, wr_id))

postSendImm(r, buf, len, imm, wr_id) ==
    Post(r, WorkRequest(r, "SEND_IMM", buf, len, 0, imm, wr_id))

postWrite(r, buf, len, raddr, wr_id) ==
    Post(r, WorkRequest(r, "WRITE", buf, len, raddr, 0, wr_id))

postWriteImm(r, buf, len, raddr, imm, wr_id) ==
    Post(r, WorkRequest(r, "WRITE_IMM", buf, len, raddr, imm, wr_id))

postRead(r, buf, len, raddr, wr_id) ==
    Post(r, WorkRequest(r, "READ", buf, len, raddr, 0, wr_id))

\* pollCQ(send_cq): spins until there is a completion, takes it.
pollSendCQ(r) ==
    /\ send_cq[r] # <<>>
    /\ send_cq' = [send_cq EXCEPT ![r] = Tail(@)]

Succeeded(wc, opcode) == wc.status = "SUCCESS" /\ wc.opcode = opcode

----------------------------------------------------------------------------
\* Mutant: the low-water test is off by one, an empty pool stays empty.
LateRefill(n) == IF n < MinRecv - 1 THEN MaxRecv - n ELSE 0

\* How many receives checkAndPostRecvs posts when n are posted.
Refill(n) == IF n < MinRecv THEN MaxRecv - n ELSE 0

\* Every ibv_post_srq_recv of checkAndPostRecvs finds room in the queue.
CanPostRecvs(r, n) == Len(srq[r]) + Refill(n) <= MaxRecv

\* checkAndPostRecvs with n receives posted: postRecv up to max_recv_num.
checkAndPostRecvs(r, n, buf, len) ==
    /\ posted_recv_num' = [posted_recv_num EXCEPT ![r] = n + Refill(n)]
    /\ srq' = [srq EXCEPT ![r] =
           @ \o [k \in 1 .. Refill(n) |-> [buf |-> buf, len |-> len, wr_id |-> buf]]]

\* Every benchmark's way to take a receive completion: pollCQ(recv_cq),
\* --posted_recv_num, checkAndPostRecvs.
pollRecvCQ(r, buf, len) ==
    /\ recv_cq[r] # <<>>
    /\ recv_cq' = [recv_cq EXCEPT ![r] = Tail(@)]
    /\ checkAndPostRecvs(r, posted_recv_num[r] - 1, buf, len)

----------------------------------------------------------------------------
\* The abstract receive pool the Devices implement.
Pool == INSTANCE RecvPool WITH
            posted <- posted_recv_num,
            avail <- [r \in Ranks |-> Len(srq[r])],
            done <- [r \in Ranks |-> Len(recv_cq[r])]
============================================================================
