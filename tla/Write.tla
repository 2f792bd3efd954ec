-------------------------------- MODULE Write --------------------------------
(***************************************************************************)
(* ibv_pingpong_write.cpp: ping-pong with plain RDMA WRITE.  Nothing tells *)
(* the receiver that data has arrived: it polls the first and the last     *)
(* byte of its buffer, which it set to its own letter before.              *)
(***************************************************************************)
EXTENDS BenchCommon

\* The layout of the memory region, the same on both ranks.
send_buf == 0
recv_buf == max_msg_size
remote_recv_buf == max_msg_size

\* Mutant: rank 0 resets its buffer after its write, when the answer may be
\* there already.
LateResetBody(r) == IF r = 0 THEN <<"post", "poll_send", "reset", "spin", "check">>
                             ELSE <<"spin", "check", "reset", "post", "poll_send">>

\* The lambdas of the two ranks.
Body(r) == IF r = 0 THEN <<"reset", "post", "poll_send", "spin", "check">>
                    ELSE <<"spin", "check", "reset", "post", "poll_send">>

\* memset of the send buffer to value and of the receive buffer to 0
Memset(r) ==
    /\ At(r, "memset")
    /\ mem' = [mem EXCEPT ![r] = [a \in DOMAIN mem[r] |->
           IF a < recv_buf THEN [v |-> Value(r), t |-> 0] ELSE [v |-> "zero", t |-> 0]]]
    /\ Goto(r, "start")
    /\ UNCHANGED <<sq, srq, send_cq, recv_cq, lost, order, up, posted_recv_num,
                   config, bar>>

\* checkAndPostRecvs; no message of this benchmark uses a receive
Setup(r) == At(r, "setup") /\ PostRecvs(r, recv_buf, max_msg_size, Body(r)[1])

\* Mutant: only the first byte is polled.
FirstByteArrived(r) == mem[r][recv_buf].v = Value(Peer(r))

\* buf[msg_size-1] == peer_value && buf[0] == peer_value
Arrived(r) ==
    /\ mem[r][recv_buf + call[r].size - 1].v = Value(Peer(r))
    /\ mem[r][recv_buf].v = Value(Peer(r))

\* buf[0] = value; buf[msg_size - 1] = value
Reset(r) ==
    /\ At(r, "reset")
    /\ LET own == [v |-> Value(r), t |-> call[r].n]
       IN mem' = [mem EXCEPT ![r] =
              [@ EXCEPT ![recv_buf] = own, ![recv_buf + call[r].size - 1] = own]]
    /\ Proceed(r, Body(r))
    /\ UNCHANGED <<sq, srq, send_cq, recv_cq, lost, order, up, posted_recv_num,
                   config, bar>>

\* write_buffer, postWrite
PostWrite(r) ==
    /\ At(r, "post")
    /\ IF CanPost(r)
         THEN /\ write_buffer(r, send_buf, call[r].size)
              /\ postWrite(r, send_buf, call[r].size, remote_recv_buf, 0)
              /\ Proceed(r, Body(r))
              /\ UnchangedByPost
         ELSE Abort(r)

\* wait for write to complete
PollSend(r) == At(r, "poll_send") /\ AwaitSend(r, "RDMA_WRITE", Body(r))

\* wait for remote write to complete
Spin(r) ==
    /\ At(r, "spin")
    /\ Arrived(r)
    /\ Proceed(r, Body(r))
    /\ UNCHANGED <<deviceVars, config, bar>>

\* check_buffer
Check(r) == At(r, "check") /\ CheckData(r, recv_buf, call[r].size, Body(r))

\* finalize, after the closing barrier
Finalize(r) == At(r, "exit") /\ Exit(r)

RankStep(r) ==
    \/ Memset(r) \/ OpeningBarrier(r) \/ Setup(r) \/ Reset(r) \/ PostWrite(r)
    \/ PollSend(r) \/ Spin(r) \/ Check(r) \/ ClosingBarrier(r) \/ Finalize(r)

Init == BenchInit("memset", 2 * max_msg_size)

----------------------------------------------------------------------------
\* The data a rank is about to check is all there and is what its peer wrote
\* in the same call, although the receiver has seen two bytes of it at most.
FreshData ==
    \A r \in Ranks : pc[r] = "check" /\ touch_data =>
        FromCall(r, recv_buf, call[r].size, call[r].n)

\* A rank that resets its buffer does not wipe out data: no write of the peer
\* is under way while it does.
ResetIsSafe ==
    \A r \in Ranks : pc[r] = "reset" => ~ (HeadIs(Peer(r), "posted"))

\* The messages rank r has sent, and has received and checked.
Sent(r) == Times(r, Body(r), "post")
Got(r) == Times(r, Body(r), "check")
============================================================================
