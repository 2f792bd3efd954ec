------------------------------ MODULE WriteImm ------------------------------
(***************************************************************************)
(* ibv_pingpong_write_imm.cpp: ping-pong with RDMA WRITE WITH IMMEDIATE.   *)
(* The data goes to an address the sender names, the posted receive only   *)
(* serves to tell the receiver.  Unlike ibv_pingpong_sendrecv.cpp the run  *)
(* ends with a barrier.                                                    *)
(***************************************************************************)
EXTENDS BenchCommon

\* The layout of the memory region, the same on both ranks.
send_buf == 0
recv_buf == max_msg_size
remote_recv_buf == max_msg_size

\* The lambdas of the two ranks.
Body(r) == IF r = 0 THEN <<"post", "poll_send", "poll_recv", "check">>
                    ELSE <<"poll_recv", "check", "post", "poll_send">>

\* The first checkAndPostRecvs of run.
Setup(r) == At(r, "setup") /\ PostRecvs(r, recv_buf, max_msg_size, Body(r)[1])

\* write_buffer, postWriteImm
PostWrite(r) ==
    /\ At(r, "post")
    /\ IF CanPost(r)
         THEN /\ write_buffer(r, send_buf, call[r].size)
              /\ postWriteImm(r, send_buf, call[r].size, remote_recv_buf, 77 + r, 0)
              /\ Proceed(r, Body(r))
              /\ UnchangedByPost
         ELSE Abort(r)

\* wait for write to complete
PollSend(r) == At(r, "poll_send") /\ AwaitSend(r, "RDMA_WRITE", Body(r))

\* wait for remote write to complete, optionally post recv buffers
PollRecv(r) ==
    At(r, "poll_recv") /\ AwaitRecv(r, "RECV_RDMA_WITH_IMM", recv_buf, max_msg_size, Body(r))

\* check_buffer
Check(r) == At(r, "check") /\ CheckData(r, recv_buf, call[r].size, Body(r))

\* Mutant: the closing barrier is left out.
FinalizeAtOnce(r) == At(r, "close") /\ Exit(r)

\* finalize, after the closing barrier
Finalize(r) == At(r, "exit") /\ Exit(r)

RankStep(r) ==
    \/ OpeningBarrier(r) \/ Setup(r) \/ PostWrite(r) \/ PollSend(r) \/ PollRecv(r)
    \/ Check(r) \/ ClosingBarrier(r) \/ Finalize(r)

Init == BenchInit("start", 2 * max_msg_size)

----------------------------------------------------------------------------
\* The data a rank is about to check is what its peer wrote in the same call:
\* check_buffer itself cannot tell one call's letter from another's, and the
\* peer could write to the buffer at any time.
FreshData ==
    \A r \in Ranks : pc[r] = "check" /\ touch_data =>
        FromCall(r, recv_buf, call[r].size, call[r].n)

\* The messages rank r has sent, and has received and checked.
Sent(r) == Times(r, Body(r), "post")
Got(r) == Times(r, Body(r), "check")
============================================================================
