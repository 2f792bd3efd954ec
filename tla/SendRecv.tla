------------------------------ MODULE SendRecv ------------------------------
(***************************************************************************)
(* ibv_pingpong_sendrecv.cpp: ping-pong with SEND and posted receives.     *)
(* A step of a rank ends where it starts to wait for its adapter; the data *)
(* check after a receive is a step of its own, because the peer's next     *)
(* message goes to the same buffer.                                        *)
(***************************************************************************)
EXTENDS BenchCommon

\* The layout of the memory region.
send_buf == 0
recv_buf == max_msg_size

\* Mutant: both ranks receive first.
WaitingBody(r) == <<"poll_recv", "check", "post", "poll_send">>

\* The lambdas of the two ranks.
Body(r) == IF r = 0 THEN <<"post", "poll_send", "poll_recv", "check">>
                    ELSE <<"poll_recv", "check", "post", "poll_send">>

\* The first checkAndPostRecvs of run.
Setup(r) == At(r, "setup") /\ PostRecvs(r, recv_buf, max_msg_size, Body(r)[1])

\* write_buffer, postSend
PostSend(r) ==
    /\ At(r, "post")
    /\ IF CanPost(r)
         THEN /\ write_buffer(r, send_buf, call[r].size)
              /\ postSend(r, send_buf, call[r].size, 0)
              /\ Proceed(r, Body(r))
              /\ UnchangedByPost
         ELSE Abort(r)

\* wait for send to complete
PollSend(r) == At(r, "poll_send") /\ AwaitSend(r, "SEND", Body(r))

\* wait for one recv to complete, optionally post recv buffers
PollRecv(r) == At(r, "poll_recv") /\ AwaitRecv(r, "RECV", recv_buf, max_msg_size, Body(r))

\* check_buffer
Check(r) == At(r, "check") /\ CheckData(r, recv_buf, call[r].size, Body(r))

\* finalize, without a barrier before it
Finalize(r) == At(r, "close") /\ Exit(r)

RankStep(r) ==
    Setup(r) \/ PostSend(r) \/ PollSend(r) \/ PollRecv(r) \/ Check(r) \/ Finalize(r)

Init == BenchInit("setup", 2 * max_msg_size)

----------------------------------------------------------------------------
\* The data a rank is about to check is what its peer wrote in the same call:
\* value is the same letter in every call, so check_buffer itself would not
\* notice the previous call's message, and the receives posted again before
\* the check share the buffer.
FreshData ==
    \A r \in Ranks : pc[r] = "check" /\ touch_data =>
        FromCall(r, recv_buf, call[r].size, call[r].n)

\* The messages rank r has sent, and has received and checked.
Sent(r) == Times(r, Body(r), "post")
Got(r) == Times(r, Body(r), "check")
============================================================================
