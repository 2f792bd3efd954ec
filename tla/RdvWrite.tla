------------------------------ MODULE RdvWrite ------------------------------
(***************************************************************************)
(* ibv_pingpong_rdv_write.cpp: four-step rendezvous.  The sender announces *)
(* a message (RTS), the receiver answers with the address of its buffer    *)
(* (RTR), the sender writes to it and tells that it has (FIN).  Each side  *)
(* keeps a context that the other side's messages refer to.                *)
(***************************************************************************)
EXTENDS RdvCommon

\* The layout of the memory region.
rtsMsg == 0
rtrMsg == 1
finMsg == 2
control_recv_buf == 3
send_buf == 4
recv_buf == 4 + max_msg_size

\* The two halves of the lambdas.
Sender == <<"fill", "post_rts", "poll_rts", "recv_rtr", "handle_rtr", "poll_write", "poll_fin">>
Receiver == <<"recv_rts", "handle_rts", "poll_rtr", "recv_fin", "handle_fin", "check">>

\* Mutant: rank 1 announces its message while it still receives one.
OverlappingBody(r) ==
    IF r = 0 THEN Sender \o Receiver
    ELSE <<"recv_rts", "handle_rts", "poll_rtr", "fill", "post_rts", "poll_rts", "recv_fin",
           "handle_fin", "check", "recv_rtr", "handle_rtr", "poll_write", "poll_fin">>

\* The lambdas: rank 0 sends and receives, rank 1 receives and sends.
Body(r) == Halves(r, Sender, Receiver)

Setup(r) ==
    At(r, "setup") /\ PostRecvs(r, control_recv_buf, 1, Body(r)[1]) /\ UNCHANGED rdvVars

FillPayload(r) == At(r, "fill") /\ FillSendBuf(r, send_buf, Body(r))

\* postRTS
PostRTS(r) ==
    /\ At(r, "post_rts")
    /\ \E c \in Ctx :
         IF CanPost(r)
           THEN /\ Malloc(r, c, [buf |-> send_buf, size |-> call[r].size, recv_ctx |-> 0])
                /\ PostControl(r, rtsMsg, [v |-> "RTS", t |-> call[r].n, send_ctx |-> c,
                                           size |-> call[r].size], "RTS", 0)
                /\ Proceed(r, Body(r))
                /\ UNCHANGED send_cq /\ UnchangedByHandler
           ELSE RdvAbort(r)

\* The completion of a control message: RTS, RTR or FIN.
PollControl(r) ==
    /\ AtAny(r, {"poll_rts", "poll_rtr", "poll_fin"})
    /\ AwaitSend(r, "SEND", Body(r))
    /\ UNCHANGED rdvVars

\* pollRecvCQ before handleRTS, handleRTR or handleFIN
PollRecv(r) ==
    /\ AtAny(r, {"recv_rts", "recv_rtr", "recv_fin"})
    /\ TakeRecv(r, {"RECV"}, control_recv_buf, Body(r))

\* handleRTS: allocate a context, answer with its address and the buffer's.
HandleRTS(r) ==
    /\ At(r, "handle_rts")
    /\ LET m == Received(r)
       IN IF wc[r].imm = "RTS" /\ m.v = "RTS" /\ m.size <= call[r].size /\ CanPost(r)
            THEN \E c \in Ctx :
                   /\ Malloc(r, c, [buf |-> recv_buf, size |-> call[r].size])
                   /\ PostControl(r, rtrMsg,
                          [v |-> "RTR", t |-> call[r].n, send_ctx |-> m.send_ctx,
                           recv_ctx |-> c, remote_addr |-> recv_buf], "RTR", 0)
                   /\ Proceed(r, Body(r))
                   /\ UNCHANGED send_cq /\ UnchangedByHandler
            ELSE RdvAbort(r)

\* handleRTR: note the receiver's context, write the data to its buffer.
HandleRTR(r) ==
    /\ At(r, "handle_rtr")
    /\ LET m == Received(r)
       IN IF wc[r].imm = "RTR" /\ m.v = "RTR" /\ Live(r, m.send_ctx) /\ CanPost(r)
            THEN /\ UNCHANGED mem
                 /\ heap' = [heap EXCEPT ![r][m.send_ctx].recv_ctx = m.recv_ctx]
                 /\ LET ctx == heap[r][m.send_ctx]
                    IN postWrite(r, ctx.buf, ctx.size, m.remote_addr, m.send_ctx)
                 /\ Proceed(r, Body(r))
                 /\ UNCHANGED send_cq /\ UnchangedByHandler
            ELSE RdvAbort(r)

\* handleWriteCompletion, right after the completion is polled (which leaves
\* room in the send queue): free the context, send the FIN.
HandleWriteCompletion(r) ==
    /\ At(r, "poll_write")
    /\ send_cq[r] # <<>>
    /\ LET ctx == Head(send_cq[r]).wr_id
       IN IF Succeeded(Head(send_cq[r]), "RDMA_WRITE") /\ Live(r, ctx)
            THEN /\ pollSendCQ(r)
                 /\ PostControl(r, finMsg, [v |-> "FIN", t |-> call[r].n,
                                            recv_ctx |-> heap[r][ctx].recv_ctx], "FIN", 0)
                 /\ Free(r, ctx)
                 /\ Proceed(r, Body(r))
                 /\ UnchangedByHandler
            ELSE RdvAbort(r)

\* handleFIN: free the context.
HandleFIN(r) ==
    /\ At(r, "handle_fin")
    /\ LET m == Received(r)
       IN IF wc[r].imm = "FIN" /\ m.v = "FIN" /\ Live(r, m.recv_ctx)
            THEN /\ Free(r, m.recv_ctx)
                 /\ Proceed(r, Body(r))
                 /\ UNCHANGED <<mem, sq, send_cq>> /\ UnchangedByHandler
            ELSE RdvAbort(r)

Check(r) ==
    At(r, "check") /\ CheckData(r, recv_buf, call[r].size, Body(r)) /\ UNCHANGED rdvVars

\* finalize, without a barrier before it
Finalize(r) == At(r, "close") /\ Exit(r) /\ UNCHANGED rdvVars

RankStep(r) ==
    \/ Setup(r) \/ FillPayload(r) \/ PostRTS(r) \/ PollControl(r) \/ PollRecv(r)
    \/ HandleRTS(r) \/ HandleRTR(r) \/ HandleWriteCompletion(r) \/ HandleFIN(r)
    \/ Check(r) \/ Finalize(r)

Init == RdvInit(4 + 2 * max_msg_size)

----------------------------------------------------------------------------
\* All control messages arrive in the same cache line, and a receive for the
\* next one is posted before a handler looks at it: still each handler finds
\* the message it was called for, of the peer's current call.
ControlIntact ==
    \A r \in Ranks : pc[r] \in {"handle_rts", "handle_rtr", "handle_fin"} =>
        /\ Received(r).v = wc[r].imm
        /\ Received(r).t = call[r].n

\* The data a rank is about to check is what its peer wrote in the same call.
FreshData ==
    \A r \in Ranks : pc[r] = "check" /\ touch_data =>
        FromCall(r, recv_buf, call[r].size, call[r].n)

\* A context lives exactly from RTS to completion: none is left when a rank
\* begins its next call or leaves.
NoLeak == \A r \in Ranks : pc[r] \in {Body(r)[1], "exited"} => DOMAIN heap[r] = {}

\* The messages rank r has sent, and has received and checked.
Sent(r) == Times(r, Body(r), "post_rts")
Got(r) == Times(r, Body(r), "check")
============================================================================
