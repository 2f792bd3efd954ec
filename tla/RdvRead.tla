------------------------------- MODULE RdvRead -------------------------------
(***************************************************************************)
(* ibv_pingpong_rdv_read.cpp: three-step rendezvous.  The RTS carries the  *)
(* address of the sender's buffer, the receiver reads it with RDMA READ    *)
(* and tells the sender that it may use the buffer again (FIN).            *)
(***************************************************************************)
EXTENDS RdvCommon

\* The layout of the memory region.
rtsMsg == 0
finMsg == 1
control_recv_buf == 2
send_buf == 3
recv_buf == 3 + max_msg_size

\* Mutant: the sender uses its buffer again before the FIN.
HurriedSender == <<"post_rts", "poll_rts", "fill", "recv_fin", "handle_fin">>

\* The two halves of the lambdas.
Sender == <<"fill", "post_rts", "poll_rts", "recv_fin", "handle_fin">>

Receiver == <<"recv_rts", "handle_rts", "poll_read", "poll_fin", "check">>

\* The lambdas: rank 0 sends and receives, rank 1 receives and sends.
Body(r) == Halves(r, Sender, Receiver)

Setup(r) ==
    At(r, "setup") /\ PostRecvs(r, control_recv_buf, 1, Body(r)[1]) /\ UNCHANGED rdvVars

FillPayload(r) == At(r, "fill") /\ FillSendBuf(r, send_buf, Body(r))

\* postRTS
PostRTS(r) ==
    /\ At(r, "post_rts")
    /\ IF CanPost(r)
         THEN \E c \in Ctx :
                /\ Malloc(r, c, [n |-> call[r].n])
                /\ PostControl(r, rtsMsg, [v |-> "RTS", t |-> call[r].n, send_ctx |-> c,
                                           addr |-> send_buf, size |-> call[r].size], "RTS", c)
                /\ Proceed(r, Body(r))
                /\ UNCHANGED send_cq /\ UnchangedByHandler
         ELSE RdvAbort(r)

\* The completion of RTS or FIN.
PollControl(r) ==
    /\ AtAny(r, {"poll_rts", "poll_fin"})
    /\ AwaitSend(r, "SEND", Body(r))
    /\ UNCHANGED rdvVars

\* pollRecvCQ before handleRTS or handleFIN
PollRecv(r) ==
    /\ AtAny(r, {"recv_rts", "recv_fin"})
    /\ TakeRecv(r, {"RECV"}, control_recv_buf, Body(r))

\* handleRTS: allocate a context, read the sender's buffer.
HandleRTS(r) ==
    /\ At(r, "handle_rts")
    /\ LET m == Received(r)
       IN IF wc[r].imm = "RTS" /\ m.v = "RTS" /\ m.size <= call[r].size /\ CanPost(r)
            THEN \E c \in Ctx :
                   /\ Malloc(r, c, [n |-> call[r].n, send_ctx |-> m.send_ctx])
                   /\ UNCHANGED mem
                   /\ postRead(r, recv_buf, call[r].size, m.addr, c)
                   /\ Proceed(r, Body(r))
                   /\ UNCHANGED send_cq /\ UnchangedByHandler
            ELSE RdvAbort(r)

\* handleReadCompletion, right after the completion is polled: free the
\* context, send the FIN; the caller ignores what posting it returns.
HandleReadCompletion(r) ==
    /\ At(r, "poll_read")
    /\ send_cq[r] # <<>>
    /\ LET ctx == Head(send_cq[r]).wr_id
       IN IF Succeeded(Head(send_cq[r]), "RDMA_READ") /\ Live(r, ctx)
            THEN /\ pollSendCQ(r)
                 /\ PostControl(r, finMsg, [v |-> "FIN", t |-> call[r].n,
                                            send_ctx |-> heap[r][ctx].send_ctx], "FIN", 0)
                 /\ Free(r, ctx)
                 /\ Proceed(r, Body(r))
                 /\ UnchangedByHandler
            ELSE RdvAbort(r)

\* Mutant: what the commented-out lines of handleFIN do.
ContextInMessage(r) == IF Received(r).v = "FIN" THEN Received(r).send_ctx ELSE 0

\* rtsMsg->send_ctx
ContextToFree(r) == mem[r][rtsMsg].send_ctx

\* handleFIN: free the context of the RTS that is still in the rank's own
\* message buffer; the FIN in control_recv_buf may have been overwritten.
HandleFIN(r) ==
    /\ At(r, "handle_fin")
    /\ IF wc[r].imm = "FIN" /\ Live(r, ContextToFree(r))
         THEN /\ Free(r, ContextToFree(r))
              /\ Proceed(r, Body(r))
              /\ UNCHANGED <<mem, sq, send_cq>> /\ UnchangedByHandler
         ELSE RdvAbort(r)

Check(r) ==
    At(r, "check") /\ CheckData(r, recv_buf, call[r].size, Body(r)) /\ UNCHANGED rdvVars

\* finalize, without a barrier before it
Finalize(r) == At(r, "close") /\ Exit(r) /\ UNCHANGED rdvVars

RankStep(r) ==
    \/ Setup(r) \/ FillPayload(r) \/ PostRTS(r) \/ PollControl(r) \/ PollRecv(r)
    \/ HandleRTS(r) \/ HandleReadCompletion(r) \/ HandleFIN(r) \/ Check(r) \/ Finalize(r)

Init == RdvInit(3 + 2 * max_msg_size)

----------------------------------------------------------------------------
\* handleRTS finds its message in the shared cache line (handleFIN, which does
\* not look there, may not).
ControlIntact ==
    \A r \in Ranks : pc[r] = "handle_rts" =>
        Received(r).v = "RTS" /\ Received(r).t = call[r].n

\* The context handleFIN frees is the one of the call the FIN answers.
FreesRightContext ==
    \A r \in Ranks : pc[r] = "handle_fin" =>
        Live(r, ContextToFree(r)) /\ heap[r][ContextToFree(r)].n = call[r].n

\* The sender's buffer does not change between the peer's read of it and the
\* completion of that read, a read that is repeated after a lost answer
\* included.
SourceKept ==
    \A r \in Ranks :
        (sq[Peer(r)] # <<>> /\ Head(sq[Peer(r)]).op = "READ") =>
            Load(mem'[r], send_buf, call[r].size) = Load(mem[r], send_buf, call[r].size)

\* The data a rank is about to check is what its peer wrote in the same call.
FreshData ==
    \A r \in Ranks : pc[r] = "check" /\ touch_data =>
        FromCall(r, recv_buf, call[r].size, call[r].n)

\* No context is left when a rank begins its next call or leaves.
NoLeak == \A r \in Ranks : pc[r] \in {Body(r)[1], "exited"} => DOMAIN heap[r] = {}

\* The messages rank r has sent, and has received and checked.
Sent(r) == Times(r, Body(r), "post_rts")
Got(r) == Times(r, Body(r), "check")
============================================================================
