----------------------------- MODULE RdvWriteImm -----------------------------
(***************************************************************************)
(* ibv_pingpong_rdv_write_imm.cpp: three-step rendezvous.  The RTR carries *)
(* a short key for the receiver's context, taken from an archive; the data *)
(* comes with an RDMA WRITE WITH IMMEDIATE whose immediate is that key.    *)
(***************************************************************************)
EXTENDS RdvCommon, ArchiveKey

VARIABLE recv_ctx_archive  \* recv_ctx_archive[r][k]: entry k of rank r's archive

allVars == <<vars, rdvVars, recv_ctx_archive>>

\* The layout of the memory region.
rtsMsg == 0
rtrMsg == 1
control_recv_buf == 2
send_buf == 3
recv_buf == 3 + max_msg_size

\* The two halves of the lambdas.
Sender == <<"fill", "post_rts", "poll_rts", "recv_rtr", "handle_rtr", "poll_write">>

Receiver == <<"recv_rts", "handle_rts", "poll_rtr", "recv_write", "handle_write", "check">>

\* The lambdas: rank 0 sends and receives, rank 1 receives and sends.
Body(r) == Halves(r, Sender, Receiver)

\* The keys LCM_archive_put tries, without another thread in between.
ProbedKey(value, n) == IF n = 1 THEN HashKey(value)
                       ELSE IF n = 2 THEN NextKey(HashKey(value), 1)
                       ELSE NextKey(NextKey(HashKey(value), 1), 2)

\* The key LCM_archive_put returns for a table: the first probe that is free;
\* -1 for LCM_RETRY and when a probe leaves the table.
PutKey(table, value) ==
    LET free == {n \in 1 .. LCM_ARCHIVE_NTRY :
                    \/ ProbedKey(value, n) \notin DOMAIN table
                    \/ table[ProbedKey(value, n)] = LCM_ARCHIVE_EMPTY}
    IN IF free = {} \/ ProbedKey(value, Min(free)) \notin DOMAIN table
         THEN -1 ELSE ProbedKey(value, Min(free))

\* Mutant: the entry is not emptied.
LeaveInArchive(table, k) == table

\* The table after LCM_archive_remove
RemoveFromArchive(table, k) == [table EXCEPT ![k] = LCM_ARCHIVE_EMPTY]

ImmAbort(r) == RdvAbort(r) /\ UNCHANGED recv_ctx_archive

Setup(r) ==
    /\ At(r, "setup")
    /\ PostRecvs(r, control_recv_buf, 1, Body(r)[1])
    /\ UNCHANGED <<rdvVars, recv_ctx_archive>>

FillPayload(r) ==
    At(r, "fill") /\ FillSendBuf(r, send_buf, Body(r)) /\ UNCHANGED recv_ctx_archive

\* postRTS
PostRTS(r) ==
    /\ At(r, "post_rts")
    /\ IF CanPost(r)
         THEN \E c \in Ctx :
                /\ Malloc(r, c, [kind |-> "send", buf |-> send_buf, size |-> call[r].size])
                /\ PostControl(r, rtsMsg, [v |-> "RTS", t |-> call[r].n, send_ctx |-> c,
                                           size |-> call[r].size], "RTS", 0)
                /\ Proceed(r, Body(r))
                /\ UNCHANGED <<send_cq, recv_ctx_archive>> /\ UnchangedByHandler
         ELSE ImmAbort(r)

\* The completion of RTS or RTR, or of the write.
PollSend(r) ==
    /\ \/ AtAny(r, {"poll_rts", "poll_rtr"}) /\ AwaitSend(r, "SEND", Body(r))
       \/ At(r, "poll_write") /\ AwaitSend(r, "RDMA_WRITE", Body(r))
    /\ UNCHANGED <<rdvVars, recv_ctx_archive>>

\* pollRecvCQ before handleRTS, handleRTR or handleWriteImm; it accepts any
\* successful completion.
PollRecv(r) ==
    /\ AtAny(r, {"recv_rts", "recv_rtr", "recv_write"})
    /\ TakeRecv(r, {"RECV", "RECV_RDMA_WITH_IMM"}, control_recv_buf, Body(r))
    /\ UNCHANGED recv_ctx_archive

\* handleRTS: allocate a context, put it in the archive, answer with its key
\* and the buffer's address.
HandleRTS(r) ==
    /\ At(r, "handle_rts")
    /\ \E c \in Ctx :
         LET m == Received(r)
             k == PutKey(recv_ctx_archive[r], c)
         IN /\ ~ Live(r, c)
            /\ IF /\ wc[r].opcode = "RECV" /\ wc[r].imm = "RTS"
                  /\ m.v = "RTS" /\ m.size <= call[r].size
                  /\ k # -1 /\ CanPost(r)
                 THEN /\ Malloc(r, c, [kind |-> "recv", buf |-> recv_buf,
                                       size |-> call[r].size])
                      /\ recv_ctx_archive' = [recv_ctx_archive EXCEPT ![r][k] = c]
                      /\ PostControl(r, rtrMsg,
                             [v |-> "RTR", t |-> call[r].n, send_ctx |-> m.send_ctx,
                              remote_addr |-> recv_buf, recv_ctx_key |-> k], "RTR", 0)
                      /\ Proceed(r, Body(r))
                      /\ UNCHANGED send_cq /\ UnchangedByHandler
                 ELSE ImmAbort(r)

\* handleRTR: write the data to the receiver's buffer, free the context.
HandleRTR(r) ==
    /\ At(r, "handle_rtr")
    /\ LET m == Received(r)
       IN IF /\ wc[r].opcode = "RECV" /\ wc[r].imm = "RTR"
             /\ m.v = "RTR" /\ Live(r, m.send_ctx) /\ CanPost(r)
            THEN /\ UNCHANGED mem
                 /\ LET ctx == heap[r][m.send_ctx]
                    IN postWriteImm(r, ctx.buf, ctx.size, m.remote_addr, m.recv_ctx_key, 0)
                 /\ Free(r, m.send_ctx)
                 /\ Proceed(r, Body(r))
                 /\ UNCHANGED <<send_cq, recv_ctx_archive>> /\ UnchangedByHandler
            ELSE ImmAbort(r)

\* handleWriteImm: the immediate is the key of the context to free.
HandleWriteImm(r) ==
    /\ At(r, "handle_write")
    /\ LET k == wc[r].imm
           ctx == recv_ctx_archive[r][k]
       IN IF wc[r].opcode = "RECV_RDMA_WITH_IMM" /\ Live(r, ctx)
            THEN /\ recv_ctx_archive' =
                        [recv_ctx_archive EXCEPT ![r] = RemoveFromArchive(@, k)]
                 /\ Free(r, ctx)
                 /\ Proceed(r, Body(r))
                 /\ UNCHANGED <<mem, sq, send_cq>> /\ UnchangedByHandler
            ELSE ImmAbort(r)

Check(r) ==
    /\ At(r, "check")
    /\ CheckData(r, recv_buf, call[r].size, Body(r))
    /\ UNCHANGED <<rdvVars, recv_ctx_archive>>

\* LCM_archive_fini and finalize, without a barrier before them
Finalize(r) ==
    /\ At(r, "close")
    /\ Exit(r)
    /\ UNCHANGED <<rdvVars, recv_ctx_archive>>

RankStep(r) ==
    \/ Setup(r) \/ FillPayload(r) \/ PostRTS(r) \/ PollSend(r) \/ PollRecv(r)
    \/ HandleRTS(r) \/ HandleRTR(r) \/ HandleWriteImm(r) \/ Check(r) \/ Finalize(r)

\* LCM_archive_init
ArchiveInit ==
    recv_ctx_archive = [r \in Ranks |-> [k \in 0 .. Cap - 1 |-> LCM_ARCHIVE_EMPTY]]

Init == RdvInit(3 + 2 * max_msg_size) /\ ArchiveInit

----------------------------------------------------------------------------
\* Each handler finds in the shared cache line the message it was called for,
\* of the peer's current call; the write that follows does not touch the line.
ControlIntact ==
    \A r \in Ranks : pc[r] \in {"handle_rts", "handle_rtr"} =>
        /\ Received(r).v = wc[r].imm
        /\ Received(r).t = call[r].n

\* The data a rank is about to check is what its peer wrote in the same call.
FreshData ==
    \A r \in Ranks : pc[r] = "check" /\ touch_data =>
        FromCall(r, recv_buf, call[r].size, call[r].n)

\* The archive holds the receive contexts that are allocated and nothing else:
\* a key on its way in an RTR or in the immediate of a write refers to one,
\* and an entry is free again once its context is.
ArchiveHoldsRecvCtx ==
    \A r \in Ranks :
        {recv_ctx_archive[r][k] : k \in 0 .. Cap - 1} \ {LCM_ARCHIVE_EMPTY}
            = {c \in DOMAIN heap[r] : heap[r][c].kind = "recv"}

\* No context is left when a rank begins its next call or leaves.
NoLeak == \A r \in Ranks : pc[r] \in {Body(r)[1], "exited"} => DOMAIN heap[r] = {}

\* The messages rank r has sent, and has received and checked.
Sent(r) == Times(r, Body(r), "post_rts")
Got(r) == Times(r, Body(r), "check")
============================================================================
