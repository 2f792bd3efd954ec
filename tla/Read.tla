-------------------------------- MODULE Read --------------------------------
(***************************************************************************)
(* ibv_pingpong_read.cpp: rank 0 reads rank 1's memory with RDMA READ, rank *)
(* 1 only fills its memory, says so and waits for the end.  Both use the    *)
(* whole region as send, receive and read buffer; the start and finish      *)
(* signals are SENDs of CACHE_LINE_SIZE bytes of it.                        *)
(***************************************************************************)
EXTENDS BenchCommon

CONSTANT CacheLine  \* CACHE_LINE_SIZE

mr_addr == 0

\* The code of the two ranks before rank 0's RUN_VARY_MSG, all of rank 1's.
Script(r) ==
    IF r = 0 THEN <<"setup", "wait_start", "post_read">>
             ELSE <<"setup", "fill", "post_start", "poll_start", "wait_finish", "close">>

\* Rank 0's lambda.
Body == <<"post_read", "poll_read", "check">>

\* memset of the whole region to 0
Memset(r) ==
    /\ At(r, "memset")
    /\ mem' = [mem EXCEPT ![r] = [a \in DOMAIN mem[r] |-> [v |-> "zero", t |-> 0]]]
    /\ Goto(r, "start")
    /\ UNCHANGED <<sq, srq, send_cq, recv_cq, lost, order, up, posted_recv_num,
                   config, bar>>

\* The first checkAndPostRecvs of run.
Setup(r) == At(r, "setup") /\ PostRecvs(r, mr_addr, max_msg_size, Script(r)[2])

\* A signal to the peer: one cache line of the region; what postSend returns
\* is not looked at.
PostSignal(r, from, to) ==
    /\ At(r, from)
    /\ UNCHANGED mem
    /\ IF CanPost(r) THEN postSend(r, mr_addr, CacheLine, 0) ELSE UNCHANGED sq
    /\ Goto(r, to)
    /\ UnchangedByPost

\* Rank 1: write_buffer of the whole region, tell the other to start, wait for
\* the finish signal.
FillBuffer ==
    /\ At(1, "fill")
    /\ write_buffer(1, mr_addr, max_msg_size)
    /\ Proceed(1, Script(1))
    /\ UNCHANGED <<sq, srq, send_cq, recv_cq, lost, order, up, posted_recv_num,
                   config, bar>>
PostStart == PostSignal(1, "post_start", "poll_start")
PollStart == At(1, "poll_start") /\ AwaitSend(1, "SEND", Script(1))
WaitFinish == At(1, "wait_finish") /\ AwaitRecv(1, "RECV", mr_addr, max_msg_size, Script(1))

\* Rank 0: wait for the start signal.
WaitStart == At(0, "wait_start") /\ AwaitRecv(0, "RECV", mr_addr, max_msg_size, Script(0))

\* write_buffer, postRead
PostRead ==
    /\ At(0, "post_read")
    /\ IF CanPost(0)
         THEN /\ write_buffer(0, mr_addr, call[0].size)
              /\ postRead(0, mr_addr, call[0].size, mr_addr, 0)
              /\ Proceed(0, Body)
              /\ UnchangedByPost
         ELSE Abort(0)

\* wait for read to complete
PollRead == At(0, "poll_read") /\ AwaitSend(0, "RDMA_READ", Body)

\* check_buffer
Check == At(0, "check") /\ CheckData(0, mr_addr, call[0].size, Body)

\* After RUN_VARY_MSG: tell the other to finish.
PostFinish == PostSignal(0, "close", "poll_finish")
PollFinish == At(0, "poll_finish") /\ AwaitSend(0, "SEND", <<"poll_finish", "end">>)

\* The barrier before finalize; rank 0 comes to it from "end", rank 1 from
\* "close".
EndBarrier(r) ==
    \/ At(r, IF r = 0 THEN "end" ELSE "close") /\ EnterBarrier(r, "closing")
    \/ At(r, "closing") /\ LeaveBarrier(r, "exit")

Finalize(r) == At(r, "exit") /\ Exit(r)

RankStep(r) ==
    \/ Memset(r) \/ OpeningBarrier(r) \/ Setup(r) \/ EndBarrier(r) \/ Finalize(r)
    \/ r = 0 /\ (WaitStart \/ PostRead \/ PollRead \/ Check \/ PostFinish \/ PollFinish)
    \/ r = 1 /\ (FillBuffer \/ PostStart \/ PollStart \/ WaitFinish)

Init == BenchInit("memset", max_msg_size)

----------------------------------------------------------------------------
\* Rank 1's memory does not change while a read of it is outstanding: neither
\* the signals, which land in the same region, nor rank 1 itself touch it.  A
\* lost answer makes the adapter read again, so a change in between would show.
SourceKept == sq[0] # <<>> /\ Head(sq[0]).op = "READ" => mem'[1] = mem[1]

\* What rank 0 checks was put there by the read of this very call: it is what
\* rank 1 wrote, and until the read completes rank 0's own letter is there.
FreshData ==
    touch_data =>
        /\ pc[0] = "check" => FromCall(0, mr_addr, call[0].size, 1)
        /\ pc[0] = "poll_read" /\ sq[0] # <<>> =>
               \A a \in 0 .. call[0].size - 1 :
                   mem[0][a] = [v |-> Value(0), t |-> call[0].n]
============================================================================
