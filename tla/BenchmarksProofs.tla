-------------------------- MODULE BenchmarksProofs --------------------------
(***************************************************************************)
(* The seven benchmarks implement RecvPool, for every queue size, message  *)
(* size, number of iterations and number of lost acknowledgements.  The    *)
(* argument has three parts: what a step of each benchmark does to the     *)
(* pool (one lemma per benchmark), what the adapters do to it, and the     *)
(* invariant PoolInv, of which the last conjunct matters: before its first *)
(* checkAndPostRecvs a rank has nothing posted, and it never comes back    *)
(* there.  What RecvPoolProofs shows of the pool then holds of the queues. *)
(*                                                                         *)
(* Then, for ibv_pingpong_write.cpp, what the two ranks know of each other *)
(* (WInv): how many messages each has posted and has seen arrive, which of *)
(* the cells a rank polls may hold the letter of its peer, and what is     *)
(* still to arrive of a write under way.  That a rank never wipes out data *)
(* it has not seen follows from it.                                        *)
(*                                                                         *)
(* Last, the contexts and the control messages of the three rendezvous     *)
(* programs, from the lemmas of RdvProofs.                                 *)
(***************************************************************************)
EXTENDS Benchmarks, RdvProofs

\* The labels of run before its first checkAndPostRecvs has returned.
Early == {"memset", "start", "opening", "setup"}

\* What the pool is made of.
PoolVars == <<posted_recv_num, srq, recv_cq>>

\* checkAndPostRecvs with n receives posted, into any buffer.
TopUp(r, n) == \E buf, len : checkAndPostRecvs(r, n, buf, len)

\* Rank r goes on to a label after its first checkAndPostRecvs.
Moves(r) == IsFun(pc') /\ pc'[r] \notin Early /\ \A q \in Ranks \ {r} : pc'[q] = pc[q]

\* All that a step of rank r can do to the pool: nothing, the first
\* checkAndPostRecvs, or take a completion, count it and top up.
RankEffect(r) ==
    /\ \/ UNCHANGED PoolVars
       \/ pc[r] = "setup" /\ TopUp(r, posted_recv_num[r]) /\ UNCHANGED recv_cq
       \/ /\ recv_cq[r] # <<>> /\ recv_cq' = [recv_cq EXCEPT ![r] = Tail(@)]
          /\ TopUp(r, posted_recv_num[r] - 1)
    /\ IsFun(pc')
    /\ \A q \in Ranks \ {r} : pc'[q] = pc[q]
    /\ pc'[r] \in Early => pc[r] \in Early /\ UNCHANGED PoolVars

\* A step of the driver never leads back before the first message.
LEMMA ProceedEffect ==
    ASSUME NEW r \in Ranks, IsFun(pc), NEW S, S \cap Early = {},
           NEW body \in Seq(S), body # <<>>, Proceed(r, body)
    PROVE  Moves(r)
<1> DEFINE k == Position(pc[r], body)
<1>1. k \in 0 .. Len(body)
  BY DEF Position
<1>2. \E x : x \notin Early /\ pc' = [pc EXCEPT ![r] = x]
  <2>1. CASE k < Len(body)
    BY <1>1, <2>1 DEF Proceed
  <2>2. CASE ~ (k < Len(body))
    <3>1. body[1] \notin Early /\ "close" \notin Early
      BY DEF Early
    <3>2. pc' = [pc EXCEPT ![r] = IF Finished(NextCall(call[r])) THEN "close" ELSE body[1]]
      BY <2>2 DEF Proceed
    <3> QED  BY <3>1, <3>2
  <2> QED  BY <2>1, <2>2
<1> QED  BY <1>2 DEF Moves, IsFun

\* What a step of ibv_pingpong_sendrecv.cpp does to the pool.
LEMMA SendRecvEffect ==
    ASSUME NEW r \in Ranks, IsFun(pc), SR!RankStep(r)
    PROVE  RankEffect(r)
<1> USE DEF RankEffect, PoolVars, Moves, SR!At
<1>1. ASSUME NEW S, S \cap Early = {}, NEW body \in Seq(S), body # <<>>,
             SR!Proceed(r, body)
      PROVE  Moves(r)
  <2>1. Proceed(r, body)
    BY <1>1 DEF Proceed, Position, NextCall, Iterations, Finished, max_msg_size,
                SR!Proceed, SR!Position, SR!NextCall, SR!Iterations, SR!Finished,
                SR!max_msg_size
  <2> QED  BY <1>1, <2>1, ProceedEffect
<1>2. ASSUME NEW n, NEW buf, NEW len, SR!checkAndPostRecvs(r, n, buf, len)
      PROVE  TopUp(r, n)
  BY <1>2, Zenon DEF TopUp, checkAndPostRecvs, Refill, SR!checkAndPostRecvs, SR!Refill
<1>3. ASSUME NEW label, label \notin Early, SR!Goto(r, label)  PROVE Moves(r)
  BY <1>3 DEF SR!Goto, Moves, IsFun
<1>4. CASE SR!Abort(r)
  BY <1>4 DEF SR!Abort, SR!benchVars
<1> DEFINE S == {"post", "poll_send", "poll_recv", "check"}
<1>5. /\ SR!Body(r) \in Seq(S) /\ SR!Body(r) # <<>> /\ SR!Body(r)[1] \notin Early
      /\ S \cap Early = {}
  <2>1. CASE r = 0
    BY <2>1 DEF SR!Body, Early
  <2>2. CASE r # 0
    BY <2>2 DEF SR!Body, Early
  <2> QED  BY <2>1, <2>2
<1>6. CASE SR!Setup(r) /\ ~ SR!Abort(r)
  BY <1>6, <1>2, <1>3, <1>5 DEF SR!Setup, SR!PostRecvs
<1>7. CASE SR!PostSend(r) /\ ~ SR!Abort(r)
  BY <1>7, <1>1, <1>5 DEF SR!PostSend, SR!UnchangedByPost
<1>8. CASE SR!PollSend(r) /\ ~ SR!Abort(r)
  BY <1>8, <1>1, <1>5 DEF SR!PollSend, SR!AwaitSend
<1>9. CASE SR!PollRecv(r) /\ ~ SR!Abort(r)
  BY <1>9, <1>1, <1>2, <1>5 DEF SR!PollRecv, SR!AwaitRecv, SR!pollRecvCQ
<1>10. CASE SR!Check(r) /\ ~ SR!Abort(r)
  BY <1>10, <1>1, <1>5 DEF SR!Check, SR!CheckData, SR!deviceVars, SR!fabricVars
<1>11. CASE SR!Finalize(r) /\ ~ SR!Abort(r)
  BY <1>11, <1>3 DEF SR!Finalize, SR!Exit, Early
<1> QED  BY SR!RankStep(r), <1>4, <1>6, <1>7, <1>8, <1>9, <1>10, <1>11 DEF SR!RankStep

\* What a step of ibv_pingpong_write.cpp does to the pool.
LEMMA WriteEffect ==
    ASSUME NEW r \in Ranks, IsFun(pc), W!RankStep(r)
    PROVE  RankEffect(r)
<1> USE DEF RankEffect, PoolVars, Moves, W!At
<1>1. ASSUME NEW S, S \cap Early = {}, NEW body \in Seq(S), body # <<>>,
             W!Proceed(r, body)
      PROVE  Moves(r)
  <2>1. Proceed(r, body)
    BY <1>1 DEF Proceed, Position, NextCall, Iterations, Finished, max_msg_size,
                W!Proceed, W!Position, W!NextCall, W!Iterations, W!Finished,
                W!max_msg_size
  <2> QED  BY <1>1, <2>1, ProceedEffect
<1>2. ASSUME NEW n, NEW buf, NEW len, W!checkAndPostRecvs(r, n, buf, len)
      PROVE  TopUp(r, n)
  BY <1>2, Zenon DEF TopUp, checkAndPostRecvs, Refill, W!checkAndPostRecvs, W!Refill
<1>3. ASSUME NEW label, label \notin Early, W!Goto(r, label)  PROVE Moves(r)
  BY <1>3 DEF W!Goto, Moves, IsFun
<1>4. CASE W!Abort(r)
  BY <1>4 DEF W!Abort, W!benchVars
<1> DEFINE S == {"reset", "post", "poll_send", "spin", "check"}
<1>5. /\ W!Body(r) \in Seq(S) /\ W!Body(r) # <<>> /\ W!Body(r)[1] \notin Early
      /\ S \cap Early = {}
  <2>1. CASE r = 0
    BY <2>1 DEF W!Body, Early
  <2>2. CASE r # 0
    BY <2>2 DEF W!Body, Early
  <2> QED  BY <2>1, <2>2
<1>6. CASE W!Memset(r) /\ ~ W!Abort(r)
  BY <1>6 DEF W!Memset, W!Goto, Early, IsFun
<1>7. CASE W!OpeningBarrier(r) /\ ~ W!Abort(r)
  BY <1>7 DEF W!OpeningBarrier, W!Goto, Early, IsFun, W!EnterBarrier,
        W!LeaveBarrier, W!deviceVars, W!fabricVars
<1>8. CASE W!Setup(r) /\ ~ W!Abort(r)
  BY <1>8, <1>2, <1>3, <1>5 DEF W!Setup, W!PostRecvs
<1>9. CASE W!Reset(r) /\ ~ W!Abort(r)
  BY <1>9, <1>1, <1>5 DEF W!Reset
<1>10. CASE W!PostWrite(r) /\ ~ W!Abort(r)
  BY <1>10, <1>1, <1>5 DEF W!PostWrite, W!UnchangedByPost
<1>11. CASE W!PollSend(r) /\ ~ W!Abort(r)
  BY <1>11, <1>1, <1>5 DEF W!PollSend, W!AwaitSend
<1>12. CASE W!Spin(r) /\ ~ W!Abort(r)
  BY <1>12, <1>1, <1>5 DEF W!Spin, W!deviceVars, W!fabricVars
<1>13. CASE W!Check(r) /\ ~ W!Abort(r)
  BY <1>13, <1>1, <1>5 DEF W!Check, W!CheckData, W!deviceVars, W!fabricVars
<1>14. CASE W!ClosingBarrier(r) /\ ~ W!Abort(r)
  BY <1>14, <1>3 DEF W!ClosingBarrier, Early, W!EnterBarrier, W!LeaveBarrier,
        W!deviceVars, W!fabricVars
<1>15. CASE W!Finalize(r) /\ ~ W!Abort(r)
  BY <1>15, <1>3 DEF W!Finalize, W!Exit, Early
<1> QED  BY W!RankStep(r), <1>4, <1>6, <1>7, <1>8, <1>9, <1>10, <1>11,
             <1>12, <1>13, <1>14, <1>15 DEF W!RankStep

\* What a step of ibv_pingpong_write_imm.cpp does to the pool.
LEMMA WriteImmEffect ==
    ASSUME NEW r \in Ranks, IsFun(pc), WI!RankStep(r)
    PROVE  RankEffect(r)
<1> USE DEF RankEffect, PoolVars, Moves, WI!At
<1>1. ASSUME NEW S, S \cap Early = {}, NEW body \in Seq(S), body # <<>>,
             WI!Proceed(r, body)
      PROVE  Moves(r)
  <2>1. Proceed(r, body)
    BY <1>1 DEF Proceed, Position, NextCall, Iterations, Finished, max_msg_size,
                WI!Proceed, WI!Position, WI!NextCall, WI!Iterations, WI!Finished,
                WI!max_msg_size
  <2> QED  BY <1>1, <2>1, ProceedEffect
<1>2. ASSUME NEW n, NEW buf, NEW len, WI!checkAndPostRecvs(r, n, buf, len)
      PROVE  TopUp(r, n)
  BY <1>2, Zenon DEF TopUp, checkAndPostRecvs, Refill, WI!checkAndPostRecvs, WI!Refill
<1>3. ASSUME NEW label, label \notin Early, WI!Goto(r, label)  PROVE Moves(r)
  BY <1>3 DEF WI!Goto, Moves, IsFun
<1>4. CASE WI!Abort(r)
  BY <1>4 DEF WI!Abort, WI!benchVars
<1> DEFINE S == {"post", "poll_send", "poll_recv", "check"}
<1>5. /\ WI!Body(r) \in Seq(S) /\ WI!Body(r) # <<>> /\ WI!Body(r)[1] \notin Early
      /\ S \cap Early = {}
  <2>1. CASE r = 0
    BY <2>1 DEF WI!Body, Early
  <2>2. CASE r # 0
    BY <2>2 DEF WI!Body, Early
  <2> QED  BY <2>1, <2>2
<1>6. CASE WI!OpeningBarrier(r) /\ ~ WI!Abort(r)
  BY <1>6 DEF WI!OpeningBarrier, WI!Goto, Early, IsFun, WI!EnterBarrier,
        WI!LeaveBarrier, WI!deviceVars, WI!fabricVars
<1>7. CASE WI!Setup(r) /\ ~ WI!Abort(r)
  BY <1>7, <1>2, <1>3, <1>5 DEF WI!Setup, WI!PostRecvs
<1>8. CASE WI!PostWrite(r) /\ ~ WI!Abort(r)
  BY <1>8, <1>1, <1>5 DEF WI!PostWrite, WI!UnchangedByPost
<1>9. CASE WI!PollSend(r) /\ ~ WI!Abort(r)
  BY <1>9, <1>1, <1>5 DEF WI!PollSend, WI!AwaitSend
<1>10. CASE WI!PollRecv(r) /\ ~ WI!Abort(r)
  BY <1>10, <1>1, <1>2, <1>5 DEF WI!PollRecv, WI!AwaitRecv, WI!pollRecvCQ
<1>11. CASE WI!Check(r) /\ ~ WI!Abort(r)
  BY <1>11, <1>1, <1>5 DEF WI!Check, WI!CheckData, WI!deviceVars, WI!fabricVars
<1>12. CASE WI!ClosingBarrier(r) /\ ~ WI!Abort(r)
  BY <1>12, <1>3 DEF WI!ClosingBarrier, Early, WI!EnterBarrier, WI!LeaveBarrier,
        WI!deviceVars, WI!fabricVars
<1>13. CASE WI!Finalize(r) /\ ~ WI!Abort(r)
  BY <1>13, <1>3 DEF WI!Finalize, WI!Exit, Early
<1> QED  BY WI!RankStep(r), <1>4, <1>6, <1>7, <1>8, <1>9, <1>10, <1>11,
             <1>12, <1>13 DEF WI!RankStep

\* What a step of ibv_pingpong_read.cpp does to the pool.
LEMMA ReadEffect ==
    ASSUME NEW r \in Ranks, IsFun(pc), RD!RankStep(r)
    PROVE  RankEffect(r)
<1> USE DEF RankEffect, PoolVars, Moves, RD!At
<1>1. ASSUME NEW S, S \cap Early = {}, NEW body \in Seq(S), body # <<>>,
             RD!Proceed(r, body)
      PROVE  Moves(r)
  <2>1. Proceed(r, body)
    BY <1>1 DEF Proceed, Position, NextCall, Iterations, Finished, max_msg_size,
                RD!Proceed, RD!Position, RD!NextCall, RD!Iterations, RD!Finished,
                RD!max_msg_size
  <2> QED  BY <1>1, <2>1, ProceedEffect
<1>2. ASSUME NEW n, NEW buf, NEW len, RD!checkAndPostRecvs(r, n, buf, len)
      PROVE  TopUp(r, n)
  BY <1>2, Zenon DEF TopUp, checkAndPostRecvs, Refill, RD!checkAndPostRecvs, RD!Refill
<1>3. ASSUME NEW label, label \notin Early, RD!Goto(r, label)  PROVE Moves(r)
  BY <1>3 DEF RD!Goto, Moves, IsFun
<1>4. CASE RD!Abort(r)
  BY <1>4 DEF RD!Abort, RD!benchVars
<1>s. ASSUME r = 1, pc[r] \in {"fill", "poll_start", "wait_finish"},
             RD!Proceed(r, RD!Script(r))
      PROVE  Moves(r)
  <2> DEFINE s == <<"setup", "fill", "post_start", "poll_start", "wait_finish", "close">>
             k == RD!Position(pc[r], s)
  <2>1. k \in 2 .. 5
    BY <1>s DEF RD!Position
  <2>2. pc' = [pc EXCEPT ![r] = s[k + 1]] /\ s[k + 1] \notin Early
    BY <1>s, <2>1 DEF RD!Proceed, RD!Script, Early
  <2> QED  BY <2>2 DEF IsFun
<1>t. ASSUME r = 0, pc[r] = "wait_start", RD!Proceed(r, RD!Script(r))
      PROVE  Moves(r)
  <2> DEFINE s == <<"setup", "wait_start", "post_read">>
             k == RD!Position(pc[r], s)
  <2>1. k = 2
    BY <1>t DEF RD!Position
  <2>2. pc' = [pc EXCEPT ![r] = s[k + 1]] /\ s[k + 1] \notin Early
    BY <1>t, <2>1 DEF RD!Proceed, RD!Script, Early
  <2> QED  BY <2>2 DEF IsFun
<1> DEFINE S == {"post_read", "poll_read", "check", "poll_finish", "end"}
           finish == <<"poll_finish", "end">>
<1>5. /\ RD!Body \in Seq(S) /\ RD!Body # <<>> /\ finish \in Seq(S) /\ finish # <<>>
      /\ S \cap Early = {} /\ RD!Script(r)[2] \notin Early
  BY DEF RD!Body, Early, RD!Script
<1>6. CASE RD!Memset(r) /\ ~ RD!Abort(r)
  BY <1>6 DEF RD!Memset, RD!Goto, Early, IsFun
<1>7. CASE RD!OpeningBarrier(r) /\ ~ RD!Abort(r)
  BY <1>7 DEF RD!OpeningBarrier, RD!Goto, Early, IsFun, RD!EnterBarrier,
        RD!LeaveBarrier, RD!deviceVars, RD!fabricVars
<1>8. CASE RD!Setup(r) /\ ~ RD!Abort(r)
  BY <1>8, <1>2, <1>3, <1>5 DEF RD!Setup, RD!PostRecvs
<1>9. CASE RD!EndBarrier(r) /\ ~ RD!Abort(r)
  BY <1>9, <1>3 DEF RD!EndBarrier, Early, RD!EnterBarrier, RD!LeaveBarrier,
        RD!deviceVars, RD!fabricVars
<1>10. CASE RD!Finalize(r) /\ ~ RD!Abort(r)
  BY <1>10, <1>3 DEF RD!Finalize, RD!Exit, Early
<1>11. CASE (r = 0 /\ RD!WaitStart) /\ ~ RD!Abort(r)
  BY <1>11, <1>t, <1>2 DEF RD!WaitStart, RD!AwaitRecv, RD!pollRecvCQ
<1>12. CASE (r = 0 /\ RD!PostRead) /\ ~ RD!Abort(r)
  BY <1>12, <1>1, <1>5 DEF RD!PostRead, RD!UnchangedByPost
<1>13. CASE (r = 0 /\ RD!PollRead) /\ ~ RD!Abort(r)
  BY <1>13, <1>1, <1>5 DEF RD!PollRead, RD!AwaitSend
<1>14. CASE (r = 0 /\ RD!Check) /\ ~ RD!Abort(r)
  BY <1>14, <1>1, <1>5 DEF RD!Check, RD!CheckData, RD!deviceVars, RD!fabricVars
<1>15. CASE (r = 0 /\ RD!PostFinish) /\ ~ RD!Abort(r)
  BY <1>15, <1>3 DEF RD!PostFinish, RD!PostSignal, RD!UnchangedByPost, Early
<1>16. CASE (r = 0 /\ RD!PollFinish) /\ ~ RD!Abort(r)
  BY <1>16, <1>1, <1>5 DEF RD!PollFinish, RD!AwaitSend
<1>17. CASE (r = 1 /\ RD!FillBuffer) /\ ~ RD!Abort(r)
  BY <1>17, <1>s DEF RD!FillBuffer
<1>18. CASE (r = 1 /\ RD!PostStart) /\ ~ RD!Abort(r)
  BY <1>18, <1>3 DEF RD!PostStart, RD!PostSignal, RD!UnchangedByPost, Early
<1>19. CASE (r = 1 /\ RD!PollStart) /\ ~ RD!Abort(r)
  BY <1>19, <1>s DEF RD!PollStart, RD!AwaitSend
<1>20. CASE (r = 1 /\ RD!WaitFinish) /\ ~ RD!Abort(r)
  BY <1>20, <1>s, <1>2 DEF RD!WaitFinish, RD!AwaitRecv, RD!pollRecvCQ
<1> QED  BY RD!RankStep(r), <1>4, <1>6, <1>7, <1>8, <1>9, <1>10, <1>11,
             <1>12, <1>13, <1>14, <1>15, <1>16, <1>17, <1>18, <1>19, <1>20 DEF RD!RankStep

\* What a step of ibv_pingpong_rdv_write.cpp does to the pool.
LEMMA RdvWriteEffect ==
    ASSUME NEW r \in Ranks, IsFun(pc), RW!RankStep(r)
    PROVE  RankEffect(r)
<1> USE DEF RankEffect, PoolVars, Moves, RW!At
<1>1. ASSUME NEW S, S \cap Early = {}, NEW body \in Seq(S), body # <<>>,
             RW!Proceed(r, body)
      PROVE  Moves(r)
  <2>1. Proceed(r, body)
    BY <1>1 DEF Proceed, Position, NextCall, Iterations, Finished, max_msg_size,
                RW!Proceed, RW!Position, RW!NextCall, RW!Iterations, RW!Finished,
                RW!max_msg_size
  <2> QED  BY <1>1, <2>1, ProceedEffect
<1>2. ASSUME NEW n, NEW buf, NEW len, RW!checkAndPostRecvs(r, n, buf, len)
      PROVE  TopUp(r, n)
  BY <1>2, Zenon DEF TopUp, checkAndPostRecvs, Refill, RW!checkAndPostRecvs, RW!Refill
<1>3. ASSUME NEW label, label \notin Early, RW!Goto(r, label)  PROVE Moves(r)
  BY <1>3 DEF RW!Goto, Moves, IsFun
<1>4. CASE RW!Abort(r)
  BY <1>4 DEF RW!Abort, RW!benchVars
<1> DEFINE S == {"fill", "post_rts", "poll_rts", "recv_rtr", "handle_rtr",
                 "poll_write", "poll_fin", "recv_rts", "handle_rts", "poll_rtr",
                 "recv_fin", "handle_fin", "check"}
<1>5. /\ RW!Body(r) \in Seq(S) /\ RW!Body(r) # <<>> /\ RW!Body(r)[1] \notin Early
      /\ S \cap Early = {}
  <2>1. RW!Sender \in Seq(S) /\ RW!Receiver \in Seq(S)
    BY DEF RW!Sender, RW!Receiver
  <2>2. Len(RW!Sender) > 0 /\ Len(RW!Receiver) > 0
    BY DEF RW!Sender, RW!Receiver
  <2>3. RW!Body(r) \in Seq(S) /\ Len(RW!Body(r)) > 0
    BY <2>1, <2>2 DEF RW!Body, RW!Halves
  <2>4. S \cap Early = {}
    BY DEF Early
  <2> QED  BY <2>3, <2>4
<1>6. CASE RW!Setup(r) /\ ~ RW!Abort(r)
  BY <1>6, <1>2, <1>3, <1>5 DEF RW!Setup, RW!PostRecvs
<1>7. CASE RW!FillPayload(r) /\ ~ RW!Abort(r)
  BY <1>7, <1>1, <1>5 DEF RW!FillPayload, RW!FillSendBuf, RW!UnchangedByPost
<1>8. CASE RW!PostRTS(r) /\ ~ RW!Abort(r)
  BY <1>8, <1>1, <1>5 DEF RW!PostRTS, RW!UnchangedByHandler, RW!RdvAbort
<1>9. CASE RW!PollControl(r) /\ ~ RW!Abort(r)
  BY <1>9, <1>1, <1>5 DEF RW!PollControl, RW!AwaitSend
<1>10. CASE RW!PollRecv(r) /\ ~ RW!Abort(r)
  BY <1>10, <1>1, <1>2, <1>5 DEF RW!PollRecv, RW!TakeRecv, RW!pollRecvCQ,
        RW!RdvAbort
<1>11. CASE RW!HandleRTS(r) /\ ~ RW!Abort(r)
  BY <1>11, <1>1, <1>5 DEF RW!HandleRTS, RW!UnchangedByHandler, RW!RdvAbort
<1>12. CASE RW!HandleRTR(r) /\ ~ RW!Abort(r)
  BY <1>12, <1>1, <1>5 DEF RW!HandleRTR, RW!UnchangedByHandler, RW!RdvAbort
<1>13. CASE RW!HandleWriteCompletion(r) /\ ~ RW!Abort(r)
  BY <1>13, <1>1, <1>5 DEF RW!HandleWriteCompletion, RW!UnchangedByHandler,
        RW!RdvAbort
<1>14. CASE RW!HandleFIN(r) /\ ~ RW!Abort(r)
  BY <1>14, <1>1, <1>5 DEF RW!HandleFIN, RW!UnchangedByHandler, RW!RdvAbort
<1>15. CASE RW!Check(r) /\ ~ RW!Abort(r)
  BY <1>15, <1>1, <1>5 DEF RW!Check, RW!CheckData, RW!deviceVars, RW!fabricVars
<1>16. CASE RW!Finalize(r) /\ ~ RW!Abort(r)
  BY <1>16, <1>3 DEF RW!Finalize, RW!Exit, Early
<1> QED  BY RW!RankStep(r), <1>4, <1>6, <1>7, <1>8, <1>9, <1>10, <1>11,
             <1>12, <1>13, <1>14, <1>15, <1>16 DEF RW!RankStep

\* What a step of ibv_pingpong_rdv_write_imm.cpp does to the pool.
LEMMA RdvWriteImmEffect ==
    ASSUME NEW r \in Ranks, IsFun(pc), RWI!RankStep(r)
    PROVE  RankEffect(r)
<1> USE DEF RankEffect, PoolVars, Moves, RWI!At
<1>1. ASSUME NEW S, S \cap Early = {}, NEW body \in Seq(S), body # <<>>,
             RWI!Proceed(r, body)
      PROVE  Moves(r)
  <2>1. Proceed(r, body)
    BY <1>1 DEF Proceed, Position, NextCall, Iterations, Finished, max_msg_size,
                RWI!Proceed, RWI!Position, RWI!NextCall, RWI!Iterations, RWI!Finished,
                RWI!max_msg_size
  <2> QED  BY <1>1, <2>1, ProceedEffect
<1>2. ASSUME NEW n, NEW buf, NEW len, RWI!checkAndPostRecvs(r, n, buf, len)
      PROVE  TopUp(r, n)
  BY <1>2, Zenon DEF TopUp, checkAndPostRecvs, Refill, RWI!checkAndPostRecvs, RWI!Refill
<1>3. ASSUME NEW label, label \notin Early, RWI!Goto(r, label)  PROVE Moves(r)
  BY <1>3 DEF RWI!Goto, Moves, IsFun
<1>4. CASE RWI!Abort(r)
  BY <1>4 DEF RWI!Abort, RWI!benchVars
<1> DEFINE S == {"fill", "post_rts", "poll_rts", "recv_rtr", "handle_rtr",
                 "poll_write", "recv_rts", "handle_rts", "poll_rtr", "recv_write",
                 "handle_write", "check"}
<1>5. /\ RWI!Body(r) \in Seq(S) /\ RWI!Body(r) # <<>> /\ RWI!Body(r)[1] \notin Early
      /\ S \cap Early = {}
  <2>1. RWI!Sender \in Seq(S) /\ RWI!Receiver \in Seq(S)
    BY DEF RWI!Sender, RWI!Receiver
  <2>2. Len(RWI!Sender) > 0 /\ Len(RWI!Receiver) > 0
    BY DEF RWI!Sender, RWI!Receiver
  <2>3. RWI!Body(r) \in Seq(S) /\ Len(RWI!Body(r)) > 0
    BY <2>1, <2>2 DEF RWI!Body, RWI!Halves
  <2>4. S \cap Early = {}
    BY DEF Early
  <2> QED  BY <2>3, <2>4
<1>6. CASE RWI!Setup(r) /\ ~ RWI!Abort(r)
  BY <1>6, <1>2, <1>3, <1>5 DEF RWI!Setup, RWI!PostRecvs
<1>7. CASE RWI!FillPayload(r) /\ ~ RWI!Abort(r)
  BY <1>7, <1>1, <1>5 DEF RWI!FillPayload, RWI!FillSendBuf, RWI!UnchangedByPost
<1>8. CASE RWI!PostRTS(r) /\ ~ RWI!Abort(r)
  BY <1>8, <1>1, <1>5 DEF RWI!PostRTS, RWI!UnchangedByHandler, RWI!ImmAbort,
        RWI!RdvAbort
<1>9. CASE RWI!PollSend(r) /\ ~ RWI!Abort(r)
  BY <1>9, <1>1, <1>5 DEF RWI!PollSend, RWI!AwaitSend
<1>10. CASE RWI!PollRecv(r) /\ ~ RWI!Abort(r)
  BY <1>10, <1>1, <1>2, <1>5 DEF RWI!PollRecv, RWI!TakeRecv, RWI!pollRecvCQ,
        RWI!ImmAbort, RWI!RdvAbort
<1>11. CASE RWI!HandleRTS(r) /\ ~ RWI!Abort(r)
  BY <1>11, <1>1, <1>5 DEF RWI!HandleRTS, RWI!UnchangedByHandler, RWI!ImmAbort,
        RWI!RdvAbort
<1>12. CASE RWI!HandleRTR(r) /\ ~ RWI!Abort(r)
  BY <1>12, <1>1, <1>5 DEF RWI!HandleRTR, RWI!UnchangedByHandler, RWI!ImmAbort,
        RWI!RdvAbort
<1>13. CASE RWI!HandleWriteImm(r) /\ ~ RWI!Abort(r)
  BY <1>13, <1>1, <1>5 DEF RWI!HandleWriteImm, RWI!UnchangedByHandler,
        RWI!ImmAbort, RWI!RdvAbort
<1>14. CASE RWI!Check(r) /\ ~ RWI!Abort(r)
  BY <1>14, <1>1, <1>5 DEF RWI!Check, RWI!CheckData, RWI!deviceVars,
        RWI!fabricVars
<1>15. CASE RWI!Finalize(r) /\ ~ RWI!Abort(r)
  BY <1>15, <1>3 DEF RWI!Finalize, RWI!Exit, Early
<1> QED  BY RWI!RankStep(r), <1>4, <1>6, <1>7, <1>8, <1>9, <1>10, <1>11,
             <1>12, <1>13, <1>14, <1>15 DEF RWI!RankStep

\* What a step of ibv_pingpong_rdv_read.cpp does to the pool.
LEMMA RdvReadEffect ==
    ASSUME NEW r \in Ranks, IsFun(pc), RR!RankStep(r)
    PROVE  RankEffect(r)
<1> USE DEF RankEffect, PoolVars, Moves, RR!At
<1>1. ASSUME NEW S, S \cap Early = {}, NEW body \in Seq(S), body # <<>>,
             RR!Proceed(r, body)
      PROVE  Moves(r)
  <2>1. Proceed(r, body)
    BY <1>1 DEF Proceed, Position, NextCall, Iterations, Finished, max_msg_size,
                RR!Proceed, RR!Position, RR!NextCall, RR!Iterations, RR!Finished,
                RR!max_msg_size
  <2> QED  BY <1>1, <2>1, ProceedEffect
<1>2. ASSUME NEW n, NEW buf, NEW len, RR!checkAndPostRecvs(r, n, buf, len)
      PROVE  TopUp(r, n)
  BY <1>2, Zenon DEF TopUp, checkAndPostRecvs, Refill, RR!checkAndPostRecvs, RR!Refill
<1>3. ASSUME NEW label, label \notin Early, RR!Goto(r, label)  PROVE Moves(r)
  BY <1>3 DEF RR!Goto, Moves, IsFun
<1>4. CASE RR!Abort(r)
  BY <1>4 DEF RR!Abort, RR!benchVars
<1> DEFINE S == {"fill", "post_rts", "poll_rts", "recv_fin", "handle_fin",
                 "recv_rts", "handle_rts", "poll_read", "poll_fin", "check"}
<1>5. /\ RR!Body(r) \in Seq(S) /\ RR!Body(r) # <<>> /\ RR!Body(r)[1] \notin Early
      /\ S \cap Early = {}
  <2>1. RR!Sender \in Seq(S) /\ RR!Receiver \in Seq(S)
    BY DEF RR!Sender, RR!Receiver
  <2>2. Len(RR!Sender) > 0 /\ Len(RR!Receiver) > 0
    BY DEF RR!Sender, RR!Receiver
  <2>3. RR!Body(r) \in Seq(S) /\ Len(RR!Body(r)) > 0
    BY <2>1, <2>2 DEF RR!Body, RR!Halves
  <2>4. S \cap Early = {}
    BY DEF Early
  <2> QED  BY <2>3, <2>4
<1>6. CASE RR!Setup(r) /\ ~ RR!Abort(r)
  BY <1>6, <1>2, <1>3, <1>5 DEF RR!Setup, RR!PostRecvs
<1>7. CASE RR!FillPayload(r) /\ ~ RR!Abort(r)
  BY <1>7, <1>1, <1>5 DEF RR!FillPayload, RR!FillSendBuf, RR!UnchangedByPost
<1>8. CASE RR!PostRTS(r) /\ ~ RR!Abort(r)
  BY <1>8, <1>1, <1>5 DEF RR!PostRTS, RR!UnchangedByHandler, RR!RdvAbort
<1>9. CASE RR!PollControl(r) /\ ~ RR!Abort(r)
  BY <1>9, <1>1, <1>5 DEF RR!PollControl, RR!AwaitSend
<1>10. CASE RR!PollRecv(r) /\ ~ RR!Abort(r)
  BY <1>10, <1>1, <1>2, <1>5 DEF RR!PollRecv, RR!TakeRecv, RR!pollRecvCQ,
        RR!RdvAbort
<1>11. CASE RR!HandleRTS(r) /\ ~ RR!Abort(r)
  BY <1>11, <1>1, <1>5 DEF RR!HandleRTS, RR!UnchangedByHandler, RR!RdvAbort
<1>12. CASE RR!HandleReadCompletion(r) /\ ~ RR!Abort(r)
  BY <1>12, <1>1, <1>5 DEF RR!HandleReadCompletion, RR!UnchangedByHandler,
        RR!RdvAbort
<1>13. CASE RR!HandleFIN(r) /\ ~ RR!Abort(r)
  BY <1>13, <1>1, <1>5 DEF RR!HandleFIN, RR!UnchangedByHandler, RR!RdvAbort
<1>14. CASE RR!Check(r) /\ ~ RR!Abort(r)
  BY <1>14, <1>1, <1>5 DEF RR!Check, RR!CheckData, RR!deviceVars, RR!fabricVars
<1>15. CASE RR!Finalize(r) /\ ~ RR!Abort(r)
  BY <1>15, <1>3 DEF RR!Finalize, RR!Exit, Early
<1> QED  BY RR!RankStep(r), <1>4, <1>6, <1>7, <1>8, <1>9, <1>10, <1>11,
             <1>12, <1>13, <1>14, <1>15 DEF RR!RankStep

\* The queues are queues, and a rank that has not begun has nothing posted.
PoolInv ==
    /\ IsFun(pc) /\ IsFun(srq) /\ IsFun(recv_cq)
    /\ \A r \in Ranks : IsSeq(srq[r]) /\ IsSeq(recv_cq[r])
    /\ posted_recv_num \in [Ranks -> Int]
    /\ \A r \in Ranks : pc[r] \in Early => posted_recv_num[r] = 0

\* The abstract counts of the refinement.
avail == [r \in Ranks |-> Len(srq[r])]
done == [r \in Ranks |-> Len(recv_cq[r])]

\* checkAndPostRecvs adds Refill(n) to the queue and to the counter.
LEMMA TopUpMaps ==
    ASSUME PoolInv, NEW r \in Ranks, NEW n \in Int, TopUp(r, n)
    PROVE  /\ IsFun(srq') /\ \A q \in Ranks : IsSeq(srq'[q])
           /\ posted_recv_num' = [posted_recv_num EXCEPT ![r] = n + Refill(n)]
           /\ avail' = [avail EXCEPT ![r] = @ + Refill(n)]
           /\ posted_recv_num' \in [Ranks -> Int]
<1>1. PICK buf, len : checkAndPostRecvs(r, n, buf, len)
  BY DEF TopUp
<1>2. Refill(n) \in Nat
  BY DeviceAssumption, FabricAssumption DEF Refill
<1> DEFINE x == [buf |-> buf, len |-> len, wr_id |-> buf]
           t == [k \in 1 .. Refill(n) |-> x]
<1>3. srq' = [srq EXCEPT ![r] = srq[r] \o t]
  BY <1>1 DEF checkAndPostRecvs
<1>4. IsSeq(srq[r] \o t) /\ Len(srq[r] \o t) = Len(srq[r]) + Refill(n)
  BY <1>2, QueueSteps DEF PoolInv
<1>5. /\ posted_recv_num' = [posted_recv_num EXCEPT ![r] = n + Refill(n)]
      /\ posted_recv_num' \in [Ranks -> Int]
  BY <1>1, <1>2 DEF checkAndPostRecvs, PoolInv
<1> HIDE DEF t
<1>6. IsFun(srq') /\ \A q \in Ranks : IsSeq(srq'[q])
  BY <1>3, <1>4 DEF PoolInv, IsFun
<1>7. avail' = [avail EXCEPT ![r] = @ + Refill(n)]
  BY <1>3, <1>4 DEF PoolInv, IsFun, avail
<1> QED  BY <1>5, <1>6, <1>7

\* A step of a rank is Start, Take or a stutter of the pool.
LEMMA EffectMaps ==
    ASSUME PoolInv, NEW r \in Ranks, RankEffect(r)
    PROVE  PoolInv' /\ [Pool!Next]_(Pool!vars)
<1> USE DEF Pool!Next, Pool!Start, Pool!Take, Pool!vars, Pool!Refill, Refill
<1>1. CASE UNCHANGED PoolVars
  BY <1>1 DEF PoolInv, RankEffect, PoolVars, IsFun
<1>2. CASE pc[r] = "setup" /\ TopUp(r, posted_recv_num[r]) /\ UNCHANGED recv_cq
           /\ ~ UNCHANGED PoolVars
  <2>1. posted_recv_num[r] = 0
    BY <1>2 DEF PoolInv, Early
  <2>2. /\ IsFun(srq') /\ \A q \in Ranks : IsSeq(srq'[q])
        /\ posted_recv_num' = [posted_recv_num EXCEPT ![r] = 0 + Refill(0)]
        /\ avail' = [avail EXCEPT ![r] = @ + Refill(0)]
        /\ posted_recv_num' \in [Ranks -> Int]
    BY <1>2, <2>1, TopUpMaps
  <2>3. PoolInv'
    BY <1>2, <2>2 DEF PoolInv, RankEffect, IsFun
  <2>4. Pool!Start(r)
    BY <1>2, <2>1, <2>2, DeviceAssumption, FabricAssumption DEF avail
  <2> QED  BY <2>3, <2>4
<1>3. CASE /\ recv_cq[r] # <<>> /\ recv_cq' = [recv_cq EXCEPT ![r] = Tail(@)]
           /\ TopUp(r, posted_recv_num[r] - 1)
           /\ ~ UNCHANGED PoolVars
  <2> DEFINE n == posted_recv_num[r] - 1
  <2>1. n \in Int
    BY DEF PoolInv
  <2>2. /\ IsFun(srq') /\ \A q \in Ranks : IsSeq(srq'[q])
        /\ posted_recv_num' = [posted_recv_num EXCEPT ![r] = n + Refill(n)]
        /\ avail' = [avail EXCEPT ![r] = @ + Refill(n)]
        /\ posted_recv_num' \in [Ranks -> Int]
    BY <1>3, <2>1, TopUpMaps
  <2>3. IsSeq(Tail(recv_cq[r])) /\ Len(Tail(recv_cq[r])) = Len(recv_cq[r]) - 1
        /\ Len(recv_cq[r]) > 0
    BY <1>3, QueueSteps DEF PoolInv
  <2>4. PoolInv'
    BY <1>3, <2>2, <2>3 DEF PoolInv, RankEffect, IsFun
  <2>5. done' = [done EXCEPT ![r] = @ - 1] /\ done[r] > 0
    BY <1>3, <2>3 DEF done, PoolInv, IsFun
  <2>6. Pool!Take(r)
    BY <2>2, <2>5 DEF avail, done
  <2> QED  BY <2>4, <2>6
<1> QED  BY <1>1, <1>2, <1>3 DEF RankEffect

\* A message that arrives is Consume of the peer's pool.
LEMMA DeliverMaps ==
    ASSUME PoolInv, NEW r \in Ranks, Deliver(r), UNCHANGED <<posted_recv_num, pc>>
    PROVE  PoolInv' /\ [Pool!Next]_(Pool!vars)
<1> DEFINE d == Peer(r)
<1>1. d \in Ranks
  BY DEF Peer, Ranks
<1> DEFINE w == Head(sq[r])
           c == [status |-> "SUCCESS",
                 opcode |-> IF w.op = "WRITE_IMM" THEN "RECV_RDMA_WITH_IMM" ELSE "RECV",
                 imm |-> w.imm, wr_id |-> Head(srq[d]).wr_id]
<1>2. /\ srq[d] # <<>>
      /\ srq' = [srq EXCEPT ![d] = Tail(@)]
      /\ recv_cq' = [recv_cq EXCEPT ![d] = Append(@, c)]
  BY DEF Deliver
<1> HIDE DEF c, d
<1>3. /\ IsSeq(Tail(srq[d])) /\ Len(Tail(srq[d])) = Len(srq[d]) - 1 /\ Len(srq[d]) > 0
      /\ IsSeq(Append(recv_cq[d], c)) /\ Len(Append(recv_cq[d], c)) = Len(recv_cq[d]) + 1
  BY <1>1, <1>2, QueueSteps DEF PoolInv
<1>4. PoolInv'
  BY <1>1, <1>2, <1>3 DEF PoolInv, IsFun
<1>5. /\ avail' = [avail EXCEPT ![d] = @ - 1] /\ avail[d] > 0
      /\ done' = [done EXCEPT ![d] = @ + 1]
  BY <1>1, <1>2, <1>3 DEF avail, done, PoolInv, IsFun
<1>6. Pool!Consume(d)
  BY <1>5 DEF Pool!Consume, avail, done
<1> QED  BY <1>1, <1>4, <1>6 DEF Pool!Next

\* Every step of a benchmark or of an adapter is a step of the pool.
LEMMA StepMaps == PoolInv /\ [Next]_allVars => PoolInv' /\ [Pool!Next]_(Pool!vars)
<1> SUFFICES ASSUME PoolInv, [Next]_allVars
             PROVE  PoolInv' /\ [Pool!Next]_(Pool!vars)
  OBVIOUS
<1>1. CASE UNCHANGED <<posted_recv_num, srq, recv_cq, pc>>
  BY <1>1 DEF PoolInv, IsFun, Pool!vars
<1>2. ASSUME NEW r \in Ranks, RankStep(r)  PROVE PoolInv' /\ [Pool!Next]_(Pool!vars)
  <2>1. IsFun(pc)
    BY DEF PoolInv
  <2>2. RankEffect(r)
    BY <1>2, <2>1, SendRecvEffect, WriteEffect, WriteImmEffect, ReadEffect, RdvWriteEffect,
       RdvWriteImmEffect, RdvReadEffect DEF RankStep
  <2> QED  BY <2>2, EffectMaps
<1>3. ASSUME NEW r \in Ranks, AdapterWork(r)  PROVE PoolInv' /\ [Pool!Next]_(Pool!vars)
  <2>1. CASE Deliver(r)
    BY <1>3, <2>1, DeliverMaps DEF AdapterWork, AdapterStep, benchVars
  <2>2. CASE ~ Deliver(r)
    BY <1>1, <1>3, <2>2 DEF AdapterWork, AdapterStep, benchVars, Adapter, Place, Respond,
                            Ack, Retransmit, Fail
  <2> QED  BY <2>1, <2>2
<1>4. ASSUME NEW r \in Ranks, Loss(r)  PROVE PoolInv' /\ [Pool!Next]_(Pool!vars)
  BY <1>1, <1>4 DEF Loss, LossStep, LoseAck, benchVars
<1>5. CASE UNCHANGED allVars
  BY <1>1, <1>5 DEF allVars, vars, deviceVars, fabricVars, benchVars
<1> QED  BY <1>2, <1>3, <1>4, <1>5 DEF Next, Terminating

\* Every benchmark begins with empty queues.
LEMMA InitMaps == Init => PoolInv /\ Pool!Init
<1> SUFFICES ASSUME Init  PROVE PoolInv /\ Pool!Init
  OBVIOUS
<1> DEFINE Begin == /\ IsFun(pc) /\ posted_recv_num = [r \in Ranks |-> 0]
                    /\ srq = [r \in Ranks |-> <<>>] /\ recv_cq = [r \in Ranks |-> <<>>]
<1>1. SR!Init => Begin
  BY DEF SR!Init, SR!BenchInit, SR!DeviceInit, SR!FabricInit, IsFun, Ranks,
         SR!Ranks
<1>2. W!Init => Begin
  BY DEF W!Init, W!BenchInit, W!DeviceInit, W!FabricInit, IsFun, Ranks,
         W!Ranks
<1>3. WI!Init => Begin
  BY DEF WI!Init, WI!BenchInit, WI!DeviceInit, WI!FabricInit, IsFun, Ranks,
         WI!Ranks
<1>4. RD!Init => Begin
  BY DEF RD!Init, RD!BenchInit, RD!DeviceInit, RD!FabricInit, IsFun, Ranks,
         RD!Ranks
<1>5. RW!Init => Begin
  BY DEF RW!Init, RW!RdvInit, RW!BenchInit, RW!DeviceInit, RW!FabricInit, IsFun, Ranks,
         RW!Ranks
<1>6. RWI!Init => Begin
  BY DEF RWI!Init, RWI!RdvInit, RWI!BenchInit, RWI!DeviceInit, RWI!FabricInit, IsFun, Ranks,
         RWI!Ranks
<1>7. RR!Init => Begin
  BY DEF RR!Init, RR!RdvInit, RR!BenchInit, RR!DeviceInit, RR!FabricInit, IsFun, Ranks,
         RR!Ranks
<1>8. Begin
  BY <1>1, <1>2, <1>3, <1>4, <1>5, <1>6, <1>7 DEF Init
<1>9. PoolInv
  BY <1>8 DEF PoolInv, IsFun, IsSeq
<1>10. Pool!Init
  BY <1>8 DEF Pool!Init
<1> QED  BY <1>9, <1>10

\* All seven benchmarks treat their receives as RecvPool says, whatever the
\* adapters do in between: pollRecvCQ with its --posted_recv_num and
\* checkAndPostRecvs is Take, the call before the first message is Start.
THEOREM BenchmarksImplementPool == Spec => RecvPoolOK
<1>1. Init => PoolInv /\ Pool!Init
  BY InitMaps
<1>2. PoolInv /\ [Next]_allVars => PoolInv' /\ [Pool!Next]_(Pool!vars)
  BY StepMaps
<1> QED  BY <1>1, <1>2, PTL DEF Spec, RecvPoolOK, Pool!Spec

\* The theorems about the abstract pool, for the pool each rank implements.
PoolProofs == INSTANCE RecvPoolProofs WITH posted <- posted_recv_num

\* In every benchmark posted_recv_num is exact, neither the shared receive
\* queue nor the receive completion queue overflows, and a rank that has taken
\* all its completions has a receive for the next message.
THEOREM BenchmarksReceive ==
    Spec => [](Pool!PoolExact /\ Pool!NoOverflow /\ Pool!NeverStarved)
<1>1. /\ MaxRecv \in Nat /\ MaxCqe \in Nat
      /\ MinRecv \in 1 .. MaxRecv
      /\ MaxRecv < MaxCqe
  BY DeviceAssumption, FabricAssumption
<1>2. PoolProofs!Spec =>
          [](PoolProofs!PoolExact /\ PoolProofs!NoOverflow /\ PoolProofs!NeverStarved)
  BY <1>1, PoolProofs!CounterIsExact, PoolProofs!QueuesNeverOverflow,
     PoolProofs!SenderNeverStarves, PTL
<1>3. Pool!Spec => [](Pool!PoolExact /\ Pool!NoOverflow /\ Pool!NeverStarved)
  BY <1>2, PTL
         DEF Pool!Spec, Pool!Init, Pool!Next, Pool!Start, Pool!Consume, Pool!Take,
             Pool!vars, Pool!Refill, Pool!PoolExact, Pool!NoOverflow,
             Pool!NeverStarved, PoolProofs!Spec, PoolProofs!Init,
             PoolProofs!Next, PoolProofs!Start, PoolProofs!Consume,
             PoolProofs!Take, PoolProofs!vars, PoolProofs!Refill,
             PoolProofs!PoolExact, PoolProofs!NoOverflow,
             PoolProofs!NeverStarved, avail, done
<1> QED  BY <1>3, BenchmarksImplementPool, PTL DEF RecvPoolOK

\* Every ibv_post_srq_recv of checkAndPostRecvs succeeds: the first call of run
\* and the one after each completion find room in the queue.
PostRecvsFit ==
    \A r \in Ranks :
        /\ pc[r] = "setup" => CanPostRecvs(r, posted_recv_num[r])
        /\ recv_cq[r] # <<>> => CanPostRecvs(r, posted_recv_num[r] - 1)

\* No benchmark aborts because the receive queue is full.
THEOREM PostRecvsNeverFail == Spec => []PostRecvsFit
<1>1. PoolInv /\ Pool!PoolExact => PostRecvsFit
  <2> SUFFICES ASSUME PoolInv, Pool!PoolExact, NEW r \in Ranks
               PROVE  /\ pc[r] = "setup" => CanPostRecvs(r, posted_recv_num[r])
                      /\ recv_cq[r] # <<>> => CanPostRecvs(r, posted_recv_num[r] - 1)
    BY DEF PostRecvsFit
  <2> DEFINE n == posted_recv_num[r]
             a == Len(srq[r])
             d == Len(recv_cq[r])
  <2>1. /\ n \in Nat /\ n = a + d /\ a \in Nat /\ d \in Nat
        /\ n = 0 \/ n \in MinRecv .. MaxRecv
    BY DEF Pool!PoolExact
  <2>2. recv_cq[r] # <<>> => d > 0
    BY QueueSteps DEF PoolInv
  <2>3. CanPostRecvs(r, n) <=> a + Refill(n) <= MaxRecv
    BY DEF CanPostRecvs
  <2>4. CanPostRecvs(r, n - 1) <=> a + Refill(n - 1) <= MaxRecv
    BY DEF CanPostRecvs
  <2> HIDE DEF n, a, d
  <2>5. CanPostRecvs(r, n) /\ (d > 0 => CanPostRecvs(r, n - 1))
    BY <2>1, <2>3, <2>4, DeviceAssumption, FabricAssumption DEF Refill
  <2> QED  BY <2>2, <2>5 DEF n
<1>2. Spec => []PoolInv
  BY InitMaps, StepMaps, PTL DEF Spec
<1> QED  BY <1>1, <1>2, BenchmarksReceive, PTL

----------------------------------------------------------------------------
\* ibv_pingpong_write.cpp.

\* The labels after the last call, and all labels, of ibv_pingpong_write.cpp.
WOver == {"close", "closing", "exit", "exited"}
WLabels == {"memset", "start", "opening", "setup", "reset", "post", "poll_send", "spin",
            "check", "close", "closing", "exit", "exited"}

\* The memory region of rank r has n cells.
HasCells(r, n) == mem[r] = [a \in 0 .. n - 1 |-> mem[r][a]]

\* What the state of ibv_pingpong_write.cpp is made of.
WTypes ==
    /\ max_msg_size \in Nat /\ order \in {"ascending", "descending"}
    /\ pc \in [Ranks -> WLabels] /\ call \in [Ranks -> Calls]
    /\ IsFun(mem) /\ IsFun(sq) /\ IsFun(send_cq)
    /\ \A r \in Ranks : /\ HasCells(r, 2 * max_msg_size)
                        /\ pc[r] \notin WOver => call[r].size <= max_msg_size

\* The messages rank r has posted, and has seen arrive.
WSent(r) ==
    call[r].n - 1 + (IF pc[r] \in (IF r = 0 THEN {"poll_send", "spin", "check"}
                                            ELSE {"poll_send"}) THEN 1 ELSE 0)
WSeen(r) ==
    call[r].n - 1 + (IF pc[r] \in (IF r = 0 THEN {"check"}
                                   ELSE {"check", "reset", "post", "poll_send"})
                       THEN 1 ELSE 0)

\* No rank sees a message that was not posted.
WOrder == WSeen(0) <= WSent(1) /\ WSeen(1) <= WSent(0)

\* The write of rank r's current call; while it is under way the cells that
\* have not arrived are the last ones, or the first ones.
WWrite(r, w) ==
    /\ IsRequest(w)
    /\ w.op = "WRITE" /\ w.raddr = max_msg_size /\ w.len = call[r].size
    /\ w.st = "posted" =>
           \E j \in 1 .. w.len :
               w.left = IF order = "ascending" THEN j .. w.len ELSE 1 .. j

\* A rank has a request outstanding, or its completion, only where it waits for it.
WOutstanding(r) ==
    IF pc[r] = "poll_send"
      THEN \/ sq[r] = <<>> /\ \E c : send_cq[r] = <<c>>
           \/ send_cq[r] = <<>> /\ \E w : sq[r] = <<w>> /\ WWrite(r, w)
      ELSE sq[r] = <<>> /\ send_cq[r] = <<>>

\* Cell a of rank r's memory does not hold the letter of its peer.
Blank(r, a) == mem[r][a].v # Value(Peer(r))

\* Rank r has set its own letter since it last saw a message.
Armed(r) == pc[r] \notin {"check", "reset"} \cup WOver

\* What the receive buffer of rank r shows of the messages of its peer.
WBuffer(r) ==
    LET q == Peer(r)
    IN \* cells no message has reached
       /\ \A a \in max_msg_size + call[q].size .. 2 * max_msg_size - 1 : Blank(r, a)
       \* nothing to be seen: the two cells Arrived looks at say so, now and
       \* for the next message size
       /\ Armed(r) /\ WSent(q) = WSeen(r) =>
              /\ Blank(r, max_msg_size)
              /\ \A a \in max_msg_size + call[r].size - 1 .. 2 * max_msg_size - 1 : Blank(r, a)
       \* a message under way: the same of the cells that have not arrived
       /\ Armed(r) /\ HeadIs(q, "posted") =>
              LET w == Head(sq[q])
              IN /\ 1 \in w.left => Blank(r, max_msg_size)
                 /\ w.len \in w.left => Blank(r, max_msg_size + w.len - 1)
       \* a message that was seen has arrived
       /\ WSent(q) = WSeen(r) => ~ HeadIs(q, "posted")

\* The inductive invariant of ibv_pingpong_write.cpp.
WInv ==
    /\ WTypes /\ WOrder /\ SameCalls
    /\ \A r \in Ranks : WOutstanding(r)
    /\ \A r \in Ranks : WBuffer(r)

\* The label after l in rank r's lambda of ibv_pingpong_write.cpp.
WAfter(r, l) ==
    IF l = "reset" THEN "post"
    ELSE IF l = "post" THEN "poll_send"
    ELSE IF l = "poll_send" THEN "spin"
    ELSE IF l = "spin" THEN "check" ELSE "reset"

\* The label at which a lambda ends.
WLast(r) == IF r = 0 THEN "check" ELSE "poll_send"

\* The labels of the lambda.
WLambda == {"reset", "post", "poll_send", "spin", "check"}

\* Where run goes after each statement of the lambda.
LEMMA WProceeds ==
    ASSUME NEW r \in Ranks, pc[r] \in WLambda, W!Proceed(r, W!Body(r))
    PROVE  IF pc[r] = WLast(r) THEN EndCall(r, IF r = 0 THEN "reset" ELSE "spin")
                               ELSE Advance(r, WAfter(r, pc[r]))
<1> DEFINE k == W!Position(pc[r], W!Body(r))
<1>n. W!NextCall(call[r]) = NextCall(call[r]) /\ W!Finished(NextCall(call[r])) = Finished(NextCall(call[r]))
  BY DEF W!NextCall, NextCall, W!Iterations, Iterations, W!Finished, Finished, W!max_msg_size,
         max_msg_size
<1>1. CASE r = 0
  <2> DEFINE b == <<"reset", "post", "poll_send", "spin", "check">>
  <2>1. W!Body(r) = b
    BY <1>1 DEF W!Body
  <2>2. k \in 1 .. 5 /\ b[k] = pc[r]
    BY <2>1 DEF WLambda, W!Position
  <2>3. /\ k < 5 => pc' = [pc EXCEPT ![r] = b[k + 1]] /\ UNCHANGED call
        /\ ~ (k < 5) => /\ pc' = [pc EXCEPT ![r] = IF Finished(NextCall(call[r])) THEN "close"
                                                 ELSE b[1]]
                        /\ call' = [call EXCEPT ![r] = NextCall(call[r])]
    BY <2>1, <2>2, <1>n DEF W!Proceed
  <2> HIDE DEF k
  <2> QED  BY <1>1, <2>2, <2>3 DEF WLast, WAfter, Advance, EndCall
<1>2. CASE r = 1
  <2> DEFINE b == <<"spin", "check", "reset", "post", "poll_send">>
  <2>1. W!Body(r) = b
    BY <1>2 DEF W!Body
  <2>2. k \in 1 .. 5 /\ b[k] = pc[r]
    BY <2>1 DEF WLambda, W!Position
  <2>3. /\ k < 5 => pc' = [pc EXCEPT ![r] = b[k + 1]] /\ UNCHANGED call
        /\ ~ (k < 5) => /\ pc' = [pc EXCEPT ![r] = IF Finished(NextCall(call[r])) THEN "close"
                                                 ELSE b[1]]
                        /\ call' = [call EXCEPT ![r] = NextCall(call[r])]
    BY <2>1, <2>2, <1>n DEF W!Proceed
  <2> HIDE DEF k
  <2> QED  BY <1>2, <2>2, <2>3 DEF WLast, WAfter, Advance, EndCall
<1> QED  BY <1>1, <1>2 DEF Ranks

\* The steps of rank r outside its lambda.
WOutside(r) ==
    {<<"memset", "start">>, <<"start", "opening">>, <<"opening", "setup">>,
     <<"setup", IF r = 0 THEN "reset" ELSE "spin">>, <<"close", "closing">>,
     <<"closing", "exit">>, <<"exit", "exited">>}

\* Rank r goes on, in the lambda or outside it.
WGoes(r) ==
    \/ /\ pc[r] \in WLambda
       /\ IF pc[r] = WLast(r) THEN EndCall(r, IF r = 0 THEN "reset" ELSE "spin")
                              ELSE Advance(r, WAfter(r, pc[r]))
    \/ \E x : <<pc[r], x>> \in WOutside(r) /\ Advance(r, x)

\* What the counts say where a rank resets, posts or sees a message.
LEMMA WCounts ==
    ASSUME WTypes, WOrder, SameCalls, NEW r \in Ranks
    PROVE  LET q == Peer(r)
           IN /\ WSent(r) \in Int /\ WSeen(r) \in Int
              /\ call[q].n <= call[r].n + 1
              /\ pc[r] = "reset" => WSent(q) = WSeen(r)
              /\ pc[r] = "post" => WSent(r) = WSeen(q) /\ call[q].size <= call[r].size
              /\ pc[r] = "reset" => call[q].size <= call[r].size
              /\ pc[r] = "spin" => WSeen(r) <= WSent(q) /\ WSent(q) <= WSeen(r) + 1
              /\ pc[r] = "spin" /\ WSent(q) = WSeen(r) + 1 /\ pc[q] = "poll_send" =>
                     call[q] = call[r]
<1> DEFINE n0 == call[0].n
           n1 == call[1].n
<1>1. n0 \in Nat \ {0} /\ n1 \in Nat \ {0}
  BY DEF WTypes, Calls, Ranks
<1>2. /\ WSent(0) = n0 - 1 + (IF pc[0] \in {"poll_send", "spin", "check"} THEN 1 ELSE 0)
      /\ WSeen(0) = n0 - 1 + (IF pc[0] \in {"check"} THEN 1 ELSE 0)
      /\ WSent(1) = n1 - 1 + (IF pc[1] \in {"poll_send"} THEN 1 ELSE 0)
      /\ WSeen(1) = n1 - 1 + (IF pc[1] \in {"check", "reset", "post", "poll_send"} THEN 1 ELSE 0)
  BY DEF WSent, WSeen
<1>3. WSeen(0) <= WSent(1) /\ WSeen(1) <= WSent(0)
  BY DEF WOrder
<1>4. /\ n0 <= n1 + 1 /\ n1 <= n0 + 1
      /\ pc[0] = "reset" => WSent(1) = WSeen(0) /\ n1 <= n0
      /\ pc[1] = "reset" => WSent(0) = WSeen(1) /\ n1 = n0
      /\ pc[0] = "spin" => WSeen(0) <= WSent(1) /\ WSent(1) <= WSeen(0) + 1
      /\ pc[1] = "spin" => WSeen(1) <= WSent(0) /\ WSent(0) <= WSeen(1) + 1
      /\ pc[0] = "post" => WSent(0) = WSeen(1) /\ n1 <= n0
      /\ pc[1] = "post" => WSent(1) = WSeen(0) /\ n0 = n1
      /\ pc[0] = "spin" /\ WSent(1) = WSeen(0) + 1 /\ pc[1] = "poll_send" => n0 = n1
      /\ pc[1] = "spin" /\ WSent(0) = WSeen(1) + 1 /\ pc[0] = "poll_send" => n0 = n1
  <2> HIDE DEF n0, n1
  <2> QED  BY <1>1, <1>2, <1>3
<1>5. /\ call[0] \in Calls /\ call[1] \in Calls
      /\ n0 = n1 => call[0] = call[1]
      /\ n0 = n1 + 1 => call[0] = NextCall(call[1])
  BY DEF SameCalls, WTypes, Ranks, Peer
<1>6. n1 <= n0 => call[1].size <= call[0].size
  <2>1. n1 <= n0 => n0 = n1 \/ n0 = n1 + 1
    <3> HIDE DEF n0, n1
    <3> QED  BY <1>1, <1>4
  <2>2. call[0].size \in Nat /\ call[1].size \in Nat
    BY <1>5 DEF Calls
  <2>3. n0 = n1 + 1 => call[0].size >= call[1].size
    BY <1>5, NextCallGrows, BenchAssumption
  <2> QED  BY <2>1, <2>2, <2>3, <1>5
<1>7. n0 = n1 => call[0].size <= call[1].size
  BY <1>5 DEF Calls
<1>8. WSent(0) \in Int /\ WSeen(0) \in Int /\ WSent(1) \in Int /\ WSeen(1) \in Int
  BY <1>1, <1>2
<1>9. CASE r = 0
  BY <1>9, <1>4, <1>5, <1>6, <1>8 DEF Peer
<1>10. CASE r = 1
  BY <1>10, <1>4, <1>5, <1>6, <1>7, <1>8 DEF Peer
<1> QED  BY <1>9, <1>10 DEF Ranks

\* What a step of the driver does to the counts.
LEMMA WGoesOn ==
    ASSUME WTypes, WOrder, SameCalls, NEW r \in Ranks, WGoes(r), UNCHANGED config
    PROVE  LET q == Peer(r)
           IN /\ pc' \in [Ranks -> WLabels] /\ call' \in [Ranks -> Calls]
              /\ pc'[q] = pc[q] /\ call'[q] = call[q]
              /\ WSent(q)' = WSent(q) /\ WSeen(q)' = WSeen(q)
              /\ WSent(r)' = WSent(r) + (IF pc[r] = "post" THEN 1 ELSE 0)
              /\ WSeen(r)' = WSeen(r) + (IF pc[r] = "spin" THEN 1 ELSE 0)
              /\ pc'[r] \notin WOver => call'[r].size <= max_msg_size
              /\ call'[r].size >= call[r].size
              /\ SameCalls'
              /\ pc[r] \notin {"post", "spin"} => WOrder'
              /\ Armed(r)' => Armed(r) \/ pc[r] = "reset"
              /\ pc'[r] = "poll_send" <=> pc[r] = "post"
              /\ pc[r] # WLast(r) => call' = call
<1> DEFINE q == Peer(r)
<1>q. q \in Ranks /\ q # r /\ Peer(q) = r
  BY PeerFacts
<1>1. PICK x \in WLabels : pc' = [pc EXCEPT ![r] = x]
  BY DEF WGoes, WLast, WAfter, Advance, EndCall, WLambda, WLabels, WOutside, WTypes
<1>2. pc' \in [Ranks -> WLabels] /\ pc'[q] = pc[q] /\ pc'[r] = x /\ pc[r] \in WLabels /\ pc[q] \in WLabels
  BY <1>1, <1>q DEF WTypes
<1>3. /\ call[r] \in Calls /\ call[q] \in Calls /\ NextCall(call[r]) \in Calls
      /\ NextCall(call[r]).n = call[r].n + 1
      /\ NextCall(call[r]).size >= call[r].size
  BY <1>q, NextCallGrows, BenchAssumption DEF WTypes
<1> HIDE DEF q
<1>4. ASSUME call' = call, pc[r] # WLast(r),
             \/ pc[r] \in WLambda /\ x = WAfter(r, pc[r])
             \/ <<pc[r], x>> \in WOutside(r)
      PROVE  /\ WSent(r)' = WSent(r) + (IF pc[r] = "post" THEN 1 ELSE 0)
             /\ WSeen(r)' = WSeen(r) + (IF pc[r] = "spin" THEN 1 ELSE 0)
             /\ x \notin WOver => call'[r].size <= max_msg_size
             /\ Armed(r)' => Armed(r) \/ pc[r] = "reset"
             /\ x = "poll_send" <=> pc[r] = "post"
  <2>1. call[r].n \in Nat /\ call'[r].n = call[r].n
    BY <1>3, <1>4 DEF Calls
  <2>2. x \notin WOver => pc[r] \notin WOver
    BY <1>4 DEF WLambda, WAfter, WOutside, WOver
  <2>3. x \notin WOver => call'[r].size <= max_msg_size
    BY <1>4, <2>2 DEF WTypes
  <2>4. /\ Armed(r)' => Armed(r) \/ pc[r] = "reset"
        /\ x = "poll_send" <=> pc[r] = "post"
    BY <1>2, <1>4 DEF Armed, WLambda, WAfter, WOutside, WOver
  <2>5. CASE r = 0
    BY <1>2, <1>4, <2>1, <2>3, <2>4, <2>5 DEF WSent, WSeen, WLast, WLambda, WAfter, WOutside
  <2>6. CASE r = 1
    BY <1>2, <1>4, <2>1, <2>3, <2>4, <2>6 DEF WSent, WSeen, WLast, WLambda, WAfter, WOutside
  <2> QED  BY <2>5, <2>6 DEF Ranks
<1>5. ASSUME call' = [call EXCEPT ![r] = NextCall(call[r])], pc[r] = WLast(r),
             x = IF Finished(NextCall(call[r])) THEN "close" ELSE IF r = 0 THEN "reset" ELSE "spin"
      PROVE  /\ WSent(r)' = WSent(r) + (IF pc[r] = "post" THEN 1 ELSE 0)
             /\ WSeen(r)' = WSeen(r) + (IF pc[r] = "spin" THEN 1 ELSE 0)
             /\ x \notin WOver => call'[r].size <= max_msg_size
             /\ Armed(r)' => Armed(r) \/ pc[r] = "reset"
             /\ x = "poll_send" <=> pc[r] = "post"
  <2>1. /\ call[r].n \in Nat /\ call'[r] = NextCall(call[r]) /\ call'[r].n = call[r].n + 1
        /\ call'[r].size \in Nat
    BY <1>3, <1>5 DEF Calls, WTypes
  <2>2. x \notin WOver => call'[r].size <= max_msg_size
    BY <1>5, <2>1 DEF WOver, Finished, WTypes
  <2>3. /\ Armed(r)' => Armed(r) \/ pc[r] = "reset"
        /\ x = "poll_send" <=> pc[r] = "post"
    BY <1>2, <1>5 DEF Armed, WLast, WOver
  <2>4. CASE r = 0
    BY <1>2, <1>5, <2>1, <2>2, <2>3, <2>4 DEF WSent, WSeen, WLast
  <2>5. CASE r = 1
    BY <1>2, <1>5, <2>1, <2>2, <2>3, <2>5 DEF WSent, WSeen, WLast
  <2> QED  BY <2>4, <2>5 DEF Ranks
<1>6. \/ /\ call' = call /\ pc[r] # WLast(r)
         /\ \/ pc[r] \in WLambda /\ x = WAfter(r, pc[r])
            \/ <<pc[r], x>> \in WOutside(r)
      \/ /\ call' = [call EXCEPT ![r] = NextCall(call[r])] /\ pc[r] = WLast(r)
         /\ x = IF Finished(NextCall(call[r])) THEN "close" ELSE IF r = 0 THEN "reset" ELSE "spin"
  <2>1. CASE pc[r] \in WLambda
    <3>1. \A y : <<pc[r], y>> \notin WOutside(r)
      BY <2>1 DEF WLambda, WOutside
    <3>2. CASE pc[r] = WLast(r)
      BY <1>2, <2>1, <3>1, <3>2 DEF WGoes, EndCall
    <3>3. CASE pc[r] # WLast(r)
      BY <1>2, <2>1, <3>1, <3>3 DEF WGoes, Advance, WTypes
    <3> QED  BY <3>2, <3>3
  <2>2. CASE pc[r] \notin WLambda
    <3>1. PICK y : <<pc[r], y>> \in WOutside(r) /\ Advance(r, y)
      BY <2>2 DEF WGoes
    <3>2. y = x
      BY <1>2, <3>1 DEF Advance, WTypes
    <3> QED  BY <2>2, <3>1, <3>2 DEF Advance, WLambda, WLast
  <2> QED  BY <2>1, <2>2
<1>7. /\ WSent(r)' = WSent(r) + (IF pc[r] = "post" THEN 1 ELSE 0)
      /\ WSeen(r)' = WSeen(r) + (IF pc[r] = "spin" THEN 1 ELSE 0)
      /\ x \notin WOver => call'[r].size <= max_msg_size
      /\ Armed(r)' => Armed(r) \/ pc[r] = "reset"
      /\ x = "poll_send" <=> pc[r] = "post"
  BY <1>4, <1>5, <1>6
<1>8. /\ call' \in [Ranks -> Calls] /\ call'[q] = call[q]
      /\ call'[r] = call[r] \/ call'[r] = NextCall(call[r])
  BY <1>3, <1>6, <1>q DEF WTypes
<1>9. WSent(q)' = WSent(q) /\ WSeen(q)' = WSeen(q)
  BY <1>2, <1>8 DEF WSent, WSeen
<1>10. call'[r].size >= call[r].size
  BY <1>3, <1>8 DEF Calls
<1>11. SameCalls'
  <2>1. /\ call[q].n <= call[r].n + 1
        /\ call[r].n \in Nat /\ call[q].n \in Nat
        /\ call[r].n = call[q].n => call[r] = call[q]
        /\ call[r].n = call[q].n + 1 => call[r] = NextCall(call[q])
        /\ call[q].n = call[r].n + 1 => call[q] = NextCall(call[r])
    BY <1>q, <1>3, WCounts DEF SameCalls, Calls, q
  <2>2. /\ call'[r].n = call'[q].n => call'[r] = call'[q]
        /\ call'[r].n = call'[q].n + 1 => call'[r] = NextCall(call'[q])
        /\ call'[q].n = call'[r].n + 1 => call'[q] = NextCall(call'[r])
    <3>1. CASE call'[r] = call[r]
      BY <3>1, <2>1, <1>8
    <3>2. CASE call'[r] = NextCall(call[r])
      BY <3>2, <2>1, <1>3, <1>8
    <3> QED  BY <3>1, <3>2, <1>8
  <2>3. Ranks = {r, q}
    BY DEF Ranks, q, Peer
  <2>4. \A p \in Ranks :
          /\ call'[p].n = call'[Peer(p)].n => call'[p] = call'[Peer(p)]
          /\ call'[p].n = call'[Peer(p)].n + 1 => call'[p] = NextCall(call'[Peer(p)])
    BY <2>2, <2>3, <1>q DEF q
  <2> QED  BY <2>4 DEF SameCalls
<1>12. pc[r] \notin {"post", "spin"} => WOrder'
  <2>1. WSent(0) \in Int /\ WSeen(0) \in Int /\ WSent(1) \in Int /\ WSeen(1) \in Int
    BY WCounts DEF Ranks
  <2>2. CASE r = 0
    BY <2>1, <2>2, <1>7, <1>9 DEF WOrder, q, Peer
  <2>3. CASE r = 1
    BY <2>1, <2>3, <1>7, <1>9 DEF WOrder, q, Peer
  <2> QED  BY <2>2, <2>3 DEF Ranks
<1>13. pc[r] # WLast(r) => call' = call
  BY <1>6
<1> QED  BY <1>2, <1>7, <1>8, <1>9, <1>10, <1>11, <1>12, <1>13 DEF q

\* A step of rank r, whose part of memory only gets blanker, keeps the buffers
\* in order.
LEMMA WBuffersKept ==
    ASSUME WInv, NEW r \in Ranks, WGoes(r), UNCHANGED <<config, order>>,
           \A a \in max_msg_size .. 2 * max_msg_size - 1 :
               mem'[r][a] = mem[r][a] \/ mem'[r][a].v # Value(Peer(r)),
           mem'[Peer(r)] = mem[Peer(r)], sq'[Peer(r)] = sq[Peer(r)],
           \/ sq'[r] = sq[r] /\ pc[r] # "post"
           \/ /\ pc[r] = "post"
              /\ \E w : sq'[r] = <<w>> /\ w.len = call[r].size,
           pc[r] = "spin" => WSent(Peer(r)) = WSeen(r) + 1 /\ ~ HeadIs(Peer(r), "posted"),
           pc[r] = "reset" => /\ mem'[r][max_msg_size].v # Value(Peer(r))
                              /\ mem'[r][max_msg_size + call[r].size - 1].v # Value(Peer(r))
    PROVE  WBuffer(r)' /\ WBuffer(Peer(r))' /\ WOrder'
<1> DEFINE q == Peer(r)
           M == max_msg_size
<1>q. q \in Ranks /\ q # r /\ Peer(q) = r /\ Ranks = {r, q}
  BY PeerFacts DEF Ranks, Peer
<1>i. WTypes /\ WOrder /\ SameCalls /\ WBuffer(r) /\ WBuffer(q)
  BY <1>q DEF WInv
<1>g. /\ pc'[q] = pc[q] /\ call'[q] = call[q]
      /\ WSent(q)' = WSent(q) /\ WSeen(q)' = WSeen(q)
      /\ WSent(r)' = WSent(r) + (IF pc[r] = "post" THEN 1 ELSE 0)
      /\ WSeen(r)' = WSeen(r) + (IF pc[r] = "spin" THEN 1 ELSE 0)
      /\ call'[r].size >= call[r].size
      /\ pc[r] \notin {"post", "spin"} => WOrder'
      /\ Armed(r)' => Armed(r) \/ pc[r] = "reset"
      /\ pc[r] # WLast(r) => call' = call
      /\ call' \in [Ranks -> Calls]
      /\ pc'[r] = "poll_send" <=> pc[r] = "post"
  BY <1>i, WGoesOn
<1>c. /\ WSent(r) \in Int /\ WSeen(r) \in Int /\ WSent(q) \in Int /\ WSeen(q) \in Int
      /\ pc[r] = "reset" => WSent(q) = WSeen(r) /\ call[q].size <= call[r].size
      /\ pc[r] = "post" => WSent(r) = WSeen(q) /\ call[q].size <= call[r].size
  BY <1>i, <1>q, WCounts
<1>t. /\ M \in Nat /\ M' = M
      /\ call[r].size \in Nat \ {0} /\ call[q].size \in Nat \ {0} /\ call'[r].size \in Nat \ {0}
      /\ pc[r] \notin WOver => call[r].size <= M
  BY <1>q, <1>i, <1>g DEF WTypes, Calls, max_msg_size
<1>s. pc[r] = "spin" => ~ Armed(r)'
  <2>1. ASSUME pc[r] = "spin"  PROVE pc'[r] = "check"
    BY <2>1, <1>i DEF WGoes, WLambda, WLast, WAfter, Advance, WOutside, WTypes
  <2> QED  BY <2>1 DEF Armed
<1>1. WOrder'
  <2>1. CASE r = 0
    BY <2>1, <1>g, <1>c, <1>i DEF WOrder, Peer
  <2>2. CASE r = 1
    BY <2>2, <1>g, <1>c, <1>i DEF WOrder, Peer
  <2> QED  BY <2>1, <2>2 DEF Ranks
<1>2. WBuffer(r)'
  <2>1. \A a \in M + call[q].size .. 2 * M - 1 : mem'[r][a].v # Value(q)
    <3> SUFFICES ASSUME NEW a \in M + call[q].size .. 2 * M - 1
                 PROVE  mem'[r][a].v # Value(q)
      OBVIOUS
    <3>1. a \in M .. 2 * M - 1
      BY <1>t
    <3>2. mem[r][a].v # Value(q)
      BY <1>i DEF WBuffer, Blank
    <3> QED  BY <3>1, <3>2
  <2>2. ASSUME Armed(r)', WSent(q)' = WSeen(r)'
        PROVE  /\ mem'[r][M].v # Value(q)
               /\ \A a \in M + call'[r].size - 1 .. 2 * M - 1 : mem'[r][a].v # Value(q)
    <3>a. pc[r] # "spin"
      BY <2>2, <1>s
    <3>b. WSeen(r)' = WSeen(r) + 0 /\ WSent(q)' = WSent(q)
      BY <3>a, <1>g
    <3>1. pc[r] # "spin" /\ WSent(q) = WSeen(r)
      BY <2>2, <3>a, <3>b, <1>c
    <3>2. CASE Armed(r)
      <4>1. /\ mem[r][M].v # Value(q)
            /\ \A a \in M + call[r].size - 1 .. 2 * M - 1 : mem[r][a].v # Value(q)
        BY <3>1, <3>2, <1>i DEF WBuffer, Blank
      <4>2. M \in M .. 2 * M - 1
        BY <3>2, <1>t DEF Armed
      <4>3. ASSUME NEW a \in M + call'[r].size - 1 .. 2 * M - 1
            PROVE  a \in M + call[r].size - 1 .. 2 * M - 1 /\ a \in M .. 2 * M - 1
        <5>1. call'[r].size >= call[r].size
          BY <1>g
        <5> HIDE DEF M
        <5> QED  BY <1>t, <5>1
      <4> QED  BY <4>1, <4>2, <4>3
    <3>3. CASE pc[r] = "reset"
      <4>1. call'[r].size = call[r].size
        BY <3>3, <1>g DEF WLast
      <4>2. ASSUME NEW a \in M + call'[r].size - 1 .. 2 * M - 1
            PROVE  a = M + call[r].size - 1 \/ a \in M + call[q].size .. 2 * M - 1
        BY <3>3, <4>1, <1>t, <1>c
      <4> QED  BY <3>3, <4>2, <2>1
    <3> QED  BY <2>2, <3>2, <3>3, <1>g
  <2>3. ASSUME Armed(r)', HeadIs(q, "posted")
        PROVE  /\ Armed(r)
               /\ 1 \in Head(sq[q]).left => mem[r][M].v # Value(q)
               /\ Head(sq[q]).len \in Head(sq[q]).left => mem[r][M + Head(sq[q]).len - 1].v # Value(q)
    <3>1. pc[r] # "reset"
      BY <2>3, <1>c, <1>i DEF WBuffer
    <3> QED  BY <3>1, <2>3, <1>i, <1>g DEF WBuffer, Blank
  <2>4. ASSUME HeadIs(q, "posted")  PROVE Head(sq[q]).len = call[q].size /\ pc[q] = "poll_send"
    BY <2>4, <1>q DEF WInv, WOutstanding, WWrite, HeadIs
  <2>5. ASSUME HeadIs(q, "posted"), Armed(r)'
        PROVE  /\ 1 \in Head(sq[q]).left => mem'[r][M].v # Value(q)
               /\ Head(sq[q]).len \in Head(sq[q]).left =>
                      mem'[r][M + Head(sq[q]).len - 1].v # Value(q)
    <3>1. call[q].size <= M
      BY <2>4, <2>5, <1>i, <1>q DEF WTypes, WOver
    <3>2. M \in M .. 2 * M - 1 /\ M + call[q].size - 1 \in M .. 2 * M - 1
      BY <3>1, <1>t
    <3> QED  BY <3>2, <2>3, <2>4, <2>5
  <2>6. WSent(q)' = WSeen(r)' => ~ HeadIs(q, "posted")
    BY <1>i, <1>g, <1>c DEF WBuffer
  <2>7. HeadIs(q, "posted")' = HeadIs(q, "posted") /\ Head(sq[q])' = Head(sq[q])
    BY DEF HeadIs
  <2> QED  BY <2>1, <2>2, <2>5, <2>6, <2>7, <1>g, <1>t DEF WBuffer, Blank
<1>3. WBuffer(q)'
  <2>1. \A a \in M + call'[r].size .. 2 * M - 1 : mem'[q][a].v # Value(r)
    <3> SUFFICES ASSUME NEW a \in M + call'[r].size .. 2 * M - 1
                 PROVE  mem'[q][a].v # Value(r)
      OBVIOUS
    <3>1. a \in M + call[r].size .. 2 * M - 1
      BY <1>t, <1>g
    <3> QED  BY <3>1, <1>i, <1>q DEF WBuffer, Blank
  <2>2. Armed(q)' = Armed(q)
    BY <1>g DEF Armed
  <2>3. ASSUME Armed(q), WSent(r) = WSeen(q)
        PROVE  /\ mem'[q][M].v # Value(r)
               /\ \A a \in M + call[q].size - 1 .. 2 * M - 1 : mem'[q][a].v # Value(r)
    BY <2>3, <1>i, <1>q DEF WBuffer, Blank
  <2>4. WSent(r)' = WSeen(q)' => WSent(r) = WSeen(q) /\ pc[r] # "post"
    BY <1>g, <1>c
  <2>5. ASSUME Armed(q), HeadIs(r, "posted")'
        PROVE  /\ 1 \in Head(sq'[r]).left => mem'[q][M].v # Value(r)
               /\ Head(sq'[r]).len \in Head(sq'[r]).left =>
                      mem'[q][M + Head(sq'[r]).len - 1].v # Value(r)
    <3>1. CASE sq'[r] = sq[r] /\ pc[r] # "post"
      <4>1. HeadIs(r, "posted")
        BY <2>5, <3>1 DEF HeadIs
      <4> QED  BY <4>1, <3>1, <2>5, <1>i, <1>q DEF WBuffer, Blank
    <3>2. CASE pc[r] = "post"
      <4>1. Head(sq'[r]).len = call[r].size
        BY <3>2
      <4>2. M + call[r].size - 1 \in M + call[q].size - 1 .. 2 * M - 1
        BY <3>2, <1>c, <1>t DEF WOver
      <4> QED  BY <4>1, <4>2, <3>2, <2>3, <2>5, <1>c
    <3> QED  BY <3>1, <3>2
  <2>6. WSent(r)' = WSeen(q)' => ~ HeadIs(r, "posted")'
    BY <2>4, <1>i, <1>q DEF WBuffer, HeadIs
  <2> QED  BY <2>1, <2>2, <2>3, <2>4, <2>5, <2>6, <1>g, <1>t, <1>q DEF WBuffer, Blank
<1> QED  BY <1>1, <1>2, <1>3

\* What a step of rank r has to keep in order besides the buffers.
LEMMA WRestKept ==
    ASSUME WInv, NEW r \in Ranks, WGoes(r), UNCHANGED <<config, order>>,
           WBuffer(r)' /\ WBuffer(Peer(r))' /\ WOrder',
           IsFun(mem'), IsFun(sq'), IsFun(send_cq'),
           mem'[r] = [a \in 0 .. 2 * max_msg_size - 1 |-> mem'[r][a]],
           mem'[Peer(r)] = mem[Peer(r)], sq'[Peer(r)] = sq[Peer(r)],
           send_cq'[Peer(r)] = send_cq[Peer(r)],
           WOutstanding(r)'
    PROVE  WInv'
<1> DEFINE q == Peer(r)
<1>q. q \in Ranks /\ q # r /\ Peer(q) = r /\ Ranks = {r, q}
  BY PeerFacts DEF Ranks, Peer
<1>i. WTypes /\ WOrder /\ SameCalls
  BY DEF WInv
<1>g. /\ pc' \in [Ranks -> WLabels] /\ call' \in [Ranks -> Calls]
      /\ pc'[q] = pc[q] /\ call'[q] = call[q]
      /\ pc'[r] \notin WOver => call'[r].size <= max_msg_size
      /\ SameCalls'
  BY <1>i, WGoesOn
<1>m. max_msg_size' = max_msg_size
  BY DEF max_msg_size
<1>1. WTypes'
  <2>1. \A p \in {r, q} : /\ mem'[p] = [a \in 0 .. 2 * max_msg_size - 1 |-> mem'[p][a]]
                          /\ pc'[p] \notin WOver => call'[p].size <= max_msg_size
    BY <1>i, <1>g, <1>q DEF WTypes, HasCells
  <2>2. \A p \in Ranks : HasCells(p, 2 * max_msg_size)'
    BY <2>1, <1>q, <1>m DEF HasCells
  <2> QED  BY <2>1, <2>2, <1>q, <1>i, <1>g, <1>m DEF WTypes
<1>2. WOutstanding(q)'
  <2>1. WOutstanding(q)
    BY <1>q DEF WInv
  <2> QED  BY <2>1, <1>g, <1>m DEF WOutstanding, WWrite
<1> QED  BY <1>1, <1>2, <1>g, <1>q DEF WInv

\* A step of rank r that changes neither memory nor its requests.
LEMMA WQuietKept ==
    ASSUME WInv, NEW r \in Ranks, WGoes(r), UNCHANGED <<mem, sq, send_cq, config, order>>,
           pc[r] \notin {"post", "poll_send", "reset"},
           pc[r] = "spin" => WSent(Peer(r)) = WSeen(r) + 1 /\ ~ HeadIs(Peer(r), "posted")
    PROVE  WInv'
<1>1. WBuffer(r)' /\ WBuffer(Peer(r))' /\ WOrder'
  BY WBuffersKept
<1>2. pc'[r] # "poll_send"
  BY WGoesOn DEF WInv
<1>3. WOutstanding(r)'
  BY <1>2 DEF WOutstanding, WInv
<1>4. IsFun(mem') /\ IsFun(sq') /\ IsFun(send_cq') /\ HasCells(r, 2 * max_msg_size)
  BY DEF WInv, WTypes
<1> QED  BY <1>1, <1>3, <1>4, WRestKept DEF HasCells

\* A rank that sees the two letters sees a message that is complete.
LEMMA WSpinSeesAll ==
    ASSUME WInv, NEW r \in Ranks, pc[r] = "spin", W!Arrived(r)
    PROVE  WSent(Peer(r)) = WSeen(r) + 1 /\ ~ HeadIs(Peer(r), "posted")
<1> DEFINE q == Peer(r)
           M == max_msg_size
<1>q. q \in Ranks /\ q # r /\ Peer(q) = r
  BY PeerFacts
<1>i. WTypes /\ WOrder /\ SameCalls /\ WBuffer(r) /\ WOutstanding(q)
  BY <1>q DEF WInv
<1>a. ~ Blank(r, M) /\ ~ Blank(r, M + call[r].size - 1) /\ Armed(r)
  BY DEF W!Arrived, W!recv_buf, W!max_msg_size, max_msg_size, W!Value, W!Peer, Value, Peer, Blank,
         Armed, WOver
<1>1. WSent(q) # WSeen(r)
  BY <1>a, <1>i DEF WBuffer
<1>2. /\ WSeen(r) \in Int /\ WSent(q) \in Int
      /\ WSeen(r) <= WSent(q) /\ WSent(q) <= WSeen(r) + 1
      /\ WSent(q) = WSeen(r) + 1 /\ pc[q] = "poll_send" => call[q] = call[r]
  BY <1>i, <1>q, WCounts
<1>3. WSent(q) = WSeen(r) + 1
  <2> HIDE DEF q
  <2> QED  BY <1>1, <1>2
<1>4. ASSUME HeadIs(q, "posted")  PROVE FALSE
  <2>1. pc[q] = "poll_send" /\ WWrite(q, Head(sq[q])) /\ Head(sq[q]).st = "posted"
    BY <1>4, <1>i DEF WOutstanding, HeadIs
  <2> DEFINE w == Head(sq[q])
  <2>2. w.len = call[r].size
    BY <2>1, <1>2, <1>3 DEF WWrite
  <2>3. 1 \notin w.left /\ w.len \notin w.left
    BY <1>4, <1>a, <1>i, <2>2 DEF WBuffer
  <2>4. w.len \in Nat \ {0}
    BY <2>2, <1>i DEF WTypes, Calls
  <2>5. PICK j \in 1 .. w.len : w.left = j .. w.len \/ w.left = 1 .. j
    BY <2>1 DEF WWrite
  <2> HIDE DEF w
  <2> QED  BY <2>3, <2>4, <2>5
<1> QED  BY <1>3, <1>4

\* Storing in the send buffer does not touch the receive buffer.
LEMMA StoreFacts ==
    ASSUME NEW m, NEW n \in Nat, m = [a \in 0 .. n - 1 |-> m[a]], NEW buf, NEW data
    PROVE  /\ Store(m, buf, data) = [a \in 0 .. n - 1 |-> Store(m, buf, data)[a]]
           /\ \A a \in 0 .. n - 1 : a \notin buf .. buf + Len(data) - 1 =>
                  Store(m, buf, data)[a] = m[a]
           /\ \A a \in 0 .. n - 1 : a \in buf .. buf + Len(data) - 1 =>
                  Store(m, buf, data)[a] = data[a - buf + 1]
<1>1. DOMAIN m = 0 .. n - 1
  OBVIOUS
<1> QED  BY <1>1, Zenon DEF Store

\* A step of a rank of ibv_pingpong_write.cpp.
LEMMA WRankKept ==
    ASSUME WInv, NEW r \in Ranks, W!RankStep(r)
    PROVE  WInv'
<1> DEFINE q == Peer(r)
           M == max_msg_size
<1>q. q \in Ranks /\ q # r /\ Peer(q) = r
  BY PeerFacts
<1>i. WTypes /\ WOrder /\ SameCalls /\ WBuffer(r) /\ WOutstanding(r)
  BY <1>q DEF WInv
<1>p. ASSUME pc[r] \in WLambda, W!Proceed(r, W!Body(r))  PROVE WGoes(r)
  BY <1>p, WProceeds DEF WGoes
<1>o. ASSUME NEW x, <<pc[r], x>> \in WOutside(r), W!Goto(r, x)  PROVE WGoes(r)
  BY <1>o DEF WGoes, W!Goto, Advance
<1>v. ~ (Value(r) = Value(q))
  BY DEF Value, Peer, q, Ranks
<1>m. M \in Nat /\ call[r] \in Calls /\ call[r].size \in Nat \ {0}
  BY <1>i DEF WTypes, Calls
<1>0. CASE W!Abort(r)
  <2>1. UNCHANGED <<mem, sq, send_cq, order, config, pc, call>>
    BY <1>0 DEF W!Abort, W!benchVars
  <2>2. WTypes' /\ WOrder' /\ SameCalls'
    BY <2>1, <1>i DEF WTypes, WOrder, SameCalls, WSent, WSeen, HasCells, max_msg_size
  <2>3. ASSUME NEW p \in Ranks  PROVE WOutstanding(p)' /\ WBuffer(p)'
    BY <2>1, <2>3 DEF WInv, WOutstanding, WBuffer, WWrite, Blank, Armed, WSent, WSeen, HeadIs,
                      max_msg_size
  <2> QED  BY <2>2, <2>3 DEF WInv
<1>1. CASE W!Memset(r)
  <2>1. /\ pc[r] = "memset" /\ UNCHANGED <<sq, send_cq, order, config>>
        /\ mem' = [mem EXCEPT ![r] = [a \in DOMAIN mem[r] |->
               IF a < M THEN [v |-> Value(r), t |-> 0] ELSE [v |-> "zero", t |-> 0]]]
        /\ W!Goto(r, "start")
    BY <1>1 DEF W!Memset, W!At, W!recv_buf, W!max_msg_size, max_msg_size, W!Value, Value
  <2>2. WGoes(r)
    BY <2>1, <1>o DEF WOutside
  <2>3. DOMAIN mem[r] = 0 .. 2 * M - 1
    BY <1>i DEF WTypes, HasCells
  <2>4. /\ IsFun(mem') /\ mem'[q] = mem[q]
        /\ mem'[r] = [a \in 0 .. 2 * M - 1 |->
               IF a < M THEN [v |-> Value(r), t |-> 0] ELSE [v |-> "zero", t |-> 0]]
    BY <2>1, <2>3, <1>i, <1>q DEF WTypes, IsFun
  <2>5. \A a \in M .. 2 * M - 1 : mem'[r][a].v # Value(q)
    BY <2>4, <1>m DEF Value
  <2>6. WBuffer(r)' /\ WBuffer(q)' /\ WOrder'
    BY <2>1, <2>2, <2>4, <2>5, WBuffersKept
  <2>7. WOutstanding(r)'
    <3>1. pc'[r] # "poll_send"
      BY <2>1, <2>2, <1>i, WGoesOn
    <3> QED  BY <2>1, <3>1, <1>i DEF WOutstanding
  <2>8. mem'[r] = [a \in 0 .. 2 * M - 1 |-> mem'[r][a]]
    BY <2>4
  <2>9. IsFun(sq') /\ IsFun(send_cq')
    BY <2>1, <1>i DEF WTypes
  <2> QED  BY <2>1, <2>2, <2>4, <2>6, <2>7, <2>8, <2>9, WRestKept
<1>2. CASE W!Reset(r)
  <2> DEFINE own == [v |-> Value(r), t |-> call[r].n]
             e == M + call[r].size - 1
  <2>1. /\ pc[r] = "reset" /\ UNCHANGED <<sq, send_cq, order, config>>
        /\ mem' = [mem EXCEPT ![r] = [mem[r] EXCEPT ![M] = own, ![e] = own]]
        /\ W!Proceed(r, W!Body(r))
    BY <1>2 DEF W!Reset, W!At, W!recv_buf, W!max_msg_size, max_msg_size, W!Value, Value
  <2>2. WGoes(r)
    BY <2>1, <1>p DEF WLambda
  <2>3. call[r].size <= M
    BY <2>1, <1>i DEF WTypes, WOver
  <2>4. mem[r] = [a \in 0 .. 2 * M - 1 |-> mem[r][a]]
    BY <1>i DEF WTypes, HasCells
  <2>5. M \in 0 .. 2 * M - 1 /\ e \in 0 .. 2 * M - 1
    BY <2>3, <1>m
  <2> HIDE DEF own, e
  <2>6. /\ IsFun(mem') /\ mem'[q] = mem[q]
        /\ mem'[r] = [a \in 0 .. 2 * M - 1 |-> IF a = M \/ a = e THEN own ELSE mem[r][a]]
    BY <2>1, <2>4, <2>5, <1>i, <1>q DEF WTypes, IsFun
  <2>7. own.v # Value(q)
    BY <1>v DEF own
  <2>8. /\ \A a \in M .. 2 * M - 1 : mem'[r][a] = mem[r][a] \/ mem'[r][a].v # Value(q)
        /\ mem'[r][M].v # Value(q) /\ mem'[r][e].v # Value(q)
    BY <2>5, <2>6, <2>7, <1>m
  <2>9. WBuffer(r)' /\ WBuffer(q)' /\ WOrder'
    BY <2>1, <2>2, <2>6, <2>8, WBuffersKept DEF e
  <2>10. WOutstanding(r)'
    <3>1. pc'[r] # "poll_send"
      BY <2>1, <2>2, <1>i, WGoesOn
    <3> QED  BY <2>1, <3>1, <1>i DEF WOutstanding
  <2>11. mem'[r] = [a \in 0 .. 2 * M - 1 |-> mem'[r][a]]
    BY <2>6
  <2>12. IsFun(sq') /\ IsFun(send_cq')
    BY <2>1, <1>i DEF WTypes
  <2> QED  BY <2>1, <2>2, <2>6, <2>9, <2>10, <2>11, <2>12, WRestKept
<1>3. CASE W!PostWrite(r) /\ ~ W!Abort(r)
  <2> DEFINE len == call[r].size
             fill == Fill(r, len)
  <2>1. /\ pc[r] = "post" /\ UNCHANGED <<send_cq, order, config>>
        /\ mem' = IF touch_data THEN [mem EXCEPT ![r] = Store(@, 0, fill)] ELSE mem
        /\ W!Proceed(r, W!Body(r))
    BY <1>3 DEF W!PostWrite, W!At, W!write_buffer, W!send_buf, W!touch_data, touch_data, W!Store,
                Store, W!Fill, Fill, W!Value, Value, W!UnchangedByPost
  <2>2. \E w : /\ sq' = [sq EXCEPT ![r] = Append(@, w)]
               /\ IsRequest(w) /\ w.op = "WRITE" /\ w.raddr = M /\ w.len = len
               /\ w.st = "posted" /\ w.left = 1 .. len
    <3>1. W!postWrite(r, W!send_buf, len, W!remote_recv_buf, 0)
      BY <1>3 DEF W!PostWrite
    <3> DEFINE x == W!WorkRequest(r, "WRITE", W!send_buf, len, W!remote_recv_buf, 0, 0)
    <3>2. sq' = [sq EXCEPT ![r] = Append(@, x)]
      BY <3>1 DEF W!postWrite, W!Post
    <3>3. /\ IsRequest(x) /\ x.op = "WRITE" /\ x.raddr = M /\ x.len = len
          /\ x.st = "posted" /\ x.left = 1 .. len
      BY DEF W!WorkRequest, IsRequest, W!remote_recv_buf, W!max_msg_size, max_msg_size
    <3> HIDE DEF x
    <3> QED  BY <3>2, <3>3
  <2>3. PICK w : /\ sq' = [sq EXCEPT ![r] = Append(@, w)]
                 /\ IsRequest(w) /\ w.op = "WRITE" /\ w.raddr = M /\ w.len = len
                 /\ w.st = "posted" /\ w.left = 1 .. len
    BY <2>2
  <2>4. WGoes(r)
    BY <2>1, <1>p DEF WLambda
  <2>5. sq[r] = <<>> /\ send_cq[r] = <<>>
    BY <2>1, <1>i DEF WOutstanding
  <2>6. sq'[r] = <<w>> /\ IsFun(sq') /\ sq'[q] = sq[q]
    <3>1. Append(<<>>, w) = <<w>>
      OBVIOUS
    <3> QED  BY <2>3, <2>5, <3>1, <1>i, <1>q DEF WTypes, IsFun
  <2>7. len <= M /\ len \in Nat \ {0}
    BY <2>1, <1>i, <1>m DEF WTypes, WOver
  <2>8. /\ IsFun(mem') /\ mem'[q] = mem[q]
        /\ mem'[r] = [a \in 0 .. 2 * M - 1 |-> mem'[r][a]]
        /\ \A a \in M .. 2 * M - 1 : mem'[r][a] = mem[r][a]
    <3>1. mem[r] = [a \in 0 .. 2 * M - 1 |-> mem[r][a]] /\ 2 * M \in Nat
      BY <1>i, <1>m DEF WTypes, HasCells
    <3>2. CASE touch_data
      <4>1. mem' = [mem EXCEPT ![r] = Store(mem[r], 0, fill)]
        BY <2>1, <3>2
      <4>2. mem'[r] = Store(mem[r], 0, fill) /\ IsFun(mem') /\ mem'[q] = mem[q]
        BY <4>1, <1>i, <1>q DEF WTypes, IsFun
      <4>3. Len(fill) = len
        BY <2>7, FillLen
      <4>4. \A a \in M .. 2 * M - 1 : a \in 0 .. 2 * M - 1 /\ a \notin 0 .. 0 + Len(fill) - 1
        BY <4>3, <2>7, <1>m
      <4> HIDE DEF fill
      <4> QED  BY <3>1, <4>2, <4>4, StoreFacts
    <3>3. CASE ~ touch_data
      BY <2>1, <3>1, <3>3, <1>i DEF WTypes
    <3> QED  BY <3>2, <3>3
  <2>9. WBuffer(r)' /\ WBuffer(q)' /\ WOrder'
    BY <2>1, <2>3, <2>4, <2>6, <2>8, WBuffersKept
  <2>10. pc'[r] = "poll_send" /\ call' = call
    BY <2>1, <2>4, <1>i, WGoesOn DEF WLast
  <2>11. WOutstanding(r)'
    <3>1. order' = order /\ max_msg_size' = max_msg_size
      BY <2>1 DEF max_msg_size
    <3>2. w.left = IF order = "ascending" THEN 1 .. w.len ELSE 1 .. len
      BY <2>3
    <3>3. 1 \in 1 .. w.len /\ len \in 1 .. w.len
      BY <2>3, <2>7
    <3>4. WWrite(r, w)'
      BY <2>3, <2>10, <3>1, <3>2, <3>3 DEF WWrite
    <3> QED  BY <2>1, <2>5, <2>6, <2>10, <3>4 DEF WOutstanding
  <2>12. IsFun(send_cq')
    BY <2>1, <1>i DEF WTypes
  <2> QED  BY <2>1, <2>4, <2>6, <2>8, <2>9, <2>11, <2>12, WRestKept
<1>4. CASE W!PollSend(r) /\ ~ W!Abort(r)
  <2>1. /\ pc[r] = "poll_send" /\ UNCHANGED <<mem, sq, order, config>>
        /\ send_cq[r] # <<>> /\ send_cq' = [send_cq EXCEPT ![r] = Tail(@)]
        /\ W!Proceed(r, W!Body(r))
    BY <1>4 DEF W!PollSend, W!At, W!AwaitSend, W!pollSendCQ
  <2>2. WGoes(r)
    BY <2>1, <1>p DEF WLambda
  <2>3. PICK c : send_cq[r] = <<c>> /\ sq[r] = <<>>
    BY <2>1, <1>i DEF WOutstanding
  <2>4. send_cq'[r] = <<>> /\ IsFun(send_cq') /\ send_cq'[q] = send_cq[q]
    <3>1. Tail(<<c>>) = <<>>
      OBVIOUS
    <3> QED  BY <2>1, <2>3, <3>1, <1>i, <1>q DEF WTypes, IsFun
  <2>5. pc'[r] # "poll_send"
    BY <2>1, <2>2, <1>i, WGoesOn
  <2>6. WOutstanding(r)'
    BY <2>1, <2>3, <2>4, <2>5 DEF WOutstanding
  <2>7. WBuffer(r)' /\ WBuffer(q)' /\ WOrder'
    BY <2>1, <2>2, WBuffersKept
  <2>8. /\ IsFun(mem') /\ IsFun(sq') /\ mem' = mem
        /\ mem[r] = [a \in 0 .. 2 * max_msg_size - 1 |-> mem[r][a]]
    BY <2>1, <1>i DEF WTypes, HasCells
  <2> QED  BY <2>1, <2>2, <2>4, <2>6, <2>7, <2>8, WRestKept
<1>5. CASE W!Spin(r)
  <2>1. /\ pc[r] = "spin" /\ UNCHANGED <<mem, sq, send_cq, order, config>>
        /\ W!Arrived(r) /\ W!Proceed(r, W!Body(r))
    BY <1>5 DEF W!Spin, W!At, W!deviceVars, W!fabricVars
  <2>2. WGoes(r)
    BY <2>1, <1>p DEF WLambda
  <2> QED  BY <2>1, <2>2, WSpinSeesAll, WQuietKept
<1>6. CASE W!Check(r) /\ ~ W!Abort(r)
  <2>1. /\ pc[r] = "check" /\ UNCHANGED <<mem, sq, send_cq, order, config>>
        /\ W!Proceed(r, W!Body(r))
    BY <1>6 DEF W!Check, W!At, W!CheckData, W!deviceVars, W!fabricVars
  <2>2. WGoes(r)
    BY <2>1, <1>p DEF WLambda
  <2> QED  BY <2>1, <2>2, WQuietKept
<1>7. CASE (W!OpeningBarrier(r) \/ W!ClosingBarrier(r) \/ W!Finalize(r) \/ W!Setup(r)) /\ ~ W!Abort(r)
  <2>1. /\ UNCHANGED <<mem, sq, send_cq, order, config>>
        /\ \/ pc[r] = "start" /\ W!Goto(r, "opening")
           \/ pc[r] = "opening" /\ W!Goto(r, "setup")
           \/ pc[r] = "setup" /\ W!Goto(r, W!Body(r)[1])
           \/ pc[r] = "close" /\ W!Goto(r, "closing")
           \/ pc[r] = "closing" /\ W!Goto(r, "exit")
           \/ pc[r] = "exit" /\ W!Goto(r, "exited")
    <3>1. CASE W!OpeningBarrier(r)
      BY <3>1 DEF W!OpeningBarrier, W!At, W!EnterBarrier, W!LeaveBarrier, W!deviceVars, W!fabricVars
    <3>2. CASE W!ClosingBarrier(r)
      BY <3>2 DEF W!ClosingBarrier, W!At, W!EnterBarrier, W!LeaveBarrier, W!deviceVars, W!fabricVars
    <3>3. CASE W!Finalize(r)
      BY <3>3 DEF W!Finalize, W!At, W!Exit
    <3>4. CASE W!Setup(r) /\ ~ W!Abort(r)
      BY <3>4 DEF W!Setup, W!At, W!PostRecvs
    <3> QED  BY <1>7, <3>1, <3>2, <3>3, <3>4
  <2>2. W!Body(r)[1] = IF r = 0 THEN "reset" ELSE "spin"
    BY DEF W!Body
  <2>3. WGoes(r)
    BY <2>1, <2>2, <1>o DEF WOutside
  <2>4. pc[r] \notin {"post", "poll_send", "reset", "spin"}
    BY <2>1
  <2> QED  BY <2>1, <2>3, <2>4, WQuietKept
<1> QED  BY W!RankStep(r), <1>0, <1>1, <1>2, <1>3, <1>4, <1>5, <1>6, <1>7 DEF W!RankStep

\* A request in another state is a request.
LEMMA RequestState ==
    ASSUME NEW w, IsRequest(w), NEW s, NEW x, x = [w EXCEPT !.st = s]
    PROVE  /\ IsRequest(x) /\ x.st = s /\ x.op = w.op /\ x.raddr = w.raddr /\ x.len = w.len
           /\ x.left = w.left /\ x.buf = w.buf
<1>1. x = [op |-> w.op, buf |-> w.buf, len |-> w.len, raddr |-> w.raddr, imm |-> w.imm,
           wr_id |-> w.wr_id, inline |-> w.inline, st |-> s, data |-> w.data,
           left |-> w.left]
  BY DEF IsRequest
<1> QED  BY <1>1, Zenon DEF IsRequest

\* What the adapters do for rank r, pc and call unchanged.
LEMMA WAdapterKept ==
    ASSUME WInv, NEW r \in Ranks, Adapter(r) \/ LoseAck(r), UNCHANGED <<config, pc, call>>
    PROVE  WInv'
<1> DEFINE q == Peer(r)
           M == max_msg_size
           w == Head(sq[r])
<1>q. q \in Ranks /\ q # r /\ Peer(q) = r /\ Ranks = {r, q}
  BY PeerFacts DEF Ranks, Peer
<1>i. WTypes /\ WOrder /\ SameCalls /\ WBuffer(r) /\ WBuffer(q) /\ WOutstanding(r)
      /\ WOutstanding(q)
  BY <1>q DEF WInv
<1>1. sq[r] # <<>>
  BY DEF Adapter, Deliver, Place, Respond, Ack, Retransmit, Fail, LoseAck, Ready, HeadIs
<1>2. pc[r] = "poll_send" /\ send_cq[r] = <<>> /\ sq[r] = <<w>> /\ WWrite(r, w)
  BY <1>1, <1>i DEF WOutstanding
<1>3. ~ Deliver(r) /\ ~ Respond(r)
  BY <1>2 DEF Deliver, Respond, WWrite
<1>4. order' = order
  BY <1>3 DEF Adapter, Place, Ack, Retransmit, Fail, LoseAck
<1>5. /\ M' = M /\ WOrder' /\ SameCalls'
      /\ \A p \in Ranks : Armed(p)' = Armed(p) /\ WSent(p)' = WSent(p) /\ WSeen(p)' = WSeen(p)
  BY <1>i DEF max_msg_size, WOrder, SameCalls, Armed, WSent, WSeen
<1>m. M \in Nat /\ call[r].size \in Nat \ {0} /\ call[r].size <= M
  BY <1>2, <1>i DEF WTypes, Calls, WOver
\* The request is finished, or only changes its state.
<1>6. ASSUME mem' = mem, sq'[q] = sq[q], send_cq'[q] = send_cq[q],
             IsFun(sq'), IsFun(send_cq'),
             \/ sq'[r] = <<>> /\ \E c : send_cq'[r] = <<c>>
             \/ /\ send_cq'[r] = <<>>
                /\ \E x : /\ sq'[r] = <<x>> /\ IsRequest(x) /\ x.op = "WRITE"
                          /\ x.raddr = M /\ x.len = call[r].size /\ x.st # "posted"
      PROVE  WInv'
  <2>1. ~ HeadIs(r, "posted")'
    BY <1>6 DEF HeadIs
  <2>2. WTypes'
    BY <1>4, <1>5, <1>6, <1>i DEF WTypes, HasCells
  <2>3. WOutstanding(q)'
    BY <1>4, <1>5, <1>6, <1>i DEF WOutstanding, WWrite
  <2>4. WOutstanding(r)'
    <3>1. CASE sq'[r] = <<>> /\ \E c : send_cq'[r] = <<c>>
      BY <3>1, <1>2 DEF WOutstanding
    <3>2. ASSUME NEW x, send_cq'[r] = <<>>, sq'[r] = <<x>>, IsRequest(x), x.op = "WRITE",
                 x.raddr = M, x.len = call[r].size, x.st # "posted"
          PROVE  WOutstanding(r)'
      <4>1. WWrite(r, x)'
        BY <3>2, <1>5 DEF WWrite
      <4> QED  BY <3>2, <4>1, <1>2 DEF WOutstanding
    <3> QED  BY <1>6, <3>1, <3>2
  <2>5. HeadIs(q, "posted")' = HeadIs(q, "posted") /\ Head(sq'[q]) = Head(sq[q])
    BY <1>6 DEF HeadIs
  <2>6. WBuffer(r)'
    BY <1>5, <1>6, <1>i, <1>q, <2>5 DEF WBuffer, Blank
  <2>7. WBuffer(q)'
    BY <1>5, <1>6, <1>i, <1>q, <2>1 DEF WBuffer, Blank
  <2> QED  BY <1>5, <1>q, <2>2, <2>3, <2>4, <2>6, <2>7 DEF WInv
<1>7. ASSUME NEW s, s # "posted", sq' = [sq EXCEPT ![r] = <<[w EXCEPT !.st = s]>> \o Tail(@)],
             mem' = mem, send_cq' = send_cq
      PROVE  WInv'
  <2> DEFINE x == [w EXCEPT !.st = s]
  <2>1. IsRequest(x) /\ x.op = "WRITE" /\ x.raddr = M /\ x.len = call[r].size /\ x.st = s
    <3>1. IsRequest(w) /\ w.op = "WRITE" /\ w.raddr = M /\ w.len = call[r].size
      BY <1>2 DEF WWrite
    <3>2. x = [w EXCEPT !.st = s]
      OBVIOUS
    <3> HIDE DEF x, w
    <3> QED  BY <3>1, <3>2, RequestState
  <2> HIDE DEF x
  <2>2. <<x>> \o Tail(<<w>>) = <<x>>
    OBVIOUS
  <2>3. sq'[r] = <<x>> /\ sq'[q] = sq[q] /\ IsFun(sq') /\ IsFun(send_cq')
    BY <1>2, <1>7, <2>2, <1>i, <1>q DEF WTypes, IsFun, x
  <2> QED  BY <1>6, <1>7, <2>1, <2>3, <1>2
<1>8. ASSUME NEW status, Finish(r, status), mem' = mem  PROVE WInv'
  <2>1. PICK c : send_cq' = [send_cq EXCEPT ![r] = Append(@, c)]
    BY <1>8 DEF Finish
  <2>2. Tail(<<w>>) = <<>> /\ Append(<<>>, c) = <<c>>
    OBVIOUS
  <2>3. /\ sq'[r] = <<>> /\ sq'[q] = sq[q] /\ IsFun(sq')
        /\ send_cq'[r] = <<c>> /\ send_cq'[q] = send_cq[q] /\ IsFun(send_cq')
    BY <1>2, <1>8, <2>1, <2>2, <1>i, <1>q DEF Finish, WTypes, IsFun
  <2> QED  BY <1>6, <1>8, <2>3
<1>9. CASE Ack(r)
  BY <1>9, <1>8, <1>2 DEF Ack, WWrite
<1>10. CASE Fail(r)
  BY <1>10, <1>8 DEF Fail
<1>11. CASE Retransmit(r)
  <2>1. sq' = [sq EXCEPT ![r] = <<[w EXCEPT !.st = "acked"]>> \o Tail(@)]
    BY <1>11, <1>2 DEF Retransmit, SetHead, WWrite
  <2> QED  BY <1>7, <1>11, <2>1 DEF Retransmit
<1>12. CASE LoseAck(r)
  <2>1. sq' = [sq EXCEPT ![r] = <<[w EXCEPT !.st = "unacked"]>> \o Tail(@)]
    BY <1>12 DEF LoseAck, SetHead
  <2> QED  BY <1>7, <1>12, <2>1 DEF LoseAck
<1>13. CASE Place(r)
  <2> DEFINE k == IF order = "ascending" THEN Min(w.left) ELSE Max(w.left)
             cell == Payload(r, w)[k]
             left == w.left \ {k}
             st == IF w.left = {k} THEN "acked" ELSE "posted"
             x == [w EXCEPT !.left = left, !.st = st]
             len == call[r].size
             b == M + k - 1
  <2>1. /\ w.st = "posted" /\ w.raddr = M /\ w.len = len /\ w.op = "WRITE" /\ IsRequest(w)
        /\ send_cq' = send_cq
        /\ mem' = [mem EXCEPT ![q] = Store(@, w.raddr + k - 1, <<cell>>)]
        /\ sq' = [sq EXCEPT ![r] = <<[w EXCEPT !.left = @ \ {k}, !.st = st]>> \o Tail(@)]
    BY <1>13, <1>2 DEF Place, Ready, HeadIs, WWrite, SetHead
  <2>2. PICK j \in 1 .. len : w.left = IF order = "ascending" THEN j .. len ELSE 1 .. j
    BY <1>2, <2>1 DEF WWrite
  <2>3. /\ order = "ascending" => w.left = j .. len /\ k = j
        /\ order # "ascending" => w.left = 1 .. j /\ k = j
    <3>1. j \in Nat /\ 1 \in Nat /\ len \in Nat /\ j <= len /\ 1 <= j
      BY <1>m
    <3> HIDE DEF w, len
    <3> QED  BY <2>2, <3>1, IntervalEnds
  <2>4. k = j /\ k \in 1 .. len
    BY <2>3
  <2>5. [w EXCEPT !.left = @ \ {k}, !.st = st] = x
    OBVIOUS
  <2>6. /\ IsRequest(x) /\ x.st = st /\ x.op = "WRITE" /\ x.raddr = M /\ x.len = len
        /\ x.left = left
    <3>1. IsRequest(w) /\ w.op = "WRITE" /\ w.raddr = M /\ w.len = len
      BY <2>1
    <3>2. x = Placed(w, left, st)
      BY DEF Placed
    <3> HIDE DEF x, w, left, st, len
    <3> QED  BY <3>1, <3>2, RequestPlaced
  <2>7. sq' = [sq EXCEPT ![r] = <<x>> \o Tail(@)]
    BY <2>1, <2>5
  <2> HIDE DEF x, k, cell, b
  <2>8. <<x>> \o Tail(<<w>>) = <<x>>
    OBVIOUS
  <2>9. sq'[r] = <<x>> /\ sq'[q] = sq[q] /\ IsFun(sq')
    BY <1>2, <2>7, <2>8, <1>i, <1>q DEF WTypes, IsFun
  <2>10. /\ IsFun(mem') /\ mem'[r] = mem[r]
         /\ mem'[q] = [a \in 0 .. 2 * M - 1 |-> mem'[q][a]]
         /\ \A a \in 0 .. 2 * M - 1 : a # b => mem'[q][a] = mem[q][a]
    <3>1. mem[q] = [a \in 0 .. 2 * M - 1 |-> mem[q][a]] /\ 2 * M \in Nat
      BY <1>i, <1>m, <1>q DEF WTypes, HasCells
    <3>2. w.raddr + k - 1 = b
      BY <2>1, <2>4, <1>m DEF b
    <3>3. mem' = [mem EXCEPT ![q] = Store(mem[q], b, <<cell>>)]
      BY <2>1, <3>2
    <3>4. mem'[q] = Store(mem[q], b, <<cell>>) /\ IsFun(mem') /\ mem'[r] = mem[r]
      BY <3>3, <1>i, <1>q DEF WTypes, IsFun
    <3>5. Len(<<cell>>) = 1
      OBVIOUS
    <3>6. b \in Int
      BY <2>4, <1>m DEF b
    <3>7. \A a \in 0 .. 2 * M - 1 : a # b => a \notin b .. b + Len(<<cell>>) - 1
      BY <3>5, <3>6
    <3> DEFINE d == <<cell>>
               m == mem[q]
               n == 2 * M
    <3>8. /\ m = [a \in 0 .. n - 1 |-> m[a]] /\ n \in Nat /\ mem'[q] = Store(m, b, d)
          /\ \A a \in 0 .. n - 1 : a # b => a \notin b .. b + Len(d) - 1
      BY <3>1, <3>4, <3>7
    <3> HIDE DEF d, m, n
    <3>9. /\ mem'[q] = [a \in 0 .. n - 1 |-> mem'[q][a]]
          /\ \A a \in 0 .. n - 1 : a # b => mem'[q][a] = m[a]
      <4>1. /\ Store(m, b, d) = [a \in 0 .. n - 1 |-> Store(m, b, d)[a]]
            /\ \A a \in 0 .. n - 1 : a \notin b .. b + Len(d) - 1 => Store(m, b, d)[a] = m[a]
        <5>1. HasDomain(m, n) /\ n \in Nat
          BY <3>8 DEF HasDomain
        <5>2. /\ HasDomain(Store(m, b, d), n)
              /\ \A a \in 0 .. n - 1 : a \notin b .. b + Len(d) - 1 =>
                     Store(m, b, d)[a] = m[a]
          BY <5>1, StoreKeeps
        <5> QED  BY <5>2 DEF HasDomain
      <4> QED  BY <4>1, <3>8
    <3> QED  BY <3>4, <3>9 DEF m, n
  <2>11. b = M + j - 1 /\ b \in M .. M + len - 1
    BY <2>4, <1>m DEF b
  <2>12. WTypes'
    <3>1. \A p \in {r, q} : mem'[p] = [a \in 0 .. 2 * M - 1 |-> mem'[p][a]]
      BY <2>10, <1>i DEF WTypes, HasCells
    <3>2. \A p \in Ranks : HasCells(p, 2 * max_msg_size)'
      BY <3>1, <1>q, <1>5 DEF HasCells
    <3> QED  BY <2>1, <2>9, <2>10, <3>2, <1>4, <1>5, <1>i DEF WTypes
  <2>13. WOutstanding(q)'
    BY <1>4, <1>5, <2>1, <2>9, <1>i DEF WOutstanding, WWrite
  <2>14. WOutstanding(r)'
    <3>1. ASSUME st = "posted"
          PROVE  \E i \in 1 .. len : left = IF order = "ascending" THEN i .. len ELSE 1 .. i
      <4>0. j \in Nat /\ len \in Nat /\ 1 <= j /\ j <= len
        BY <1>m
      <4>1. CASE order = "ascending"
        <5>1. w.left = j .. len /\ k = j
          BY <4>1, <2>3
        <5>2. j # len
          BY <3>1, <5>1, <4>0
        <5> HIDE DEF len
        <5>3. left = j + 1 .. len /\ j + 1 \in 1 .. len
          BY <5>1, <5>2, <4>0
        <5> QED  BY <4>1, <5>3
      <4>2. CASE order # "ascending"
        <5>1. w.left = 1 .. j /\ k = j
          BY <4>2, <2>3
        <5>2. j # 1
          BY <3>1, <5>1, <4>0
        <5> HIDE DEF len
        <5>3. left = 1 .. j - 1 /\ j - 1 \in 1 .. len
          BY <5>1, <5>2, <4>0
        <5> QED  BY <4>2, <5>3
      <4> QED  BY <4>1, <4>2
    <3>2. PICK y : y = x
      OBVIOUS
    <3>3. y.st = "posted" =>
              \E i \in 1 .. y.len : y.left = IF order' = "ascending" THEN i .. y.len ELSE 1 .. i
      BY <3>1, <3>2, <2>6, <1>4
    <3>4. /\ IsRequest(y) /\ y.op = "WRITE" /\ y.raddr = max_msg_size' /\ y.len = call'[r].size
      BY <3>2, <2>6, <1>5
    <3>5. WWrite(r, y)'
      BY <3>3, <3>4 DEF WWrite
    <3>6. sq'[r] = <<y>> /\ pc'[r] = "poll_send" /\ send_cq'[r] = <<>>
      BY <3>2, <2>1, <2>9, <1>2
    <3> QED  BY <3>5, <3>6 DEF WOutstanding
  <2>15. HeadIs(q, "posted")' = HeadIs(q, "posted") /\ Head(sq'[q]) = Head(sq[q])
    BY <2>9 DEF HeadIs
  <2>16. WBuffer(r)'
    BY <1>5, <2>10, <1>i, <1>q, <2>15 DEF WBuffer, Blank
  <2>17. WSent(r) # WSeen(q)
    BY <1>i, <1>q, <1>1, <2>1 DEF WBuffer, HeadIs
  <2>18. WBuffer(q)'
    <3>1. \A a \in M + len .. 2 * M - 1 : mem'[q][a].v # Value(r)
      <4> SUFFICES ASSUME NEW a \in M + len .. 2 * M - 1  PROVE mem'[q][a].v # Value(r)
        OBVIOUS
      <4>1. a # b /\ a \in 0 .. 2 * M - 1
        BY <2>11, <1>m
      <4> QED  BY <4>1, <2>10, <1>i, <1>q DEF WBuffer, Blank
    <3>2. ASSUME Armed(q)
          PROVE  /\ 1 \in left => mem'[q][M].v # Value(r)
                 /\ len \in left => mem'[q][M + len - 1].v # Value(r)
      <4>1. /\ 1 \in w.left => mem[q][M].v # Value(r)
            /\ len \in w.left => mem[q][M + len - 1].v # Value(r)
        BY <3>2, <2>1, <1>1, <1>i, <1>q DEF WBuffer, Blank, HeadIs
      <4>2. /\ 1 \in left => 1 \in w.left /\ M # b
            /\ len \in left => len \in w.left /\ M + len - 1 # b
        BY <2>4, <2>11, <1>m
      <4>3. M \in 0 .. 2 * M - 1 /\ M + len - 1 \in 0 .. 2 * M - 1
        BY <1>m
      <4> HIDE DEF left
      <4> QED  BY <4>1, <4>2, <4>3, <2>10
    <3>3. Head(sq'[r]) = x
      BY <2>9
    <3> QED  BY <3>1, <3>2, <3>3, <2>6, <2>17, <1>5, <1>q DEF WBuffer, Blank, HeadIs
  <2> QED  BY <1>5, <1>q, <2>12, <2>13, <2>14, <2>16, <2>18 DEF WInv
<1> QED  BY <1>3, <1>9, <1>10, <1>11, <1>12, <1>13 DEF Adapter

\* WInv holds initially.
LEMMA WInitially == ASSUME Init, bench = "write"  PROVE WInv
<1>1. W!Init
  BY DEF Init
<1> DEFINE M == max_msg_size
<1>2. M = MaxMsg
  <2>1. config.max_msg_size \in IF bench \in RdvPrograms THEN {RdvMaxMsg}
                                ELSE IF bench = "read" THEN {MinMsg, MaxMsg} ELSE {MaxMsg}
    BY DEF Init
  <2>2. bench \notin RdvPrograms /\ bench # "read"
    BY DEF RdvPrograms
  <2> QED  BY <2>1, <2>2 DEF max_msg_size
<1>3. M \in Nat /\ MinMsg \in Nat \ {0} /\ MinMsg <= M
  BY <1>2, ProgramsAssumption, BenchAssumption
<1>4. /\ mem = [r \in Ranks |-> [a \in 0 .. 2 * M - 1 |-> [v |-> "none", t |-> 0]]]
      /\ sq = [r \in Ranks |-> <<>>] /\ send_cq = [r \in Ranks |-> <<>>]
      /\ order \in {"ascending", "descending"}
      /\ pc = [r \in Ranks |-> "memset"] /\ call = [r \in Ranks |-> FirstCall]
  BY <1>1 DEF W!Init, W!BenchInit, W!DeviceInit, W!FabricInit, W!Ranks, Ranks, W!max_msg_size,
              max_msg_size, W!Untouched, W!FirstCall, FirstCall
<1>5. FirstCall \in Calls /\ FirstCall.size = MinMsg /\ FirstCall.n = 1
  <2>1. FALSE \in BOOLEAN /\ 0 \in Nat /\ 1 \in Nat \ {0}
    OBVIOUS
  <2>2. FirstCall \in Calls
    BY <1>3, <2>1, Zenon DEF FirstCall, Calls
  <2> QED  BY <2>2 DEF FirstCall
<1>6. WTypes
  BY <1>3, <1>4, <1>5 DEF WTypes, IsFun, HasCells, WLabels
<1>7. \A r \in Ranks : WSent(r) = 0 /\ WSeen(r) = 0 /\ Peer(r) \in Ranks
  BY <1>4, <1>5, PeerFacts DEF WSent, WSeen
<1>8. WOrder /\ SameCalls
  BY <1>4, <1>5, <1>7 DEF WOrder, SameCalls, Ranks
<1>9. \A r \in Ranks : WOutstanding(r)
  BY <1>4 DEF WOutstanding
<1>10. \A r \in Ranks : \A a \in 0 .. 2 * M - 1 : Blank(r, a)
  BY <1>4 DEF Blank, Value
<1>11. ASSUME NEW r \in Ranks  PROVE WBuffer(r)
  <2>1. ~ HeadIs(Peer(r), "posted")
    BY <1>4, <1>7 DEF HeadIs
  <2>2. call[r].size = MinMsg /\ call[Peer(r)].size = MinMsg
    BY <1>4, <1>5, <1>7
  <2>3. \A a \in M + MinMsg - 1 .. 2 * M - 1 : a \in 0 .. 2 * M - 1
    BY <1>3
  <2>4. \A a \in M + MinMsg .. 2 * M - 1 : a \in 0 .. 2 * M - 1
    BY <1>3
  <2>5. M \in 0 .. 2 * M - 1
    BY <1>3
  <2> QED  BY <1>10, <2>1, <2>2, <2>3, <2>4, <2>5 DEF WBuffer
<1> QED  BY <1>6, <1>8, <1>9, <1>11 DEF WInv

\* WInv is an invariant of ibv_pingpong_write.cpp.
THEOREM WriteInvariant == Spec => [](bench = "write" => WInv)
<1> DEFINE I == bench = "write" => WInv
<1>1. Init => I
  BY WInitially
<1>2. I /\ [Next]_allVars => I'
  <2> SUFFICES ASSUME I, [Next]_allVars, bench' = "write"  PROVE WInv'
    OBVIOUS
  <2>1. CASE UNCHANGED allVars
    <3>1. WInv /\ UNCHANGED <<mem, sq, send_cq, order, config, pc, call>>
      BY <2>1 DEF allVars, vars, deviceVars, fabricVars, benchVars
    <3>2. WTypes' /\ WOrder' /\ SameCalls'
      BY <3>1 DEF WInv, WTypes, WOrder, SameCalls, WSent, WSeen, HasCells, max_msg_size
    <3>3. ASSUME NEW p \in Ranks  PROVE WOutstanding(p)' /\ WBuffer(p)'
      BY <3>1 DEF WInv, WOutstanding, WBuffer, WWrite, Blank, Armed, WSent, WSeen, HeadIs,
                  max_msg_size
    <3> QED  BY <3>2, <3>3 DEF WInv
  <2>2. ASSUME NEW r \in Ranks, RankStep(r)  PROVE WInv'
    <3>1. bench = "write" /\ W!RankStep(r)
      BY <2>2 DEF RankStep
    <3> QED  BY <3>1, WRankKept
  <2>3. ASSUME NEW r \in Ranks, AdapterWork(r) \/ Loss(r)  PROVE WInv'
    <3>1. bench = "write" /\ (Adapter(r) \/ LoseAck(r)) /\ UNCHANGED <<config, pc, call>>
      BY <2>3 DEF AdapterWork, AdapterStep, Loss, LossStep, benchVars
    <3> QED  BY <3>1, WAdapterKept
  <2> QED  BY <2>1, <2>2, <2>3 DEF Next, Terminating
<1> QED  BY <1>1, <1>2, PTL DEF Spec

\* A rank of ibv_pingpong_write.cpp that sets its own letter in the buffer it
\* polls never wipes out data.
THEOREM ResetNeverWipes == Spec => []ResetIsSafe
<1>1. (bench = "write" => WInv) => ResetIsSafe
  <2> SUFFICES ASSUME WInv, NEW r \in Ranks, pc[r] = "reset"
               PROVE  ~ HeadIs(Peer(r), "posted")
    BY DEF ResetIsSafe, W!ResetIsSafe, W!Ranks, Ranks, W!HeadIs, HeadIs, W!Peer, Peer
  <2> QED  BY WCounts DEF WInv, WBuffer
<1> QED  BY <1>1, WriteInvariant, PTL

----------------------------------------------------------------------------
\* The contexts of the three rendezvous programs.

\* Every step of ibv_pingpong_rdv_write.cpp keeps the contexts accounted for.
LEMMA RWContextsKept ==
    ASSUME RWContexts, bench = "rdv_write", [Next]_allVars
    PROVE  RWContexts'
<1>s. ASSUME UNCHANGED <<pc, heap>>  PROVE RWContexts'
  BY <1>s DEF RWContexts, Holds, IsFun
<1>1. ASSUME NEW r \in Ranks, RankStep(r)  PROVE RWContexts'
  <2>1. RW!RankStep(r)
    BY <1>1 DEF RankStep
  <2>2. CASE UNCHANGED <<pc, heap>>
    BY <2>2, <1>s
  <2>3. CASE RWGoes(r) /\ HeapStep(r, {"post_rts", "handle_rts"}, {"handle_rtr"}, {"poll_write", "handle_fin"})
    <3>1. /\ pc' \in [Ranks -> RWLabels] /\ pc'[Peer(r)] = pc[Peer(r)]
          /\ pc'[r] \in RWHeld <=> pc[r] \in {"post_rts", "handle_rts"} \cup (RWHeld \ {"poll_write", "handle_fin"})
      BY <2>3, RWMoves DEF RWContexts
    <3>2. /\ {"post_rts", "handle_rts"} \cap RWHeld = {} /\ {"poll_write", "handle_fin"} \subseteq RWHeld
          /\ {"handle_rtr"} \cap {"poll_write", "handle_fin"} = {} /\ {"post_rts", "handle_rts"} \cap {"poll_write", "handle_fin"} = {} /\ {"handle_rtr"} \cap {"post_rts", "handle_rts"} = {}
      BY DEF RWHeld
    <3>3. IsFun(heap) /\ \A p \in Ranks : Holds(p, RWHeld)
      BY DEF RWContexts
    <3>4. IsFun(heap') /\ \A p \in Ranks : Holds(p, RWHeld)'
      BY <2>3, <3>1, <3>2, <3>3, HeapFollows
    <3> QED  BY <3>1, <3>4 DEF RWContexts
  <2> QED  BY <2>1, <2>2, <2>3, RWHeapSteps DEF RWContexts
<1>2. ASSUME NEW r \in Ranks, AdapterWork(r) \/ Loss(r)  PROVE RWContexts'
  BY <1>2, <1>s DEF AdapterWork, AdapterStep, Loss, LossStep, archiveVars, rdvVars, benchVars
<1>3. ASSUME UNCHANGED allVars  PROVE RWContexts'
  BY <1>3, <1>s DEF allVars, vars, archiveVars, rdvVars, benchVars
<1> QED  BY <1>1, <1>2, <1>3 DEF Next, Terminating

\* RWContexts holds initially.
LEMMA RWContextsInitially ==
    ASSUME Init, bench = "rdv_write"  PROVE RWContexts
<1>0. RW!Init /\ HeapInit
  BY DEF Init
<1>1. pc = [r \in Ranks |-> "setup"] /\ heap = [r \in Ranks |-> [c \in {} |-> 0]]
  BY <1>0 DEF HeapInit, RW!Init, RW!RdvInit, RW!BenchInit, RW!Ranks, Ranks
<1>2. \A r \in Ranks : pc[r] = "setup" /\ DOMAIN heap[r] = {}
  BY <1>1
<1>3. IsFun(heap) /\ pc \in [Ranks -> RWLabels]
  BY <1>1 DEF IsFun, RWLabels
<1> QED  BY <1>2, <1>3 DEF RWContexts, Holds, RWHeld

\* Every step of ibv_pingpong_rdv_read.cpp keeps the contexts accounted for.
LEMMA RRContextsKept ==
    ASSUME RRContexts, bench = "rdv_read", [Next]_allVars
    PROVE  RRContexts'
<1>s. ASSUME UNCHANGED <<pc, heap>>  PROVE RRContexts'
  BY <1>s DEF RRContexts, Holds, IsFun
<1>1. ASSUME NEW r \in Ranks, RankStep(r)  PROVE RRContexts'
  <2>1. RR!RankStep(r)
    BY <1>1 DEF RankStep
  <2>2. CASE UNCHANGED <<pc, heap>>
    BY <2>2, <1>s
  <2>3. CASE RRGoes(r) /\ HeapStep(r, {"post_rts", "handle_rts"}, {}, {"poll_read", "handle_fin"})
    <3>1. /\ pc' \in [Ranks -> RRLabels] /\ pc'[Peer(r)] = pc[Peer(r)]
          /\ pc'[r] \in RRHeld <=> pc[r] \in {"post_rts", "handle_rts"} \cup (RRHeld \ {"poll_read", "handle_fin"})
      BY <2>3, RRMoves DEF RRContexts
    <3>2. /\ {"post_rts", "handle_rts"} \cap RRHeld = {} /\ {"poll_read", "handle_fin"} \subseteq RRHeld
          /\ {} \cap {"poll_read", "handle_fin"} = {} /\ {"post_rts", "handle_rts"} \cap {"poll_read", "handle_fin"} = {} /\ {} \cap {"post_rts", "handle_rts"} = {}
      BY DEF RRHeld
    <3>3. IsFun(heap) /\ \A p \in Ranks : Holds(p, RRHeld)
      BY DEF RRContexts
    <3>4. IsFun(heap') /\ \A p \in Ranks : Holds(p, RRHeld)'
      BY <2>3, <3>1, <3>2, <3>3, HeapFollows
    <3> QED  BY <3>1, <3>4 DEF RRContexts
  <2> QED  BY <2>1, <2>2, <2>3, RRHeapSteps DEF RRContexts
<1>2. ASSUME NEW r \in Ranks, AdapterWork(r) \/ Loss(r)  PROVE RRContexts'
  BY <1>2, <1>s DEF AdapterWork, AdapterStep, Loss, LossStep, archiveVars, rdvVars, benchVars
<1>3. ASSUME UNCHANGED allVars  PROVE RRContexts'
  BY <1>3, <1>s DEF allVars, vars, archiveVars, rdvVars, benchVars
<1> QED  BY <1>1, <1>2, <1>3 DEF Next, Terminating

\* RRContexts holds initially.
LEMMA RRContextsInitially ==
    ASSUME Init, bench = "rdv_read"  PROVE RRContexts
<1>0. RR!Init /\ HeapInit
  BY DEF Init
<1>1. pc = [r \in Ranks |-> "setup"] /\ heap = [r \in Ranks |-> [c \in {} |-> 0]]
  BY <1>0 DEF HeapInit, RR!Init, RR!RdvInit, RR!BenchInit, RR!Ranks, Ranks
<1>2. \A r \in Ranks : pc[r] = "setup" /\ DOMAIN heap[r] = {}
  BY <1>1
<1>3. IsFun(heap) /\ pc \in [Ranks -> RRLabels]
  BY <1>1 DEF IsFun, RRLabels
<1> QED  BY <1>2, <1>3 DEF RRContexts, Holds, RRHeld

\* The configuration of a rendezvous program, which posts nothing inline.
LEMMA RdvConfig ==
    ASSUME Init, bench \in RdvPrograms \ InlinePrograms
    PROVE  max_msg_size \in Nat /\ config.inline_size = 0
<1>1. /\ config.max_msg_size \in IF bench \in RdvPrograms THEN {RdvMaxMsg}
                                 ELSE IF bench = "read" THEN {MinMsg, MaxMsg} ELSE {MaxMsg}
      /\ config.inline_size \in {IF bench \in InlinePrograms THEN InlineSize ELSE 0}
  BY DEF Init
<1> QED  BY <1>1, ProgramsAssumption DEF max_msg_size

\* The first call of the lambda.
LEMMA FirstCallFacts == FirstCall \in Calls /\ FirstCall.n = 1
<1>1. FALSE \in BOOLEAN /\ 0 \in Nat /\ 1 \in Nat \ {0} /\ MinMsg \in Nat \ {0}
  BY BenchAssumption
<1>2. FirstCall \in Calls
  BY <1>1, Zenon DEF FirstCall, Calls
<1> QED  BY <1>2 DEF FirstCall

\* The program begins in the invariant.
LEMMA RIInitially == ASSUME Init, bench = "rdv_write_imm"  PROVE RIInv
<1>0. RWI!Init /\ HeapInit /\ RWI!ArchiveInit
  BY DEF Init
<1>1. max_msg_size \in Nat /\ config.inline_size = 0
  BY RdvConfig DEF RdvPrograms, InlinePrograms
<1>2. /\ mem = [r \in Ranks |-> [a \in 0 .. RISize - 1 |-> [v |-> "none", t |-> 0]]]
      /\ sq = [r \in Ranks |-> <<>>] /\ send_cq = [r \in Ranks |-> <<>>]
      /\ srq = [r \in Ranks |-> <<>>] /\ recv_cq = [r \in Ranks |-> <<>>]
      /\ pc = [r \in Ranks |-> "setup"] /\ call = [r \in Ranks |-> FirstCall]
  BY <1>0 DEF RWI!Init, RWI!RdvInit, RWI!BenchInit, RWI!DeviceInit, RWI!FabricInit, RWI!Ranks,
              Ranks, RWI!max_msg_size, max_msg_size, RWI!Untouched, RWI!FirstCall, FirstCall,
              RISize
<1>3. /\ heap = [r \in Ranks |-> [c \in {} |-> 0]]
      /\ wc = [r \in Ranks |-> [imm |-> "none", opcode |-> "none", wr_id |-> 0]]
      /\ recv_ctx_archive = [r \in Ranks |-> EmptyArchive]
  BY <1>0 DEF HeapInit, RWI!ArchiveInit, RWI!Ranks, Ranks, RWI!LCM_ARCHIVE_EMPTY,
              LCM_ARCHIVE_EMPTY, EmptyArchive, RIKeys
<1>4. FirstCall \in Calls
  BY FirstCallFacts
<1>5. RITypes
  <2>1. RdvFuns /\ IsFun(recv_ctx_archive)
    BY <1>2, <1>3 DEF RdvFuns, AreFuns, IsFun
  <2>2. pc \in [Ranks -> RILabels] /\ call \in [Ranks -> Calls]
    BY <1>2, <1>4 DEF RILabels
  <2> QED  BY <1>1, <2>1, <2>2 DEF RITypes
<1>6. ASSUME NEW r \in Ranks
      PROVE  RIMemory(r) /\ RIQueue(r) /\ RIReceived(r) /\ RIContexts(r)
  <2>1. /\ mem[r] = [a \in 0 .. RISize - 1 |-> [v |-> "none", t |-> 0]]
        /\ sq[r] = <<>> /\ send_cq[r] = <<>> /\ srq[r] = <<>> /\ recv_cq[r] = <<>>
        /\ pc[r] = "setup" /\ heap[r] = [c \in {} |-> 0] /\ recv_ctx_archive[r] = EmptyArchive
    BY <1>2, <1>3
  <2>2. RIMemory(r)
    BY <2>1 DEF RIMemory, HasDomain, RICell
  <2>3. RIQueue(r) /\ RIContexts(r)
    BY <2>1 DEF RIQueue, RIContexts
  <2>4. <<>> \in Seq({Receive(2)}) /\ <<>> \in Seq(RIArrivals)
    OBVIOUS
  <2>5. RIReceived(r)
    BY <2>1, <2>4 DEF RIReceived, Receives
  <2> QED  BY <2>2, <2>3, <2>5
<1> QED  BY <1>5, <1>6 DEF RIInv

\* The invariant of ibv_pingpong_rdv_write_imm.cpp: whatever is on its way, in
\* a queue or in a copy of a message, carries keys of the archive, and each
\* rank has the contexts, and the archive entries, of where it is.
THEOREM RdvWriteImmInvariant == Spec => [](bench = "rdv_write_imm" => RIInv)
<1> DEFINE I == bench = "rdv_write_imm" => RIInv
<1>1. Init => I
  BY RIInitially
<1>2. Pool!PoolExact /\ I /\ [Next]_allVars => I'
  <2> SUFFICES ASSUME Pool!PoolExact, I, [Next]_allVars, bench' = "rdv_write_imm"  PROVE RIInv'
    OBVIOUS
  <2>1. CASE UNCHANGED allVars
    <3>1. RIInv /\ UNCHANGED <<mem, sq, srq, send_cq, recv_cq, config, pc, call, heap, wc, recv_ctx_archive>>
      BY <2>1 DEF allVars, vars, deviceVars, fabricVars, benchVars, archiveVars, rdvVars
    <3>2. RITypes'
      BY <3>1 DEF RIInv, RITypes, RdvFuns, AreFuns, IsFun, max_msg_size
    <3>3. ASSUME NEW p \in Ranks
          PROVE  RIMemory(p)' /\ RIQueue(p)' /\ RIReceived(p)' /\ RIContexts(p)'
      BY <3>1, RIFrame DEF RIInv
    <3> QED  BY <3>2, <3>3 DEF RIInv
  <2>2. ASSUME NEW r \in Ranks, RankStep(r)  PROVE RIInv'
    <3>1. bench = "rdv_write_imm" /\ RWI!RankStep(r)
      BY <2>2 DEF RankStep
    <3> QED  BY <3>1, RIRankKept, PostedInRange
  <2>3. ASSUME NEW r \in Ranks, AdapterWork(r) \/ Loss(r)  PROVE RIInv'
    <3>1. /\ bench = "rdv_write_imm" /\ (Adapter(r) \/ LoseAck(r))
          /\ UNCHANGED <<config, pc, call, heap, wc, recv_ctx_archive>>
      BY <2>3 DEF AdapterWork, AdapterStep, Loss, LossStep, benchVars, archiveVars, rdvVars
    <3> QED  BY <3>1, RIAdapterKept
  <2> QED  BY <2>1, <2>2, <2>3 DEF Next, Terminating
<1> QED  BY <1>1, <1>2, BenchmarksReceive, PTL DEF Spec

\* The contexts of ibv_pingpong_rdv_write.cpp and ibv_pingpong_rdv_read.cpp.
RdvHeaps == /\ bench = "rdv_write" => RWContexts
            /\ bench = "rdv_read" => RRContexts

\* Each rank of the two programs holds the contexts of where it is.
THEOREM RdvHeapsInvariant == Spec => []RdvHeaps
<1>1. Init => RdvHeaps
  BY RWContextsInitially, RRContextsInitially DEF RdvHeaps
<1>2. RdvHeaps /\ [Next]_allVars => RdvHeaps'
  <2> SUFFICES ASSUME RdvHeaps, [Next]_allVars  PROVE RdvHeaps'
    OBVIOUS
  <2>1. bench' = bench
    BY DEF Next, RankStep, AdapterWork, Loss, Terminating, allVars
  <2> QED  BY <2>1, RWContextsKept, RRContextsKept DEF RdvHeaps
<1> QED  BY <1>1, <1>2, PTL DEF Spec

\* The contexts a call of a rendezvous allocates are freed by its end on either
\* side, and the archive of ibv_pingpong_rdv_write_imm.cpp holds the live
\* receive contexts and no other.
THEOREM ContextsNeverLeak == Spec => []ContextsAccounted
<1>1. RdvHeaps /\ (bench = "rdv_write_imm" => RIInv) => ContextsAccounted
  <2> SUFFICES ASSUME RdvHeaps, bench = "rdv_write_imm" => RIInv  PROVE ContextsAccounted
    OBVIOUS
  <2>f. ASSUME NEW S, NEW s \in Seq(S), NEW t \in Seq(S), Len(s) # 0
        PROVE  (s \o t)[1] = s[1]
    BY <2>f, Concatenated
  <2>1. ASSUME bench = "rdv_write"  PROVE RW!NoLeak
    <3>1. \A r \in Ranks : RW!Body(r)[1] \in {"fill", "recv_rts"}
      <4>1. /\ RW!Sender[1] = "fill" /\ RW!Receiver[1] = "recv_rts"
            /\ Len(RW!Sender) # 0 /\ Len(RW!Receiver) # 0
            /\ RW!Sender \in Seq(RWLambda) /\ RW!Receiver \in Seq(RWLambda)
        BY DEF RW!Sender, RW!Receiver, RWLambda
      <4>2. (RW!Sender \o RW!Receiver)[1] = "fill" /\ (RW!Receiver \o RW!Sender)[1] = "recv_rts"
        BY <4>1, <2>f
      <4> QED  BY <4>2 DEF RW!Body, RW!Halves
    <3>2. \A r \in Ranks : pc[r] \in {"fill", "recv_rts", "exited"} => DOMAIN heap[r] = {}
      BY <2>1 DEF RdvHeaps, RWContexts, Holds, RWHeld
    <3> QED  BY <3>1, <3>2 DEF RW!NoLeak, RW!Ranks, Ranks
  <2>2. ASSUME bench = "rdv_read"  PROVE RR!NoLeak
    <3>1. \A r \in Ranks : RR!Body(r)[1] \in {"fill", "recv_rts"}
      <4>1. /\ RR!Sender[1] = "fill" /\ RR!Receiver[1] = "recv_rts"
            /\ Len(RR!Sender) # 0 /\ Len(RR!Receiver) # 0
            /\ RR!Sender \in Seq(RRLambda) /\ RR!Receiver \in Seq(RRLambda)
        BY DEF RR!Sender, RR!Receiver, RRLambda
      <4>2. (RR!Sender \o RR!Receiver)[1] = "fill" /\ (RR!Receiver \o RR!Sender)[1] = "recv_rts"
        BY <4>1, <2>f
      <4> QED  BY <4>2 DEF RR!Body, RR!Halves
    <3>2. \A r \in Ranks : pc[r] \in {"fill", "recv_rts", "exited"} => DOMAIN heap[r] = {}
      BY <2>2 DEF RdvHeaps, RRContexts, Holds, RRHeld
    <3> QED  BY <3>1, <3>2 DEF RR!NoLeak, RR!Ranks, Ranks
  <2>3. ASSUME bench = "rdv_write_imm"  PROVE RWI!NoLeak /\ RWI!ArchiveHoldsRecvCtx
    <3>1. \A r \in Ranks : RWI!Body(r)[1] \in {"fill", "recv_rts"}
      <4>1. /\ RWI!Sender[1] = "fill" /\ RWI!Receiver[1] = "recv_rts"
            /\ Len(RWI!Sender) # 0 /\ Len(RWI!Receiver) # 0
            /\ RWI!Sender \in Seq(RILambda) /\ RWI!Receiver \in Seq(RILambda)
        BY DEF RWI!Sender, RWI!Receiver, RILambda
      <4>2. (RWI!Sender \o RWI!Receiver)[1] = "fill" /\ (RWI!Receiver \o RWI!Sender)[1] = "recv_rts"
        BY <4>1, <2>f
      <4> QED  BY <4>2 DEF RWI!Body, RWI!Halves
    <3>2. \A r \in Ranks : RIContexts(r)
      BY <2>3 DEF RIInv
    <3>3. \A r \in Ranks : pc[r] \in {"fill", "recv_rts", "exited"} => DOMAIN heap[r] = {}
      BY <3>2 DEF RIContexts
    <3>4. RWI!NoLeak
      BY <3>1, <3>3 DEF RWI!NoLeak, RWI!Ranks, Ranks
    <3>5. ASSUME NEW r \in Ranks
          PROVE  {recv_ctx_archive[r][k] : k \in RIKeys} \ {LCM_ARCHIVE_EMPTY}
                     = {c \in DOMAIN heap[r] : heap[r][c].kind = "recv"}
      <4>1. CASE pc[r] \in {"poll_rts", "recv_rtr", "handle_rtr"}
        BY <4>1, <3>2 DEF RIContexts, HasContext, EmptyArchive
      <4>2. CASE pc[r] \in {"poll_rtr", "recv_write", "handle_write"}
        <5>1. PICK c \in Ctx, k \in RIKeys :
                  HasContext(r, c, "recv") /\ recv_ctx_archive[r] = [EmptyArchive EXCEPT ![k] = c]
          BY <4>2, <3>2 DEF RIContexts
        <5>2. c # LCM_ARCHIVE_EMPTY
          BY CtxAssumption
        <5>3. \A j \in RIKeys : recv_ctx_archive[r][j] = IF j = k THEN c ELSE LCM_ARCHIVE_EMPTY
          BY <5>1 DEF EmptyArchive
        <5>4. {recv_ctx_archive[r][j] : j \in RIKeys} \ {LCM_ARCHIVE_EMPTY} = {c}
          BY <5>2, <5>3
        <5>5. {x \in DOMAIN heap[r] : heap[r][x].kind = "recv"} = {c}
          BY <5>1 DEF HasContext
        <5> QED  BY <5>4, <5>5
      <4>3. CASE pc[r] \notin {"poll_rts", "recv_rtr", "handle_rtr", "poll_rtr", "recv_write",
                               "handle_write"}
        BY <4>3, <3>2 DEF RIContexts, EmptyArchive
      <4> QED  BY <4>1, <4>2, <4>3
    <3>6. RWI!ArchiveHoldsRecvCtx
      BY <3>5 DEF RWI!ArchiveHoldsRecvCtx, RWI!Ranks, Ranks, RWI!LCM_ARCHIVE_EMPTY,
                  LCM_ARCHIVE_EMPTY, RIKeys
    <3> QED  BY <3>4, <3>6
  <2> QED  BY <2>1, <2>2, <2>3 DEF ContextsAccounted
<1> QED  BY <1>1, RdvHeapsInvariant, RdvWriteImmInvariant, PTL

----------------------------------------------------------------------------
\* The control messages of the three rendezvous programs.

\* Before anything is posted the queues are empty and nothing has arrived.
LEMMA ChannelsInitially ==
    ASSUME NEW p, NEW line, NEW size, NEW in, NEW out, NEW x, NEW h, NEW c,
           mem = [r \in Ranks |-> [a \in 0 .. size - 1 |-> x]],
           sq = [r \in Ranks |-> <<>>], send_cq = [r \in Ranks |-> <<>>],
           srq = [r \in Ranks |-> <<>>], recv_cq = [r \in Ranks |-> <<>>],
           heap = [r \in Ranks |-> h], wc = [r \in Ranks |-> c],
           \A r \in Ranks : in[r] = 0 /\ out[r] = 0
    PROVE  Channels(p, line, size, in, out)
<1>1. RdvFuns
  BY DEF RdvFuns, AreFuns, IsFun
<1>2. ASSUME NEW r \in Ranks
      PROVE  /\ HasDomain(mem[r], size) /\ Receives(r, line) /\ IsSeq(recv_cq[r])
             /\ Outstanding(p, r, line, out[r], sq[r], send_cq[r], mem[r])
             /\ Link(p, r, in[r], out[Peer(r)], recv_cq[r], wc[r], mem[r][line],
                     sq[Peer(r)], send_cq[Peer(r)])
  <2>1. Peer(r) \in Ranks
    BY PeerFacts
  <2>2. /\ sq[r] = <<>> /\ send_cq[r] = <<>> /\ srq[r] = <<>> /\ recv_cq[r] = <<>>
        /\ sq[Peer(r)] = <<>> /\ in[r] = 0 /\ out[r] = 0 /\ out[Peer(r)] = 0
    BY <2>1
  <2>3. HasDomain(mem[r], size)
    BY DEF HasDomain
  <2>4. <<>> \in Seq({Receive(line)}) /\ <<>> \in Seq({<<>>[k] : k \in DOMAIN <<>>})
    OBVIOUS
  <2>5. Receives(r, line) /\ IsSeq(recv_cq[r])
    BY <2>2, <2>4 DEF Receives, IsSeq
  <2>6. Outstanding(p, r, line, out[r], sq[r], send_cq[r], mem[r])
    BY <2>2 DEF Outstanding
  <2>7. Flying(<<>>) = 0 /\ Len(<<>>) = 0
    BY DEF Flying
  <2>8. Link(p, r, in[r], out[Peer(r)], recv_cq[r], wc[r], mem[r][line],
             sq[Peer(r)], send_cq[Peer(r)])
    BY <2>2, <2>7 DEF Link
  <2> QED  BY <2>3, <2>5, <2>6, <2>8
<1> QED  BY <1>1, <1>2 DEF Channels

\* RWChannel holds initially.
LEMMA RWChannelInitially == ASSUME Init, bench = "rdv_write"  PROVE RWChannel
<1>0. RW!Init /\ HeapInit
  BY DEF Init
<1>1. max_msg_size \in Nat /\ config.inline_size = 0
  BY RdvConfig DEF RdvPrograms, InlinePrograms
<1>2. PICK size : size = 4 + 2 * max_msg_size
  OBVIOUS
<1>3. /\ mem = [r \in Ranks |-> [a \in 0 .. size - 1 |-> [v |-> "none", t |-> 0]]]
      /\ sq = [r \in Ranks |-> <<>>] /\ send_cq = [r \in Ranks |-> <<>>]
      /\ srq = [r \in Ranks |-> <<>>] /\ recv_cq = [r \in Ranks |-> <<>>]
      /\ pc = [r \in Ranks |-> "setup"] /\ call = [r \in Ranks |-> FirstCall]
  BY <1>0, <1>2 DEF RW!Init, RW!RdvInit, RW!BenchInit, RW!DeviceInit,
              RW!FabricInit, RW!Ranks, Ranks, RW!max_msg_size, max_msg_size,
              RW!Untouched, RW!FirstCall, FirstCall
<1>4. /\ heap = [r \in Ranks |-> [c \in {} |-> 0]]
      /\ wc = [r \in Ranks |-> [imm |-> "none", opcode |-> "none", wr_id |-> 0]]
  BY <1>0 DEF HeapInit
<1>5. FirstCall \in Calls /\ FirstCall.n = 1
  BY FirstCallFacts
<1>6. pc \in [Ranks -> RWLabels] /\ call \in [Ranks -> Calls]
  BY <1>3, <1>5 DEF RWLabels
<1>7. PICK in, out : in = [r \in Ranks |-> RWIn(r)] /\ out = [r \in Ranks |-> RWOut(r)]
  OBVIOUS
<1>8. \A r \in Ranks : in[r] = 0 /\ out[r] = 0
  BY <1>3, <1>5, <1>7 DEF RWIn, RWOut, Counted
<1>9. Channels("rdv_write", 3, size, in, out)
  BY <1>3, <1>4, <1>8, ChannelsInitially
<1>10. ASSUME NEW r \in Ranks  PROVE sq[r] = <<>> /\ send_cq[r] = <<>> /\ RWSized(r)
  BY <1>3, <1>4 DEF RWSized
<1> QED  BY <1>1, <1>2, <1>6, <1>7, <1>9, <1>10 DEF RWChannel

\* RRChannel holds initially.
LEMMA RRChannelInitially == ASSUME Init, bench = "rdv_read"  PROVE RRChannel
<1>0. RR!Init /\ HeapInit
  BY DEF Init
<1>1. max_msg_size \in Nat /\ config.inline_size = 0
  BY RdvConfig DEF RdvPrograms, InlinePrograms
<1>2. PICK size : size = 3 + 2 * max_msg_size
  OBVIOUS
<1>3. /\ mem = [r \in Ranks |-> [a \in 0 .. size - 1 |-> [v |-> "none", t |-> 0]]]
      /\ sq = [r \in Ranks |-> <<>>] /\ send_cq = [r \in Ranks |-> <<>>]
      /\ srq = [r \in Ranks |-> <<>>] /\ recv_cq = [r \in Ranks |-> <<>>]
      /\ pc = [r \in Ranks |-> "setup"] /\ call = [r \in Ranks |-> FirstCall]
  BY <1>0, <1>2 DEF RR!Init, RR!RdvInit, RR!BenchInit, RR!DeviceInit,
              RR!FabricInit, RR!Ranks, Ranks, RR!max_msg_size, max_msg_size,
              RR!Untouched, RR!FirstCall, FirstCall
<1>4. /\ heap = [r \in Ranks |-> [c \in {} |-> 0]]
      /\ wc = [r \in Ranks |-> [imm |-> "none", opcode |-> "none", wr_id |-> 0]]
  BY <1>0 DEF HeapInit
<1>5. FirstCall \in Calls /\ FirstCall.n = 1
  BY FirstCallFacts
<1>6. pc \in [Ranks -> RRLabels] /\ call \in [Ranks -> Calls]
  BY <1>3, <1>5 DEF RRLabels
<1>7. PICK in, out : in = [r \in Ranks |-> RRIn(r)] /\ out = [r \in Ranks |-> RROut(r)]
  OBVIOUS
<1>8. \A r \in Ranks : in[r] = 0 /\ out[r] = 0
  BY <1>3, <1>5, <1>7 DEF RRIn, RROut, Counted
<1>9. Channels("rdv_read", 2, size, in, out)
  BY <1>3, <1>4, <1>8, ChannelsInitially
<1>10. ASSUME NEW r \in Ranks  PROVE sq[r] = <<>> /\ send_cq[r] = <<>> /\ RRNamed(r)
  BY <1>3, <1>4 DEF RRNamed, RRAnnounced
<1> QED  BY <1>1, <1>2, <1>6, <1>7, <1>9, <1>10 DEF RRChannel

\* RIChannel holds initially.
LEMMA RIChannelInitially == ASSUME Init, bench = "rdv_write_imm"  PROVE RIChannel
<1>0. RWI!Init /\ HeapInit
  BY DEF Init
<1>1. max_msg_size \in Nat /\ config.inline_size = 0
  BY RdvConfig DEF RdvPrograms, InlinePrograms
<1>2. PICK size : size = RISize
  OBVIOUS
<1>3. /\ mem = [r \in Ranks |-> [a \in 0 .. size - 1 |-> [v |-> "none", t |-> 0]]]
      /\ sq = [r \in Ranks |-> <<>>] /\ send_cq = [r \in Ranks |-> <<>>]
      /\ srq = [r \in Ranks |-> <<>>] /\ recv_cq = [r \in Ranks |-> <<>>]
      /\ pc = [r \in Ranks |-> "setup"] /\ call = [r \in Ranks |-> FirstCall]
  BY <1>0, <1>2 DEF RWI!Init, RWI!RdvInit, RWI!BenchInit, RWI!DeviceInit,
              RWI!FabricInit, RISize, RWI!Ranks, Ranks, RWI!max_msg_size, max_msg_size,
              RWI!Untouched, RWI!FirstCall, FirstCall
<1>4. /\ heap = [r \in Ranks |-> [c \in {} |-> 0]]
      /\ wc = [r \in Ranks |-> [imm |-> "none", opcode |-> "none", wr_id |-> 0]]
  BY <1>0 DEF HeapInit
<1>5. FirstCall \in Calls /\ FirstCall.n = 1
  BY FirstCallFacts
<1>6. pc \in [Ranks -> RILabels] /\ call \in [Ranks -> Calls]
  BY <1>3, <1>5 DEF RILabels
<1>7. PICK in, out : in = [r \in Ranks |-> RIIn(r)] /\ out = [r \in Ranks |-> RIOut(r)]
  OBVIOUS
<1>8. \A r \in Ranks : in[r] = 0 /\ out[r] = 0
  BY <1>3, <1>5, <1>7 DEF RIIn, RIOut, Counted
<1>9. Channels("rdv_write_imm", 2, size, in, out)
  BY <1>3, <1>4, <1>8, ChannelsInitially
<1> QED  BY <1>2, <1>7, <1>9 DEF RIChannel

\* The messages on their way between the ranks of each rendezvous program.
RdvLines == /\ bench = "rdv_write" => RWChannel
            /\ bench = "rdv_write_imm" => RIChannel
            /\ bench = "rdv_read" => RRChannel

\* A step that changes nothing leaves them where they are.
LEMMA RdvLinesRest == ASSUME RdvLines, UNCHANGED allVars  PROVE RdvLines'
<1>1. /\ UNCHANGED <<bench, config, pc, call>>
      /\ UNCHANGED <<mem, sq, srq, send_cq, recv_cq, heap, wc>>
  BY DEF allVars, vars, deviceVars, fabricVars, benchVars, archiveVars, rdvVars
<1>2. ASSUME RWChannel  PROVE RWChannel'
  <2>1. PICK size, in, out : /\ size = 4 + 2 * max_msg_size
                             /\ in = [r \in Ranks |-> RWIn(r)] /\ out = [r \in Ranks |-> RWOut(r)]
    OBVIOUS
  <2>2. /\ size = 4 + 2 * max_msg_size'
        /\ in = [r \in Ranks |-> RWIn(r)'] /\ out = [r \in Ranks |-> RWOut(r)']
    BY <1>1, <2>1 DEF RWIn, RWOut, max_msg_size
  <2>3. Channels("rdv_write", 3, size, in, out)'
    BY <1>1, <1>2, <2>1, ChannelsRest DEF RWChannel
  <2>4. \A r \in Ranks : RWSized(r)'
    BY <1>1, <1>2 DEF RWChannel, RWSized
  <2> QED  BY <1>1, <1>2, <2>2, <2>3, <2>4 DEF RWChannel, max_msg_size
<1>3. ASSUME RIChannel  PROVE RIChannel'
  <2>1. PICK size, in, out : /\ size = RISize
                             /\ in = [r \in Ranks |-> RIIn(r)] /\ out = [r \in Ranks |-> RIOut(r)]
    OBVIOUS
  <2>2. /\ size = RISize'
        /\ in = [r \in Ranks |-> RIIn(r)'] /\ out = [r \in Ranks |-> RIOut(r)']
    BY <1>1, <2>1 DEF RIIn, RIOut, RISize, max_msg_size
  <2>3. Channels("rdv_write_imm", 2, size, in, out)'
    BY <1>1, <1>3, <2>1, ChannelsRest DEF RIChannel
  <2> QED  BY <2>2, <2>3 DEF RIChannel
<1>4. ASSUME RRChannel  PROVE RRChannel'
  <2>1. PICK size, in, out : /\ size = 3 + 2 * max_msg_size
                             /\ in = [r \in Ranks |-> RRIn(r)] /\ out = [r \in Ranks |-> RROut(r)]
    OBVIOUS
  <2>2. /\ size = 3 + 2 * max_msg_size'
        /\ in = [r \in Ranks |-> RRIn(r)'] /\ out = [r \in Ranks |-> RROut(r)']
    BY <1>1, <2>1 DEF RRIn, RROut, max_msg_size
  <2>3. Channels("rdv_read", 2, size, in, out)'
    BY <1>1, <1>4, <2>1, ChannelsRest DEF RRChannel
  <2>4. \A r \in Ranks : RRNamed(r)'
    BY <1>1, <1>4 DEF RRChannel, RRNamed
  <2> QED  BY <1>1, <1>4, <2>2, <2>3, <2>4 DEF RRChannel, max_msg_size
<1> QED  BY <1>1, <1>2, <1>3, <1>4 DEF RdvLines

\* No control message is lost, duplicated or overtaken, and the last one that
\* arrived is what the shared cache line holds.
THEOREM ControlInOrder == Spec => []RdvLines
<1> DEFINE I == bench = "rdv_write_imm" => RIInv
<1>1. Init => RdvLines
  BY RWChannelInitially, RIChannelInitially, RRChannelInitially DEF RdvLines
<1>2. Pool!PoolExact /\ I /\ RdvHeaps /\ RdvLines /\ [Next]_allVars => RdvLines'
  <2> SUFFICES ASSUME Pool!PoolExact, I, RdvHeaps, RdvLines, [Next]_allVars  PROVE RdvLines'
    OBVIOUS
  <2>1. CASE UNCHANGED allVars
    BY <2>1, RdvLinesRest
  <2>2. ASSUME NEW r \in Ranks, RankStep(r)  PROVE RdvLines'
    <3>1. bench' = bench /\ posted_recv_num[r] \in 0 .. MaxRecv
      BY <2>2, PostedInRange DEF RankStep
    <3>2. ASSUME bench = "rdv_write"  PROVE RWChannel'
      <4>1. RW!RankStep(r) /\ RWChannel
        BY <2>2, <3>2 DEF RankStep, RdvLines
      <4> QED  BY <3>1, <4>1, RWChannelUsed
    <3>3. ASSUME bench = "rdv_write_imm"  PROVE RIChannel'
      <4>1. RWI!RankStep(r) /\ RIChannel /\ RIInv
        BY <2>2, <3>3 DEF RankStep, RdvLines
      <4> QED  BY <3>1, <4>1, RIChannelUsed
    <3>4. ASSUME bench = "rdv_read"  PROVE RRChannel'
      <4>1. RR!RankStep(r) /\ RRChannel /\ RRContexts
        BY <2>2, <3>4 DEF RankStep, RdvLines, RdvHeaps
      <4> QED  BY <3>1, <4>1, RRChannelUsed
    <3> QED  BY <3>1, <3>2, <3>3, <3>4 DEF RdvLines
  <2>3. ASSUME NEW r \in Ranks, AdapterWork(r) \/ Loss(r)  PROVE RdvLines'
    <3>1. /\ bench' = bench /\ (Adapter(r) \/ LoseAck(r))
          /\ UNCHANGED <<config, pc, call, heap, wc>>
      BY <2>3 DEF AdapterWork, AdapterStep, Loss, LossStep, benchVars, archiveVars, rdvVars
    <3>2. ASSUME bench = "rdv_write"  PROVE RWChannel'
      BY <3>1, <3>2, RWChannelCarried DEF RdvLines
    <3>3. ASSUME bench = "rdv_write_imm"  PROVE RIChannel'
      BY <3>1, <3>3, RIChannelCarried DEF RdvLines
    <3>4. ASSUME bench = "rdv_read"  PROVE RRChannel'
      BY <3>1, <3>4, RRChannelCarried DEF RdvLines
    <3> QED  BY <3>1, <3>2, <3>3, <3>4 DEF RdvLines
  <2> QED  BY <2>1, <2>2, <2>3 DEF Next, Terminating
<1> QED  BY <1>1, <1>2, BenchmarksReceive, RdvWriteImmInvariant, RdvHeapsInvariant, PTL DEF Spec

\* Each handler of a rendezvous works on the message, or the context, of the
\* peer's current call, although all messages arrive in one cache line.
THEOREM HandlersNeverMixed == Spec => []HandlersFindTheirs
<1>1. (bench = "rdv_write_imm" => RIInv) /\ RdvLines => HandlersFindTheirs
  BY RWHandlersFind, RIHandlersFind, RRHandlersFind DEF RdvLines, HandlersFindTheirs
<1> QED  BY <1>1, RdvWriteImmInvariant, ControlInOrder, PTL
=============================================================================
