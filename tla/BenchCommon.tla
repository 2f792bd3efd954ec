----------------------------- MODULE BenchCommon -----------------------------
(***************************************************************************)
(* What the benchmarks share besides the Device (bench_common.hpp): the    *)
(* driver RUN_VARY_MSG that calls a benchmark's lambda for every message   *)
(* size, the data checks, the barriers and the end of a process.           *)
(***************************************************************************)
EXTENDS IbvCommon

CONSTANTS MinMsg,                    \* min_msg_size
          Large,                     \* LARGE
          Skip, Total,               \* SKIP, TOTAL
          SkipLarge, TotalLarge      \* SKIP_LARGE, TOTAL_LARGE

ASSUME BenchAssumption ==
    /\ MinMsg \in Nat \ {0}  \* 0 <<= 1 is 0: the driver would not end
    /\ Large \in Nat
    /\ {Skip, Total, SkipLarge, TotalLarge} \subseteq Nat \ {0}

VARIABLES pc,          \* pc[r]: the next step of rank r
          call,        \* call[r]: the call of the lambda rank r is in
          bar          \* bar[r]: barriers rank r has entered

benchVars == <<config, pc, call, bar>>
vars == <<deviceVars, benchVars>>

touch_data == config.touch_data
max_msg_size == config.max_msg_size

----------------------------------------------------------------------------
\* RUN_VARY_MSG.  n numbers the calls of a run; the program does not have it.

Iterations(size, timed) ==
    IF size >= Large THEN IF timed THEN TotalLarge ELSE SkipLarge
                     ELSE IF timed THEN Total ELSE Skip

FirstCall == [size |-> MinMsg, timed |-> FALSE, i |-> 0, n |-> 1]

\* Mutant: the loops run once too often (i <= loop).
ExtraCall(c) ==
    IF c.i < Iterations(c.size, c.timed)
      THEN [c EXCEPT !.i = @ + 1, !.n = @ + 1]
      ELSE IF c.timed
             THEN [size |-> 2 * c.size, timed |-> FALSE, i |-> 0, n |-> c.n + 1]
             ELSE [c EXCEPT !.timed = TRUE, !.i = 0, !.n = @ + 1]

\* The call after c: next iteration, or the timed loop after the warm-up
\* loop, or the next message size.
NextCall(c) ==
    IF c.i + 1 < Iterations(c.size, c.timed)
      THEN [c EXCEPT !.i = @ + 1, !.n = @ + 1]
      ELSE IF c.timed
             THEN [size |-> 2 * c.size, timed |-> FALSE, i |-> 0, n |-> c.n + 1]
             ELSE [c EXCEPT !.timed = TRUE, !.i = 0, !.n = @ + 1]

Finished(c) == c.size > max_msg_size

\* The calls of the lambda for the message sizes from s on.
CallsFrom[s \in 1 .. 2 * max_msg_size] ==
    IF s > max_msg_size THEN 0
    ELSE Iterations(s, FALSE) + Iterations(s, TRUE) + CallsFrom[2 * s]

\* The position of a label in the body of a lambda, 0 outside it.
Position(label, body) ==
    IF \E k \in DOMAIN body : body[k] = label
      THEN CHOOSE k \in DOMAIN body : body[k] = label
      ELSE 0

\* Rank r, in the lambda with this body, takes its next step: the next label,
\* or the next call, or the code after RUN_VARY_MSG (label "close").
Proceed(r, body) ==
    LET k == Position(pc[r], body)
        c == NextCall(call[r])
    IN IF k < Len(body)
         THEN /\ pc' = [pc EXCEPT ![r] = body[k + 1]]
              /\ UNCHANGED call
         ELSE /\ pc' = [pc EXCEPT ![r] = IF Finished(c) THEN "close" ELSE body[1]]
              /\ call' = [call EXCEPT ![r] = c]

\* Rank r runs and is about to take the step with this label.
At(r, label) == r \in up /\ pc[r] = label
AtAny(r, labels) == r \in up /\ pc[r] \in labels

Goto(r, label) == pc' = [pc EXCEPT ![r] = label] /\ UNCHANGED call

\* How often rank r has done the step with this label.
Times(r, body, label) ==
    call[r].n - 1 + (IF Position(pc[r], body) > Position(label, body) THEN 1 ELSE 0)

----------------------------------------------------------------------------
\* Buffers.

\* value: 'a' + rank
Value(r) == IF r = 0 THEN "a" ELSE "b"

\* len cells that hold what rank r writes in the call it is in.
Fill(r, len) == [k \in 1 .. len |-> [v |-> Value(r), t |-> call[r].n]]

\* if (touch_data) write_buffer(buf, len, value)
write_buffer(r, buf, len) ==
    mem' = IF touch_data THEN [mem EXCEPT ![r] = Store(@, buf, Fill(r, len))] ELSE mem

\* check_buffer(buf, len, peer_value) does not abort.
check_buffer(r, buf, len) ==
    touch_data => \A a \in buf .. buf + len - 1 : mem[r][a].v = Value(Peer(r))

\* The cells are the ones the peer wrote in its call number n.
FromCall(r, buf, len, n) ==
    \A a \in buf .. buf + len - 1 : mem[r][a] = [v |-> Value(Peer(r)), t |-> n]

----------------------------------------------------------------------------
\* Barriers and the end of a process.

\* lcm_pm_barrier: a rank leaves once every rank has entered.
EnterBarrier(r, label) ==
    /\ bar' = [bar EXCEPT ![r] = @ + 1]
    /\ Goto(r, label)
    /\ UNCHANGED <<deviceVars, config>>

LeaveBarrier(r, label) ==
    /\ \A q \in Ranks : bar[q] >= bar[r]
    /\ Goto(r, label)
    /\ UNCHANGED <<deviceVars, config, bar>>

\* The barrier before the first message, from label "start" to "setup".
OpeningBarrier(r) ==
    \/ At(r, "start") /\ EnterBarrier(r, "opening")
    \/ At(r, "opening") /\ LeaveBarrier(r, "setup")

\* The barrier before finalize, from label "close" to "exit".
ClosingBarrier(r) ==
    \/ At(r, "close") /\ EnterBarrier(r, "closing")
    \/ At(r, "closing") /\ LeaveBarrier(r, "exit")

\* A failed MLOG_Assert, a failed check_buffer, the use of a freed pointer:
\* the process ends where it is, its queue pairs with it.
Abort(r) ==
    /\ up' = up \ {r}
    /\ UNCHANGED <<mem, sq, srq, send_cq, recv_cq, lost, order, posted_recv_num, benchVars>>

\* finalize, which only leaves PMI, and the end of the process; its queue
\* pairs are gone.
Exit(r) ==
    /\ Goto(r, "exited")
    /\ up' = up \ {r}
    /\ UNCHANGED <<mem, sq, srq, send_cq, recv_cq, lost, order, posted_recv_num,
                   config, bar>>

----------------------------------------------------------------------------
\* Steps every benchmark takes.

\* The first checkAndPostRecvs of run, with the receives going to buf.
PostRecvs(r, buf, len, next) ==
    IF CanPostRecvs(r, posted_recv_num[r])
      THEN /\ checkAndPostRecvs(r, posted_recv_num[r], buf, len)
           /\ Goto(r, next)
           /\ UNCHANGED <<mem, sq, send_cq, recv_cq, lost, order, up, config, bar>>
      ELSE Abort(r)

\* wc = pollCQ(send_cq); MLOG_Assert(wc.status == SUCCESS && wc.opcode == opcode)
AwaitSend(r, opcode, body) ==
    /\ send_cq[r] # <<>>
    /\ IF Succeeded(Head(send_cq[r]), opcode)
         THEN /\ pollSendCQ(r)
              /\ Proceed(r, body)
              /\ UNCHANGED <<mem, sq, srq, recv_cq, lost, order, up, posted_recv_num,
                             config, bar>>
         ELSE Abort(r)

\* wc = pollCQ(recv_cq); MLOG_Assert(...); --posted_recv_num;
\* checkAndPostRecvs(buf, len)
AwaitRecv(r, opcode, buf, len, body) ==
    /\ recv_cq[r] # <<>>
    /\ IF Succeeded(Head(recv_cq[r]), opcode) /\ CanPostRecvs(r, posted_recv_num[r] - 1)
         THEN /\ pollRecvCQ(r, buf, len)
              /\ Proceed(r, body)
              /\ UNCHANGED <<mem, sq, send_cq, lost, order, up, config, bar>>
         ELSE Abort(r)

\* if (touch_data) check_buffer(buf, len, peer_value)
CheckData(r, buf, len, body) ==
    IF check_buffer(r, buf, len)
      THEN /\ Proceed(r, body)
           /\ UNCHANGED <<deviceVars, config, bar>>
      ELSE Abort(r)

\* What a step that posts a work request leaves alone.
UnchangedByPost ==
    UNCHANGED <<srq, send_cq, recv_cq, lost, order, up, posted_recv_num, config, bar>>

\* The state in which run enters the code after init, which it asked for a
\* memory region of mr_size; config is given.
BenchInit(label, mr_size) ==
    /\ DeviceInit(mr_size)
    /\ pc = [r \in Ranks |-> label]
    /\ call = [r \in Ranks |-> FirstCall]
    /\ bar = [r \in Ranks |-> 0]

AdapterStep(r) == r \in up /\ Adapter(r) /\ UNCHANGED <<posted_recv_num, benchVars>>

LossStep(r) == r \in up /\ LoseAck(r) /\ UNCHANGED <<posted_recv_num, benchVars>>

AllOver == up = {}

----------------------------------------------------------------------------
\* Properties the benchmarks have in common.

\* Type correctness of the Device, the queues and the driver.
TypeOK ==
    /\ \A r \in Ranks : Len(sq[r]) + Len(send_cq[r]) <= MaxSend
    /\ \A r \in Ranks : posted_recv_num[r] \in 0 .. MaxRecv
    /\ lost \in 0 .. MaxLost
    /\ \A r \in up : pc[r] # "exited"
    /\ \A r \in Ranks : call[r].n \in 1 .. CallsFrom[MinMsg] + 1
    /\ bar \in [Ranks -> 0 .. 2]

Aborted(r) == r \notin up /\ pc[r] # "exited"

\* No MLOG_Assert of the program fails, no check_buffer aborts, no freed
\* context is used.
NoAbort == \A r \in Ranks : ~ Aborted(r)

\* The benchmarks without a closing barrier: a rank aborts only when its peer
\* has left already, in the last call.
AbortOnlyAfterPeerExit ==
    \A r \in Ranks : Aborted(r) =>
        pc[Peer(r)] = "exited" /\ call[r].n = CallsFrom[MinMsg]

\* Each rank's receives are accounted for as RecvPool says.
RecvPoolOK == Pool!Spec
============================================================================
