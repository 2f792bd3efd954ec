---------------------------- MODULE VerbsPingpong ----------------------------
(***************************************************************************)
(* The ping-pongs of rdma-core over one completion queue: rc_pingpong.c    *)
(* (with and without -t), uc_pingpong.c, ud_pingpong.c, srq_pingpong.c.    *)
(* They differ in the transport, in how many completions a poll takes and  *)
(* in the number of queue pairs (one, except in srq).  Client and server   *)
(* exchange addresses over TCP, connect their queue pairs and then live in *)
(* one loop that counts completions.  The adapters, the wire and TCP are   *)
(* external.                                                               *)
(***************************************************************************)
EXTENDS Integers, Sequences, FiniteSets

CONSTANTS Polling,   \* the programs to run without -e: they spin on the queue
          Sleeping,  \* the programs to run with -e: they sleep on its events
          NumQp,     \* num_qp of srq_pingpong.c
          RxDepth,   \* rx_depth
          Iters,     \* iters
          Mishaps,   \* bound: the programs that are run with losses and short reads
          MaxLost,   \* bound: acknowledgements or datagrams lost in a run
          MaxShort   \* bound: reads from the socket that come short

AllPrograms == {"rc", "rc_ts", "uc", "ud", "srq"}

ASSUME VerbsAssumption ==
    /\ Polling \cup Sleeping \cup Mishaps \subseteq AllPrograms
    /\ NumQp \in Nat \ {0} /\ Iters \in Nat
    /\ RxDepth \in Nat /\ RxDepth >= NumQp  \* "must have at least one receive per QP"
    /\ MaxLost \in Nat /\ MaxShort \in Nat

VARIABLES
    prog, use_event,   \* the program that runs and its option -e
    pc,                \* pc[s]: the next step of side s
    tcp, short,        \* tcp[s]: messages on the way to s; reads that came short
    connected,         \* connected[s]: the queue pairs of s are ready
    routs, scnt, rcnt, \* the counters of main
    pending,           \* pending[s][i]: what queue pair i waits for
    wc,                \* wc[s]: completions polled and not parsed yet
    st,                \* st[s][i]: the one entry of send queue i
    rx,                \* rx[s]: receives the adapter has
    cq, armed, events, \* completion queue, its notification, the channel's events
    net, lost,         \* datagrams of s in flight; losses so far
    sent, got          \* messages posted and received per queue pair (history)

setupVars == <<tcp, short, connected>>
countVars == <<routs, scnt, rcnt, pending>>
adapterVars == <<st, rx, cq, armed, events, net, lost>>
history == <<sent, got>>
vars == <<prog, use_event, pc, setupVars, countVars, wc, adapterVars, history>>

Sides == {"client", "server"}
Peer(s) == IF s = "client" THEN "server" ELSE "client"
Qps == 0 .. (IF prog = "srq" THEN NumQp ELSE 1) - 1
Reliable == prog \notin {"uc", "ud"}

\* The process is running: its queue pairs answer, its socket is open.
On(s) == pc[s] \notin {"ended", "failed"}
At(s, label) == pc[s] = label
Goto(s, label) == pc' = [pc EXCEPT ![s] = label]

\* main returns 1; the process and its queue pairs are gone.
Fail(s) ==
    /\ Goto(s, "failed")
    /\ UNCHANGED <<prog, use_event, setupVars, countVars, wc, adapterVars, history>>

\* pp_init_ctx, the first pp_post_recv and ibv_req_notify_cq
Init ==
    /\ \/ prog \in Polling /\ use_event = FALSE
       \/ prog \in Sleeping /\ use_event = TRUE
    /\ pc = [s \in Sides |-> IF s = "client" THEN "write_addr" ELSE "read_addr"]
    /\ tcp = [s \in Sides |-> <<>>] /\ short = 0
    /\ connected = [s \in Sides |-> FALSE]
    /\ routs = [s \in Sides |-> RxDepth]
    /\ scnt = [s \in Sides |-> 0] /\ rcnt = [s \in Sides |-> 0]
    /\ pending = [s \in Sides |-> [i \in Qps |-> {}]]
    /\ wc = [s \in Sides |-> <<>>]
    /\ st = [s \in Sides |-> [i \in Qps |-> "idle"]]
    /\ rx = [s \in Sides |-> RxDepth]
    /\ cq = [s \in Sides |-> <<>>]
    /\ armed = [s \in Sides |-> use_event]
    /\ events = [s \in Sides |-> 0]
    /\ net = [s \in Sides |-> 0] /\ lost = 0
    /\ sent = [s \in Sides |-> [i \in Qps |-> 0]]
    /\ got = [s \in Sides |-> [i \in Qps |-> 0]]

----------------------------------------------------------------------------
\* The exchange of addresses.

\* Mutant: the server answers before its queue pairs are ready.
EagerScript(s) ==
    IF s = "client"
      THEN <<"write_addr", "read_addr", "write_done", "connect", "start">>
      ELSE <<"read_addr", "write_addr", "connect", "read_done", "start">>

\* What each side does from pp_client_exch_dest or pp_server_exch_dest to the
\* main loop.
Script(s) ==
    IF s = "client"
      THEN <<"write_addr", "read_addr", "write_done", "connect", "start">>
      ELSE <<"read_addr", "connect", "write_addr", "read_done", "start">>

After(s, label) ==
    LET k == CHOOSE k \in DOMAIN Script(s) : Script(s)[k] = label
    IN Script(s)[k + 1]

\* write of an address or of "done"
WriteMsg(s) ==
    /\ pc[s] \in {"write_addr", "write_done"}
    /\ tcp' = [tcp EXCEPT ![Peer(s)] = Append(@, pc[s])]
    /\ Goto(s, After(s, pc[s]))
    /\ UNCHANGED <<prog, use_event, short, connected, countVars, wc, adapterVars, history>>

\* srq_pingpong.c reads its addresses in a loop; every other read must return
\* the whole message.
ReadsInLoop(s) == prog = "srq" /\ pc[s] = "read_addr"

\* read of an address or of "done"
ReadMsg(s) ==
    /\ pc[s] \in {"read_addr", "read_done"}
    /\ tcp[s] # <<>>
    /\ tcp' = [tcp EXCEPT ![s] = Tail(@)]
    /\ Goto(s, After(s, pc[s]))
    /\ UNCHANGED <<prog, use_event, short, connected, countVars, wc, adapterVars, history>>

\* The same read returns a part of the message.
ReadShort(s) ==
    /\ pc[s] \in {"read_addr", "read_done"}
    /\ tcp[s] # <<>> /\ short < MaxShort /\ prog \in Mishaps
    /\ short' = short + 1
    /\ IF ReadsInLoop(s) THEN UNCHANGED pc ELSE Goto(s, "failed")
    /\ UNCHANGED <<prog, use_event, tcp, connected, countVars, wc, adapterVars, history>>

\* The same read finds the connection closed and returns 0.
ReadClosed(s) ==
    /\ pc[s] \in {"read_addr", "read_done"} /\ ~ ReadsInLoop(s)
    /\ tcp[s] = <<>> /\ ~ On(Peer(s))
    /\ Fail(s)

\* pp_connect_ctx
Connect(s) ==
    /\ At(s, "connect")
    /\ connected' = [connected EXCEPT ![s] = TRUE]
    /\ Goto(s, After(s, "connect"))
    /\ UNCHANGED <<prog, use_event, tcp, short, countVars, wc, adapterVars, history>>

----------------------------------------------------------------------------
\* The main loop.

\* The top of the loop with these counts.
LoopTop(s_cnt, r_cnt) ==
    IF r_cnt < Iters \/ s_cnt < Iters
      THEN IF use_event THEN "event" ELSE "poll"
      ELSE "close"

\* The first sends of the client; the server only waits.
Start(s) ==
    /\ At(s, "start")
    /\ IF s = "client"
         THEN /\ pending' = [pending EXCEPT ![s] = [i \in Qps |-> {"RECV", "SEND"}]]
              /\ st' = [st EXCEPT ![s] = [i \in Qps |-> "posted"]]
              /\ sent' = [sent EXCEPT ![s] = [i \in Qps |-> 1]]
         ELSE /\ pending' = [pending EXCEPT ![s] = [i \in Qps |-> {"RECV"}]]
              /\ UNCHANGED <<st, sent>>
    /\ Goto(s, LoopTop(0, 0))
    /\ UNCHANGED <<prog, use_event, setupVars, routs, scnt, rcnt, wc, rx, cq, armed,
                   events, net, lost, got>>

\* ibv_get_cq_event, which sleeps until there is one, and ibv_req_notify_cq
GetEvent(s) ==
    /\ At(s, "event")
    /\ events[s] > 0
    /\ events' = [events EXCEPT ![s] = @ - 1]
    /\ armed' = [armed EXCEPT ![s] = TRUE]
    /\ Goto(s, "poll")
    /\ UNCHANGED <<prog, use_event, setupVars, countVars, wc, st, rx, cq, net, lost, history>>

\* Mutant: a poll takes one completion.
OneAtATime == 1

\* How many completions a poll takes at most.
Batch ==
    CASE prog = "srq" -> NumQp + RxDepth
      [] prog = "rc_ts" -> 1
      [] OTHER -> 2

\* The first n completions leave the queue; the send queue entries of those of
\* sends are free again.
Take(s, n) ==
    LET taken == SubSeq(cq[s], 1, n)
        freed == {taken[k].qp : k \in {j \in 1 .. n : taken[j].id = "SEND"}}
    IN /\ wc' = [wc EXCEPT ![s] = taken]
       /\ cq' = [cq EXCEPT ![s] = SubSeq(@, n + 1, Len(@))]
       /\ st' = [st EXCEPT ![s] = [i \in Qps |-> IF i \in freed THEN "idle" ELSE @[i]]]
       /\ UNCHANGED <<prog, use_event, setupVars, countVars, rx, armed, events, net,
                      lost, history>>

\* ibv_poll_cq, or ibv_start_poll
Poll(s) ==
    /\ At(s, "poll")
    /\ cq[s] # <<>>
    /\ Take(s, IF Len(cq[s]) < Batch THEN Len(cq[s]) ELSE Batch)
    /\ Goto(s, "parse")

\* An event whose completion an earlier poll has taken: ibv_poll_cq returns 0
\* and the loop goes on; ibv_start_poll returns ENOENT and main fails.
PollNothing(s) ==
    /\ At(s, "poll")
    /\ cq[s] = <<>> /\ use_event
    /\ IF prog = "rc_ts"
         THEN Fail(s)
         ELSE /\ Goto(s, "event")
              /\ UNCHANGED <<prog, use_event, setupVars, countVars, wc, adapterVars, history>>

\* ibv_next_poll, after the first completion has been parsed
NextPoll(s) ==
    /\ At(s, "next_poll")
    /\ IF cq[s] # <<>>
         THEN Take(s, 1) /\ Goto(s, "parse_next")
         ELSE /\ Goto(s, LoopTop(scnt[s], rcnt[s]))
              /\ UNCHANGED <<prog, use_event, setupVars, countVars, wc, adapterVars, history>>

\* Mutant: a receive completion is not counted.
StaleLeft(s) == routs[s]

\* --routs
Left(s) == routs[s] - 1

\* How many receives the program wants to post when n are left.
Refill(n) == IF n <= Cardinality(Qps) THEN RxDepth - n ELSE 0

\* pp_post_recv posts as many of n receives as the queue takes.
PostRecvs(s, n) == IF n <= RxDepth - rx[s] THEN n ELSE RxDepth - rx[s]

\* parse_single_wc up to the answer: the completion is counted, receives are
\* posted again when few are left.
Parse(s) ==
    /\ pc[s] \in {"parse", "parse_next"}
    /\ LET c == Head(wc[s])
           left == Left(s)
           n == PostRecvs(s, Refill(left))
       IN IF ~ c.ok \/ (c.id = "RECV" /\ n < Refill(left))
            THEN Fail(s)
            ELSE /\ IF c.id = "RECV"
                      THEN /\ routs' = [routs EXCEPT ![s] = left + n]
                           /\ rx' = [rx EXCEPT ![s] = @ + n]
                           /\ rcnt' = [rcnt EXCEPT ![s] = @ + 1]
                           /\ got' = [got EXCEPT ![s][c.qp] = @ + 1]
                           /\ UNCHANGED scnt
                      ELSE /\ scnt' = [scnt EXCEPT ![s] = @ + 1]
                           /\ UNCHANGED <<routs, rx, rcnt, got>>
                 /\ pending' = [pending EXCEPT ![s][c.qp] = @ \ {c.id}]
                 /\ Goto(s, IF pc[s] = "parse" THEN "answer" ELSE "answer_next")
                 /\ UNCHANGED <<prog, use_event, setupVars, wc, st, cq, armed, events,
                                net, lost, sent>>

\* Where the program goes on after it has dealt with Head(wc[s]).
AfterAnswer(s) ==
    CASE Len(wc[s]) > 1 -> "parse"
      [] Len(wc[s]) = 1 /\ prog = "rc_ts" /\ pc[s] = "answer" -> "next_poll"
      [] OTHER -> LoopTop(scnt[s], rcnt[s])

\* Mutant: the answer does not wait for the completion of the last send.
HastyAnswer(s, i) == scnt[s] < Iters /\ "RECV" \notin pending[s][i]

\* Mutant: the answer does not wait for the message it answers.
BlindAnswer(s, i) == scnt[s] < Iters /\ "SEND" \notin pending[s][i]

\* Queue pair i has nothing pending and messages are left to send.
MayAnswer(s, i) == scnt[s] < Iters /\ pending[s][i] = {}

\* The rest of parse_single_wc: pp_post_send, which fails on a full queue.
Answer(s) ==
    /\ pc[s] \in {"answer", "answer_next"}
    /\ LET i == Head(wc[s]).qp
       IN IF MayAnswer(s, i) /\ st[s][i] # "idle"
            THEN Fail(s)
            ELSE /\ IF MayAnswer(s, i)
                      THEN /\ st' = [st EXCEPT ![s][i] = "posted"]
                           /\ pending' = [pending EXCEPT ![s][i] = {"RECV", "SEND"}]
                           /\ sent' = [sent EXCEPT ![s][i] = @ + 1]
                      ELSE UNCHANGED <<st, pending, sent>>
                 /\ wc' = [wc EXCEPT ![s] = Tail(@)]
                 /\ Goto(s, AfterAnswer(s))
                 /\ UNCHANGED <<prog, use_event, setupVars, routs, scnt, rcnt, rx, cq,
                                armed, events, net, lost, got>>

\* pp_close_ctx: the queue pairs go, whatever the peer still expects of them.
Close(s) ==
    /\ At(s, "close")
    /\ Goto(s, "ended")
    /\ UNCHANGED <<prog, use_event, setupVars, countVars, wc, adapterVars, history>>

----------------------------------------------------------------------------
\* The adapters and the wire.

\* A completion joins the queue of s; an armed queue raises one event.
Complete(s, c) ==
    /\ cq' = [cq EXCEPT ![s] = Append(@, c)]
    /\ armed' = [armed EXCEPT ![s] = FALSE]
    /\ events' = [events EXCEPT ![s] = IF armed[s] THEN @ + 1 ELSE @]
    /\ UNCHANGED <<prog, use_event, pc, setupVars, countVars, wc, history>>

Receives(s) == On(s) /\ connected[s] /\ rx[s] > 0

\* A message of a reliable queue pair arrives; one that finds no receive or no
\* connected queue pair is retried.
Deliver(s, i) ==
    /\ Reliable /\ On(s)
    /\ st[s][i] = "posted" /\ Receives(Peer(s))
    /\ st' = [st EXCEPT ![s][i] = "delivered"]
    /\ rx' = [rx EXCEPT ![Peer(s)] = @ - 1]
    /\ Complete(Peer(s), [id |-> "RECV", qp |-> i, ok |-> TRUE])
    /\ UNCHANGED <<net, lost>>

\* The send completes: its acknowledgement arrives, at once or, if that was
\* lost, for a retransmission to a peer that still runs; if the peer does not,
\* the retries run out.
SendDone(s, i) ==
    /\ Reliable /\ On(s)
    /\ \/ st[s][i] = "delivered"
       \/ st[s][i] = "unacked"
       \/ st[s][i] = "posted" /\ ~ On(Peer(s))
    /\ st' = [st EXCEPT ![s][i] = "done"]
    /\ Complete(s, [id |-> "SEND", qp |-> i,
                    ok |-> st[s][i] = "delivered" \/ On(Peer(s))])
    /\ UNCHANGED <<rx, net, lost>>

LoseAck(s, i) ==
    /\ Reliable /\ On(s)
    /\ st[s][i] = "delivered" /\ lost < MaxLost /\ prog \in Mishaps
    /\ st' = [st EXCEPT ![s][i] = "unacked"]
    /\ lost' = lost + 1
    /\ UNCHANGED <<prog, use_event, pc, setupVars, countVars, wc, rx, cq, armed, events,
                   net, history>>

\* An unreliable send completes when its message is on the wire.
Transmit(s, i) ==
    /\ ~ Reliable /\ On(s)
    /\ st[s][i] = "posted"
    /\ st' = [st EXCEPT ![s][i] = "done"]
    /\ net' = [net EXCEPT ![s] = @ + 1]
    /\ Complete(s, [id |-> "SEND", qp |-> i, ok |-> TRUE])
    /\ UNCHANGED <<rx, lost>>

\* A datagram arrives; one that finds no receive is dropped.
Arrive(s) ==
    /\ net[s] > 0
    /\ net' = [net EXCEPT ![s] = @ - 1]
    /\ IF Receives(Peer(s))
         THEN /\ rx' = [rx EXCEPT ![Peer(s)] = @ - 1]
              /\ Complete(Peer(s), [id |-> "RECV", qp |-> 0, ok |-> TRUE])
         ELSE UNCHANGED <<prog, use_event, pc, setupVars, countVars, wc, rx, cq, armed,
                          events, history>>
    /\ UNCHANGED <<st, lost>>

LoseDatagram(s) ==
    /\ net[s] > 0 /\ lost < MaxLost /\ prog \in Mishaps
    /\ net' = [net EXCEPT ![s] = @ - 1]
    /\ lost' = lost + 1
    /\ UNCHANGED <<prog, use_event, pc, setupVars, countVars, wc, st, rx, cq, armed,
                   events, history>>

----------------------------------------------------------------------------
\* What the process of side s does when no read comes short.
Run(s) ==
    \/ WriteMsg(s) \/ ReadMsg(s) \/ ReadClosed(s) \/ Connect(s) \/ Start(s)
    \/ GetEvent(s) \/ Poll(s) \/ PollNothing(s) \/ NextPoll(s)
    \/ Parse(s) \/ Answer(s) \/ Close(s)

Adapter(s) ==
    \/ \E i \in Qps : Deliver(s, i) \/ SendDone(s, i) \/ Transmit(s, i)
    \/ Arrive(s)

Mishap(s) == ReadShort(s) \/ LoseDatagram(s) \/ \E i \in Qps : LoseAck(s, i)

AllOver == \A s \in Sides : ~ On(s)

\* The server gave up on a "done" that came short, after its queue pairs had
\* taken the client's first messages: the client, whose sends are complete,
\* waits for an answer.
Abandoned ==
    /\ short > 0 /\ At("server", "failed") /\ connected["server"]
    /\ pc["client"] \in {"event", "poll"} /\ cq["client"] = <<>>
    /\ \A i \in Qps : st["client"][i] = "idle"

\* Nothing in uc and ud makes up for a datagram that is lost either.
MayHang == (~ Reliable /\ lost > 0) \/ Abandoned

Terminating == (AllOver \/ MayHang) /\ UNCHANGED vars

Next == (\E s \in Sides : Run(s) \/ Adapter(s) \/ Mishap(s)) \/ Terminating

\* Processes that can run and adapters that have work go on; nothing has to
\* get lost.
Spec == /\ Init /\ [][Next]_vars
        /\ \A s \in Sides : WF_vars(Run(s)) /\ WF_vars(Adapter(s))

----------------------------------------------------------------------------
\* Messages of s that have not arrived yet.
UnderWay(s) == Cardinality({i \in Qps : st[s][i] = "posted"}) + net[s]

\* A message under way to a process that runs finds connected queue pairs and
\* a receive of its own: the order of the address exchange and the low-water
\* mark of routs see to it.  Where they do not, uc and ud drop the message.
ReceiverReady ==
    \A s \in Sides : UnderWay(s) > 0 /\ On(Peer(s)) =>
        connected[Peer(s)] /\ rx[Peer(s)] >= UnderWay(s)

\* The RECV completions among cs.
Recvs(cs) == Cardinality({k \in DOMAIN cs : cs[k].id = "RECV"})

\* The completions polled and not counted yet.
Unparsed(s) == IF pc[s] \in {"answer", "answer_next"} THEN Tail(wc[s]) ELSE wc[s]

\* While completions sit in the queue or in main's array, routs is still what
\* the adapter has plus these, so that pp_post_recv never overfills the
\* receive queue; and the completion queue, made for rx_depth + num_qp
\* entries, never overflows.
CreditsExact ==
    \A s \in Sides :
        /\ On(s) => routs[s] = rx[s] + Recvs(cq[s]) + Recvs(Unparsed(s))
        /\ Len(cq[s]) <= RxDepth + Cardinality(Qps)

\* main returns 1 only when a read of the address exchange came short, here or
\* at the peer, or when the sends are reliable and the peer has gone: none of
\* these programs ends with a barrier, and an acknowledgement may be late.
FailuresExplained ==
    \A s \in Sides : At(s, "failed") => short > 0 \/ (Reliable /\ ~ On(Peer(s)))

\* No side fails: main returns 1 only for a reason (a poll that failed, a
\* completion with an error status).
NoFailure == \A s \in Sides : ~ At(s, "failed")

\* Every queue pair carries a ping-pong: one message in flight at a time, each
\* received once and answered after it was received, however the completions
\* of sends, of receives and of the other queue pairs interleave.
Trip(i) == INSTANCE PingPong WITH
    sent <- [r \in {0, 1} |-> LET s == IF r = 0 THEN "client" ELSE "server"
                              IN IF i \in Qps THEN sent[s][i] ELSE 0],
    got <- [r \in {0, 1} |-> LET s == IF r = 0 THEN "client" ELSE "server"
                             IN IF i \in Qps THEN got[s][i] ELSE 0]
IsPingPong ==
    /\ \A i \in 0 .. NumQp - 1 : Trip(i)!Init
    /\ [][\A i \in 0 .. NumQp - 1 : Trip(i)!Next \/ UNCHANGED Trip(i)!vars]_vars

\* Both processes end: no wake-up is missed between an event and the next
\* poll, no side waits for a message the other has not to send, although in
\* srq each side counts only the total over its queue pairs.  What is left out
\* is MayHang: a datagram of uc or ud that is lost, and a client whose server
\* gave up between the exchange of addresses and the loop.
Terminates == <>(AllOver \/ MayHang)
=============================================================================
