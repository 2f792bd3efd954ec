---------------------------- MODULE XsrqPingpong ----------------------------
(***************************************************************************)
(* xsrq_pingpong.c: one server plays ping-pong with several clients that   *)
(* share an XRC domain.  The server reaches the shared receive queue of    *)
(* client i through the target queue pairs of ALL clients in turn, so a    *)
(* client has to stay until everybody is served.  The adapters, the wire   *)
(* and TCP are external.                                                   *)
(***************************************************************************)
EXTENDS Integers, Sequences, FiniteSets

CONSTANTS NumClients,  \* num_clients of the server; that of a client is 1
          EventTests,  \* bound: the values of num_tests that are run with -e
          SpinTests,   \* bound: and without
          Lossy,       \* bound: the values of use_event that are run with losses
          MaxLost      \* bound: acknowledgements lost in a run

ASSUME XsrqAssumption ==
    /\ NumClients \in Nat \ {0}
    /\ EventTests \subseteq Nat \ {0} /\ SpinTests \subseteq Nat \ {0}
    /\ Lossy \subseteq BOOLEAN /\ MaxLost \in Nat

Clients == 0 .. NumClients - 1
Server == NumClients
Procs == 0 .. NumClients

VARIABLES
    use_event, num_tests,  \* the options -e and -n
    pc, cnt,               \* program counter; the counter of the loop a process is in
    wc,                    \* wc[p]: queue pair of the completion being handled
    pp_cnt,                \* pp_cnt[p][i]: messages p has posted for its peer i
    connected,             \* connected[p]: the peers i with connect_qps(i) done
    to_server, to_client,  \* the TCP connection of each client
    sq,                    \* sq[p][q]: send queue of queue pair q of p
    rx, recv_cq, send_cq,  \* shared receive queue (a count) and completion queues
    armed, events,         \* notification of recv_cq, events in the channel
    broken,                \* broken[p]: its queue pairs whose retries ran out
    lost

tcpVars == <<to_server, to_client>>
adapterVars == <<sq, rx, recv_cq, send_cq, armed, events, broken, lost>>
options == <<use_event, num_tests>>
vars == <<options, pc, cnt, wc, pp_cnt, connected, tcpVars, adapterVars>>

\* A process's num_clients; the indices of its peers.
Num(p) == IF p = Server THEN NumClients ELSE 1
Peers(p) == 0 .. Num(p) - 1

On(p) == pc[p] # "closed"
At(p, label) == pc[p] = label
Goto(p, label) == pc' = [pc EXCEPT ![p] = label]

\* pp_init_ctx and the first pp_post_recv
Init ==
    /\ use_event \in BOOLEAN
    /\ num_tests \in IF use_event THEN EventTests ELSE SpinTests
    /\ pc = [p \in Procs |-> IF p = Server THEN "recv_addr" ELSE "send_addr"]
    /\ cnt = [p \in Procs |-> 0]
    /\ wc = [p \in Procs |-> 0]
    /\ pp_cnt = [p \in Procs |-> [i \in Peers(p) |-> 0]]
    /\ connected = [p \in Procs |-> {}]
    /\ to_server = [c \in Clients |-> <<>>]
    /\ to_client = [c \in Clients |-> <<>>]
    /\ sq = [p \in Procs |-> [q \in Peers(p) |-> <<>>]]
    /\ rx = [p \in Procs |-> Num(p)]
    /\ recv_cq = [p \in Procs |-> <<>>]
    /\ send_cq = [p \in Procs |-> 0]
    /\ armed = [p \in Procs |-> use_event]
    /\ events = [p \in Procs |-> 0]
    /\ broken = [p \in Procs |-> {}]
    /\ lost = 0

----------------------------------------------------------------------------
\* Messages over TCP between client c and the server.
Tell(c, m) == to_client' = [to_client EXCEPT ![c] = Append(@, m)] /\ UNCHANGED to_server
Hear(c, m) ==
    /\ to_client[c] # <<>> /\ Head(to_client[c]) = m
    /\ to_client' = [to_client EXCEPT ![c] = Tail(@)] /\ UNCHANGED to_server
TellServer(c, m) == to_server' = [to_server EXCEPT ![c] = Append(@, m)] /\ UNCHANGED to_client
HearFrom(c, m) ==
    /\ to_server[c] # <<>> /\ Head(to_server[c]) = m
    /\ to_server' = [to_server EXCEPT ![c] = Tail(@)] /\ UNCHANGED to_client

\* Loops over the peers: the next index, or the step after the loop.
NextIndex(p, again, next) ==
    IF cnt[p] + 1 < Num(p)
      THEN cnt' = [cnt EXCEPT ![p] = @ + 1] /\ Goto(p, again)
      ELSE cnt' = [cnt EXCEPT ![p] = 0] /\ Goto(p, next)

\* while (cnt < total): the top of the main loop.
LoopTop(n, p) ==
    IF n < Num(p) * num_tests THEN IF use_event THEN "event" ELSE "poll" ELSE "drain"

\* recv_remote_dest and send_local_dest, in pp_client_connect's order and, for
\* one client after the other, in pp_server_connect's.
SendAddr(p) ==
    /\ At(p, "send_addr")
    /\ IF p = Server THEN Tell(cnt[p], "addr") /\ Goto(p, "connect")
                     ELSE TellServer(p, "addr") /\ Goto(p, "recv_addr")
    /\ UNCHANGED <<options, cnt, wc, pp_cnt, connected, adapterVars>>

RecvAddr(p) ==
    /\ At(p, "recv_addr")
    /\ IF p = Server THEN HearFrom(cnt[p], "addr") /\ Goto(p, "send_addr")
                     ELSE Hear(p, "addr") /\ Goto(p, "connect")
    /\ UNCHANGED <<options, cnt, wc, pp_cnt, connected, adapterVars>>

\* connect_qps(index)
Connect(p) ==
    /\ At(p, "connect")
    /\ connected' = [connected EXCEPT ![p] = @ \cup {cnt[p]}]
    /\ IF p = Server THEN NextIndex(p, "recv_addr", "first")
                     ELSE Goto(p, LoopTop(0, p)) /\ UNCHANGED cnt
    /\ UNCHANGED <<options, wc, pp_cnt, tcpVars, adapterVars>>

----------------------------------------------------------------------------
\* pp_post_send(index): round robin over the queue pairs; only the last message
\* for a peer is signaled.
pp_post_send(p, index) ==
    LET n == pp_cnt[p][index]
        q == (index + n) % Num(p)
    IN /\ pp_cnt' = [pp_cnt EXCEPT ![p][index] = @ + 1]
       /\ sq' = [sq EXCEPT ![p][q] =
              Append(@, [dst |-> index, signaled |-> n + 1 >= num_tests, st |-> "posted"])]

\* The server's first message for each client.
First(p) ==
    /\ At(p, "first")
    /\ pp_post_send(p, cnt[p])
    /\ NextIndex(p, "first", LoopTop(0, p))
    /\ UNCHANGED <<options, wc, connected, tcpVars, rx, recv_cq, send_cq, armed, events,
                   broken, lost>>

\* get_cq_event
GetEvent(p) ==
    /\ At(p, "event")
    /\ events[p] > 0
    /\ events' = [events EXCEPT ![p] = @ - 1]
    /\ armed' = [armed EXCEPT ![p] = TRUE]
    /\ Goto(p, "poll")
    /\ UNCHANGED <<options, cnt, wc, pp_cnt, connected, tcpVars, sq, rx, recv_cq,
                   send_cq, broken, lost>>

\* ibv_poll_cq(recv_cq) finds a completion; pp_post_recv(1) replaces its receive.
Poll(p) ==
    /\ At(p, "poll")
    /\ recv_cq[p] # <<>>
    /\ wc' = [wc EXCEPT ![p] = Head(recv_cq[p])]
    /\ recv_cq' = [recv_cq EXCEPT ![p] = Tail(@)]
    /\ rx' = [rx EXCEPT ![p] = @ + 1]
    /\ Goto(p, "reply")
    /\ UNCHANGED <<options, cnt, pp_cnt, connected, tcpVars, sq, send_cq, armed,
                   events, broken, lost>>

\* It finds none: the inner loop ends.
PollNothing(p) ==
    /\ At(p, "poll")
    /\ recv_cq[p] = <<>>
    /\ LoopTop(cnt[p], p) # "poll"  \* else it polls again
    /\ Goto(p, LoopTop(cnt[p], p))
    /\ cnt' = [cnt EXCEPT ![p] = IF LoopTop(@, p) = "drain" THEN 0 ELSE @]
    /\ UNCHANGED <<options, wc, pp_cnt, connected, tcpVars, adapterVars>>

\* Mutant: the reply goes to the client after the one that sent the message.
WrongQp(p, qpn) == IF Num(p) = 1 THEN 0 ELSE (qpn + 1) % Num(p)

\* find_qp: a client has one peer.
find_qp(p, qpn) == IF Num(p) = 1 THEN 0 ELSE qpn

\* Mutant: a wake-up deals with one completion, while (ne > 0) is missing.
OnePerEvent(p) == LoopTop(cnt[p] + 1, p)

\* Where the loop goes on after a completion: it polls until there is none.
AfterReply(p) == "poll"

\* if (pp_cnt < num_tests) pp_post_send; cnt += ne
Reply(p) ==
    /\ At(p, "reply")
    /\ LET i == find_qp(p, wc[p])
       IN IF pp_cnt[p][i] < num_tests THEN pp_post_send(p, i) ELSE UNCHANGED <<pp_cnt, sq>>
    /\ cnt' = [cnt EXCEPT ![p] = @ + 1]
    /\ wc' = [wc EXCEPT ![p] = 0]
    /\ Goto(p, AfterReply(p))
    /\ UNCHANGED <<options, connected, tcpVars, rx, recv_cq, send_cq, armed, events,
                   broken, lost>>

----------------------------------------------------------------------------
\* The loop over send_cq: one completion for each peer, whatever its status.
DrainSend(p) ==
    /\ At(p, "drain")
    /\ send_cq[p] > 0
    /\ send_cq' = [send_cq EXCEPT ![p] = @ - 1]
    /\ NextIndex(p, "drain", IF p = Server THEN "recv_end" ELSE "send_end")
    /\ UNCHANGED <<options, wc, pp_cnt, connected, tcpVars, sq, rx, recv_cq, armed,
                   events, broken, lost>>

\* Mutant: a client that has said it is done does not wait for the server.
LeaveAtOnce(p) == "close"

\* pp_client_termination: after its own END a client waits for the server's.
AfterEnd(p) == "recv_end"

\* send_termination_ack: a client's, or the server's to one client after the
\* other.
SendEnd(p) ==
    /\ At(p, "send_end")
    /\ IF p = Server
         THEN Tell(cnt[p], "END") /\ NextIndex(p, "send_end", "close")
         ELSE TellServer(p, "END") /\ Goto(p, AfterEnd(p)) /\ UNCHANGED cnt
    /\ UNCHANGED <<options, wc, pp_cnt, connected, adapterVars>>

\* recv_termination_ack
RecvEnd(p) ==
    /\ At(p, "recv_end")
    /\ IF p = Server
         THEN HearFrom(cnt[p], "END") /\ NextIndex(p, "recv_end", "send_end")
         ELSE Hear(p, "END") /\ Goto(p, "close") /\ UNCHANGED cnt
    /\ UNCHANGED <<options, wc, pp_cnt, connected, adapterVars>>

\* pp_close_ctx: queue pairs and shared receive queue are destroyed.
Close(p) ==
    /\ At(p, "close")
    /\ Goto(p, "closed")
    /\ UNCHANGED <<options, cnt, wc, pp_cnt, connected, tcpVars, adapterVars>>

----------------------------------------------------------------------------
\* The adapters.  Queue pair q of the server leads to the target queue pair of
\* client q; a message in it goes to the shared receive queue of its dst.
Target(p, q) == IF p = Server THEN q ELSE Server
Dest(p, m) == IF p = Server THEN m.dst ELSE Server

\* The target queue pair at the other end of queue pair q of p answers.
Answers(p, q) ==
    LET t == Target(p, q)
    IN On(t) /\ (IF t = Server THEN p ELSE 0) \in connected[t]

\* Queue pair q of p delivers its next message, in order, into a receive.
Deliver(p, q) ==
    /\ On(p) /\ q \notin broken[p] /\ Answers(p, q)
    /\ \E k \in DOMAIN sq[p][q] :
        LET m == sq[p][q][k]
            d == Dest(p, m)
        IN /\ m.st = "posted" /\ \A j \in 1 .. k - 1 : sq[p][q][j].st # "posted"
           /\ On(d) /\ rx[d] > 0
           /\ sq' = [sq EXCEPT ![p][q][k].st = "delivered"]
           /\ rx' = [rx EXCEPT ![d] = @ - 1]
           /\ recv_cq' = [recv_cq EXCEPT ![d] = Append(@, IF d = Server THEN p ELSE q)]
           /\ armed' = [armed EXCEPT ![d] = FALSE]
           /\ events' = [events EXCEPT ![d] = IF armed[d] THEN @ + 1 ELSE @]
    /\ UNCHANGED <<options, pc, cnt, wc, pp_cnt, connected, tcpVars, send_cq, broken,
                   lost>>

\* The oldest request of queue pair q is over: acknowledged, perhaps after a
\* retransmission, or failed, when the other end is gone or the retries ran out
\* before anything got through.  A signaled or a failed request has a
\* completion.
SendDone(p, q) ==
    /\ On(p) /\ sq[p][q] # <<>>
    /\ LET m == Head(sq[p][q])
           gone == ~ On(Target(p, q)) \/ ~ On(Dest(p, m))
           failed == \/ m.st = "posted" /\ q \in broken[p]
                     \/ m.st # "delivered" /\ gone
       IN /\ m.st # "posted" \/ failed
          /\ sq' = [sq EXCEPT ![p][q] = Tail(@)]
          /\ send_cq' = [send_cq EXCEPT ![p] = IF m.signaled \/ failed THEN @ + 1 ELSE @]
    /\ UNCHANGED <<options, pc, cnt, wc, pp_cnt, connected, tcpVars, rx, recv_cq, armed,
                   events, broken, lost>>

LoseAck(p, q) ==
    /\ On(p) /\ sq[p][q] # <<>> /\ Head(sq[p][q]).st = "delivered"
    /\ lost < MaxLost /\ use_event \in Lossy
    /\ lost' = lost + 1
    /\ sq' = [sq EXCEPT ![p][q][1].st = "unacked"]
    /\ UNCHANGED <<options, pc, cnt, wc, pp_cnt, connected, tcpVars, rx, recv_cq,
                   send_cq, armed, events, broken>>

\* connect_qps gives a queue pair seven retries (retry_cnt, timeout): when the
\* target queue pair is not connected by then, the queue pair is in error.
\* (rnr_retry = 7 is without limit, and MaxLost losses in a row are not seven.)
RetriesEnd(p, q) ==
    /\ On(p) /\ sq[p][q] # <<>> /\ q \notin broken[p]
    /\ On(Target(p, q)) /\ ~ Answers(p, q)
    /\ broken' = [broken EXCEPT ![p] = @ \cup {q}]
    /\ UNCHANGED <<options, pc, cnt, wc, pp_cnt, connected, tcpVars, sq, rx, recv_cq,
                   send_cq, armed, events, lost>>

----------------------------------------------------------------------------
Run(p) ==
    \/ SendAddr(p) \/ RecvAddr(p) \/ Connect(p) \/ First(p)
    \/ GetEvent(p) \/ Poll(p) \/ PollNothing(p) \/ Reply(p)
    \/ DrainSend(p) \/ SendEnd(p) \/ RecvEnd(p) \/ Close(p)

Adapter(p) == \E q \in Peers(p) : Deliver(p, q) \/ SendDone(p, q)

AllClosed == \A p \in Procs : ~ On(p)

\* Retries of the server have run out: a message is lost, and its receiver waits
\* for it.
Stranded == broken[Server] # {}

Terminating == (AllClosed \/ Stranded) /\ UNCHANGED vars

Next ==
    \/ \E p \in Procs : Run(p) \/ Adapter(p) \/ \E q \in Peers(p) : LoseAck(p, q) \/ RetriesEnd(p, q)
    \/ Terminating

\* While a process can run or an adapter has work, one of them goes on: less
\* than each of them is given, and enough, since no step can be undone.
Spec == /\ Init /\ [][Next]_vars
        /\ WF_vars(\E p \in Procs : Run(p) \/ Adapter(p))

----------------------------------------------------------------------------
\* The comment before the termination handshake: no message that its receiver
\* still waits for is under way through the queue pair, or to the receive
\* queue, of a process that has closed its resources.  A message that was
\* delivered may be: with three tests or more an unsignaled one can follow the
\* signaled one in its queue, and nobody waits for its acknowledgement.
NobodyLeftEarly ==
    \A p \in Procs : On(p) => \A q \in Peers(p) : \A k \in DOMAIN sq[p][q] :
        sq[p][q][k].st = "posted" => On(Target(p, q)) /\ On(Dest(p, sq[p][q][k]))

\* The messages under way to process d.
UnderWay(d) ==
    {x \in Procs \X Clients \X (1 .. NumClients * num_tests) :
        LET p == x[1]
            q == x[2]
            k == x[3]
        IN  /\ q \in Peers(p) /\ k \in DOMAIN sq[p][q]
            /\ Dest(p, sq[p][q][k]) = d /\ sq[p][q][k].st = "posted"}

\* The peers are served: send_cq is not read any more.
Ended == {"recv_end", "send_end", "close", "closed"}

\* num_clients receives and completion queue entries are enough, although
\* nobody counts: a message under way finds a receive, and neither completion
\* queue overflows while it is read, although messages for one client travel
\* through the queue pairs of all of them.
QueuesSuffice ==
    \A p \in Procs :
        /\ On(p) => Cardinality(UnderWay(p)) <= rx[p]
        /\ rx[p] <= Num(p) /\ Len(recv_cq[p]) <= Num(p)
        /\ pc[p] \notin Ended => send_cq[p] <= Num(p)

\* Everybody ends: no wake-up is missed and no client waits for a message that
\* another one's exit has destroyed.  Only retries that run out stop the job:
\* the server posts its first messages without a sign that the clients have
\* connected, and nobody reads the status of a failed request.  A client's
\* messages always find the server connected.
Terminates == <>(AllClosed \/ Stranded)
=============================================================================
