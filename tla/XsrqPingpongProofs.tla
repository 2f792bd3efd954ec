------------------------- MODULE XsrqPingpongProofs -------------------------
(***************************************************************************)
(* xsrq_pingpong.c for every number of clients and messages and any number *)
(* of lost acknowledgements: no process closes while a message that        *)
(* somebody waits for passes through it, and the queues nobody counts      *)
(* suffice.                                                                *)
(*                                                                         *)
(* Between the server and a client one ball is in play: a message under    *)
(* way, a completion that waits, or one that is being handled, at one end  *)
(* (Turn). The counts of messages say at which end it is, and when it is   *)
(* out of play (Done). The server leaves its loop when it has counted      *)
(* num_tests completions for each client, in whatever order they came;     *)
(* cnt is the size of a set of pairs, one for every message of a client    *)
(* that is behind the server (Handled), so that set is then everything and *)
(* every ball is out of play (Progress). The handshake at the end makes    *)
(* everybody wait for that (Handshake).                                    *)
(*                                                                         *)
(* A ball is lost when the retries of its message run out (Astray): the    *)
(* pair it belongs to is never finished, and the completion of the failed  *)
(* request takes a place in a completion queue. This happens to messages   *)
(* of the server alone, for it has connected all its queue pairs before a  *)
(* client has connected one and can post a message (Linked).               *)
(***************************************************************************)
EXTENDS XsrqPingpong, FiniteSetTheorems, SequenceTheorems, TLAPS

\* The labels of a client and of the server.
Loop == {"event", "poll", "reply"}
Setup == {"recv_addr", "send_addr", "connect"}
ClientLabels == Setup \cup Loop \cup {"drain"} \cup Ended
ServerLabels == ClientLabels \cup {"first"}

Msgs(p) == [dst : Peers(p), signaled : BOOLEAN, st : {"posted", "delivered", "unacked"}]

\* The types of what the processes do and of what the adapters hold.
Control ==
    /\ use_event \in BOOLEAN /\ num_tests \in Nat \ {0}
    /\ pc \in [Procs -> ServerLabels] /\ \A c \in Clients : pc[c] \in ClientLabels
    /\ cnt \in [Procs -> Nat]
    /\ pc[Server] \notin Loop \cup {"close", "closed"} => cnt[Server] \in Clients
    /\ to_server \in [Clients -> Seq({"addr", "END"})]
    /\ to_client \in [Clients -> Seq({"addr", "END"})]
Data ==
    /\ wc \in [Procs -> Clients]
    /\ DOMAIN pp_cnt = Procs /\ \A p \in Procs : pp_cnt[p] \in [Peers(p) -> 0 .. num_tests]
    /\ DOMAIN sq = Procs /\ \A p \in Procs : sq[p] \in [Peers(p) -> Seq(Msgs(p))]
    /\ rx \in [Procs -> Nat] /\ recv_cq \in [Procs -> Seq(Clients)]
    /\ send_cq \in [Procs -> Nat]
Types == Control /\ Data

\* Messages of p for its peer i that are under way, that ask for a completion,
\* and that are under way and ask for none.
Posted(p, i) ==
    \E q \in Peers(p) : \E k \in DOMAIN sq[p][q] :
        sq[p][q][k].dst = i /\ sq[p][q][k].st = "posted"
Signals(p, i) ==
    \E q \in Peers(p) : \E k \in DOMAIN sq[p][q] :
        sq[p][q][k].dst = i /\ sq[p][q][k].signaled
Silent(p, i) ==
    \E q \in Peers(p) : \E k \in DOMAIN sq[p][q] :
        sq[p][q][k].dst = i /\ sq[p][q][k].st = "posted" /\ ~sq[p][q][k].signaled

\* For a peer there is one message under way and one that is signaled, at most,
\* in all queue pairs; the signaled one is the last, and no other is.
Alone(p) ==
    \A q, v \in Peers(p) : \A k \in DOMAIN sq[p][q], l \in DOMAIN sq[p][v] :
        /\ sq[p][q][k].dst = sq[p][v][l].dst
        /\ \/ sq[p][q][k].st = "posted" /\ sq[p][v][l].st = "posted"
           \/ sq[p][q][k].signaled /\ sq[p][v][l].signaled
        => q = v /\ k = l
LastSignals(p) ==
    \A i \in Peers(p) : /\ Signals(p, i) => pp_cnt[p][i] = num_tests
                        /\ Silent(p, i) => pp_cnt[p][i] # num_tests

\* The ball of client c, at the client and at the server: in the queue of
\* completions, or being handled.
Waits(c) == recv_cq[c] # <<>>
Handles(c) == pc[c] = "reply"
ServerWaits(c) == \E k \in DOMAIN recv_cq[Server] : recv_cq[Server][k] = c
ServerHandles(c) == pc[Server] = "reply" /\ wc[Server] = c

\* One ball is in play, and the counts say on whose side.
Turn(c) ==
    LET a == pp_cnt[Server][c]
        b == pp_cnt[c][0]
    IN  /\ a = b \/ a = b + 1
        /\ Posted(Server, c) \/ Waits(c) \/ Handles(c) => a = b + 1
        /\ Posted(c, 0) \/ ServerWaits(c) \/ ServerHandles(c) => a = b /\ b # 0
        /\ ~(Posted(Server, c) /\ Waits(c)) /\ ~(Posted(Server, c) /\ Handles(c))
        /\ ~(Waits(c) /\ Handles(c))
        /\ ~(Posted(c, 0) /\ ServerWaits(c)) /\ ~(Posted(c, 0) /\ ServerHandles(c))
        /\ ~(ServerWaits(c) /\ ServerHandles(c))

\* The receives and their completions.
Receives(p) == rx[p] + Len(recv_cq[p]) = Num(p)
OneEach == \A k, l \in DOMAIN recv_cq[Server] : recv_cq[Server][k] = recv_cq[Server][l] => k = l

\* The server's message for client c was lost when its retries ran out: nobody
\* has the ball.
Astray(c) ==
    /\ pp_cnt[Server][c] = pp_cnt[c][0] + 1
    /\ ~Posted(Server, c) /\ ~Waits(c) /\ ~Handles(c)

\* The completions of sends that have come or will come: one for the last
\* message to a peer, or for the one that was lost.
Full(p) == {i \in Peers(p) : pp_cnt[p][i] = num_tests \/ (p = Server /\ Astray(i))}
Signaling(p) == {i \in Peers(p) : Signals(p, i)}
Completions(p) ==
    pc[p] \notin Ended => send_cq[p] + Cardinality(Signaling(p)) <= Cardinality(Full(p))

\* The last message of client c is behind the server; the messages of c that
\* are.
Done(c) ==
    /\ pp_cnt[Server][c] = num_tests /\ pp_cnt[c][0] = num_tests
    /\ ~Posted(c, 0) /\ ~ServerWaits(c) /\ ~ServerHandles(c)
Behind(c) ==
    IF Done(c) THEN num_tests ELSE IF pp_cnt[Server][c] = 0 THEN 0 ELSE pp_cnt[Server][c] - 1
Handled == {x \in Clients \X (1 .. num_tests) : x[2] <= Behind(x[1])}

\* The server's count, and what it means to be before and after its loop.
Progress ==
    /\ pc[Server] \in Setup => \A c \in Clients : pp_cnt[Server][c] = 0
    /\ pc[Server] = "first" =>
          \A c \in Clients : /\ Behind(c) = 0
                             /\ c >= cnt[Server] => pp_cnt[Server][c] = 0
    /\ pc[Server] \in Loop => cnt[Server] = Cardinality(Handled)
    /\ pc[Server] \in {"drain"} \cup Ended => \A c \in Clients : Done(c)

\* A client closes after the server's END, which comes after its own.
Ready == {"recv_end", "close", "closed"}
Closing == {"send_end", "close", "closed"}
Handshake(c) ==
    /\ "END" \in Range(to_client[c]) \/ pc[c] \in {"close", "closed"} => pc[Server] \in Closing
    /\ "END" \in Range(to_server[c]) => pc[c] \in Ready
    /\ pc[Server] = "recv_end" /\ c < cnt[Server] => pc[c] \in Ready
    /\ pc[Server] \in Closing => pc[c] \in Ready

\* The messages and the completions are in order.
Balls ==
    /\ \A p \in Procs : Alone(p) /\ LastSignals(p) /\ Receives(p)
    /\ OneEach
    /\ \A c \in Clients : Turn(c)

\* The invariant.
Inv ==
    /\ Types /\ Balls /\ Progress
    /\ \A p \in Procs : Completions(p)
    /\ \A c \in Clients : Handshake(c)

\* The server connects to one client after the other, all before its first
\* message, so that no retries of a client, which only answers, run out.
Linked ==
    /\ DOMAIN connected = Procs /\ DOMAIN broken = Procs
    /\ \A c \in Clients :
          /\ pc[Server] \in Setup /\ c < cnt[Server] => c \in connected[Server]
          /\ pc[Server] \notin Setup => c \in connected[Server]
          /\ sq[c][0] # <<>> => pc[Server] \notin Setup
          /\ broken[c] = {}

-----------------------------------------------------------------------------
\* Facts about the processes.
LEMMA Processes ==
    /\ Procs = Clients \cup {Server} /\ Server \notin Clients /\ 0 \in Clients
    /\ Clients \subseteq Nat /\ Server \in Nat /\ NumClients \in Nat \ {0}
    /\ Peers(Server) = Clients /\ Num(Server) = NumClients
    /\ \A c \in Clients : Peers(c) = {0} /\ Num(c) = 1
    /\ \A p \in Procs : Peers(p) \subseteq Clients /\ 0 \in Peers(p) /\ Num(p) \in Nat \ {0}
<1>1. NumClients \in Nat \ {0}
  BY XsrqAssumption
<1>2. /\ Procs = Clients \cup {Server} /\ Server \notin Clients /\ 0 \in Clients
      /\ Clients \subseteq Nat /\ Server \in Nat
  BY <1>1 DEF Procs, Clients, Server
<1>3. Peers(Server) = Clients /\ Num(Server) = NumClients
  BY DEF Peers, Num, Clients
<1>4. \A c \in Clients : Peers(c) = {0} /\ Num(c) = 1
  BY <1>2 DEF Peers, Num
<1> QED  BY <1>1, <1>2, <1>3, <1>4

\* The peers of a process are as many as Num says.
LEMMA PeersFinite ==
    ASSUME NEW p \in Procs
    PROVE  /\ IsFiniteSet(Peers(p)) /\ Cardinality(Peers(p)) = Num(p)
           /\ \A S \in SUBSET Peers(p) : /\ IsFiniteSet(S) /\ Cardinality(S) \in Nat
                                         /\ Cardinality(S) <= Num(p)
<1>1. Num(p) \in Nat \ {0}
  BY Processes
<1>2. IsFiniteSet(Peers(p)) /\ Cardinality(Peers(p)) = Num(p)
  BY <1>1, FS_Interval DEF Peers
<1>3. ASSUME NEW S \in SUBSET Peers(p)
      PROVE  IsFiniteSet(S) /\ Cardinality(S) \in Nat /\ Cardinality(S) <= Num(p)
  BY <1>2, FS_Subset, FS_CardinalityType
<1> QED  BY <1>2, <1>3

\* The queue pairs of one process change, in one queue.
LEMMA QueueChange ==
    ASSUME Types, NEW p \in Procs, NEW q \in Peers(p), NEW s \in Seq(Msgs(p)),
           sq' = [sq EXCEPT ![p][q] = s]
    PROVE  /\ DOMAIN sq' = Procs /\ \A r \in Procs : sq'[r] \in [Peers(r) -> Seq(Msgs(r))]
           /\ sq'[p][q] = s /\ \A v \in Peers(p) \ {q} : sq'[p][v] = sq[p][v]
           /\ \A r \in Procs \ {p} : sq'[r] = sq[r]
<1>1. DOMAIN sq = Procs /\ \A r \in Procs : sq[r] \in [Peers(r) -> Seq(Msgs(r))]
  BY DEF Types, Control, Data
<1>2. DOMAIN sq' = Procs /\ sq'[p] = [sq[p] EXCEPT ![q] = s]
      /\ \A r \in Procs \ {p} : sq'[r] = sq[r]
  BY <1>1
<1>3. sq[p] \in [Peers(p) -> Seq(Msgs(p))]
  BY <1>1
<1>4. /\ sq'[p] \in [Peers(p) -> Seq(Msgs(p))]
      /\ sq'[p][q] = s /\ \A v \in Peers(p) \ {q} : sq'[p][v] = sq[p][v]
  BY <1>2, <1>3
<1> QED  BY <1>1, <1>2, <1>4

\* A process whose queue pairs stay as they are.
LEMMA SameQueues ==
    ASSUME NEW p, sq'[p] = sq[p]
    PROVE  /\ \A i : (Posted(p, i)' <=> Posted(p, i)) /\ (Signals(p, i)' <=> Signals(p, i))
           /\ \A i : Silent(p, i)' <=> Silent(p, i)
           /\ Alone(p)' <=> Alone(p)
BY DEF Posted, Signals, Silent, Alone

\* pp_post_send adds a message for its peer that is the only one under way.
LEMMA PostEffect ==
    ASSUME Types, NEW p \in Procs, NEW i \in Peers(p), pp_post_send(p, i), UNCHANGED num_tests,
           pp_cnt[p][i] < num_tests, ~Posted(p, i), Alone(p), LastSignals(p)
    PROVE  /\ DOMAIN sq' = Procs /\ \A r \in Procs : sq'[r] \in [Peers(r) -> Seq(Msgs(r))]
           /\ DOMAIN pp_cnt' = Procs
           /\ \A r \in Procs : pp_cnt'[r] \in [Peers(r) -> 0 .. num_tests]
           /\ \A r \in Procs \ {p} : sq'[r] = sq[r] /\ pp_cnt'[r] = pp_cnt[r]
           /\ pp_cnt'[p][i] = pp_cnt[p][i] + 1
           /\ \A j \in Peers(p) \ {i} : pp_cnt'[p][j] = pp_cnt[p][j]
           /\ \A j \in Peers(p) : Posted(p, j)' <=> Posted(p, j) \/ j = i
           /\ \A j \in Peers(p) :
                 Signals(p, j)' <=> Signals(p, j) \/ (j = i /\ pp_cnt'[p][i] = num_tests)
           /\ Alone(p)' /\ LastSignals(p)'
<1> DEFINE n == pp_cnt[p][i]
           q == (i + n) % Num(p)
           m == [dst |-> i, signaled |-> n + 1 >= num_tests, st |-> "posted"]
           s == Append(sq[p][q], m)
<1>1. /\ n \in Nat /\ num_tests \in Nat \ {0} /\ n < num_tests
      /\ DOMAIN pp_cnt = Procs /\ pp_cnt[p] \in [Peers(p) -> 0 .. num_tests]
      /\ \A r \in Procs : pp_cnt[r] \in [Peers(r) -> 0 .. num_tests]
  BY DEF Types, Control, Data
<1>2. q \in Peers(p)
  <2>1. Num(p) \in Nat \ {0} /\ i \in Nat
    BY Processes
  <2>2. q \in 0 .. Num(p) - 1
    BY <1>1, <2>1
  <2> QED  BY <2>2 DEF Peers
<1>3. m \in Msgs(p) /\ m.dst = i /\ m.st = "posted" /\ (m.signaled <=> n + 1 = num_tests)
  <2>1. (n + 1 >= num_tests) <=> (n + 1 = num_tests)
    BY <1>1
  <2>2. m.dst = i /\ m.st = "posted" /\ m.signaled = (n + 1 >= num_tests)
    OBVIOUS
  <2>3. ASSUME NEW b \in BOOLEAN  PROVE [dst |-> i, signaled |-> b, st |-> "posted"] \in Msgs(p)
    BY DEF Msgs
  <2>4. (n + 1 >= num_tests) \in BOOLEAN
    OBVIOUS
  <2>5. m \in Msgs(p)
    BY <2>3, <2>4, Zenon
  <2> QED  BY <2>1, <2>2, <2>5
<1>4. sq[p][q] \in Seq(Msgs(p)) /\ \A v \in Peers(p) : sq[p][v] \in Seq(Msgs(p))
  BY <1>2 DEF Types, Control, Data
<1>5. sq' = [sq EXCEPT ![p][q] = s]
  BY <1>1, <1>2 DEF pp_post_send
<1> HIDE DEF m, q
<1>6. s \in Seq(Msgs(p))
  BY <1>3, <1>4
<1>7. /\ DOMAIN s = 1 .. Len(sq[p][q]) + 1 /\ DOMAIN sq[p][q] = 1 .. Len(sq[p][q])
      /\ \A k \in DOMAIN sq[p][q] : s[k] = sq[p][q][k]
      /\ s[Len(sq[p][q]) + 1] = m /\ Len(sq[p][q]) \in Nat
  BY <1>3, <1>4
<1> HIDE DEF s
<1>8. /\ DOMAIN sq' = Procs /\ \A r \in Procs : sq'[r] \in [Peers(r) -> Seq(Msgs(r))]
      /\ sq'[p][q] = s /\ \A v \in Peers(p) \ {q} : sq'[p][v] = sq[p][v]
      /\ \A r \in Procs \ {p} : sq'[r] = sq[r]
  BY <1>2, <1>5, <1>6, QueueChange
<1>9. /\ DOMAIN pp_cnt' = Procs
      /\ pp_cnt'[p] = [pp_cnt[p] EXCEPT ![i] = n + 1]
      /\ \A r \in Procs \ {p} : pp_cnt'[r] = pp_cnt[r]
  BY <1>1 DEF pp_post_send
<1>10. /\ pp_cnt'[p] \in [Peers(p) -> 0 .. num_tests]
       /\ pp_cnt'[p][i] = n + 1 /\ \A j \in Peers(p) \ {i} : pp_cnt'[p][j] = pp_cnt[p][j]
  BY <1>1, <1>9
<1>11. ASSUME NEW v \in Peers(p), NEW k \in DOMAIN sq'[p][v]
       PROVE  \/ k \in DOMAIN sq[p][v] /\ sq'[p][v][k] = sq[p][v][k]
              \/ v = q /\ k = Len(sq[p][q]) + 1 /\ sq'[p][v][k] = m
  <2>1. CASE v = q
    <3>1. sq'[p][v] = s /\ k \in DOMAIN s
      BY <1>8, <2>1
    <3> DEFINE h == Len(sq[p][q])
    <3>2. /\ DOMAIN s = 1 .. h + 1 /\ DOMAIN sq[p][q] = 1 .. h /\ h \in Nat
          /\ s[h + 1] = m
      BY <1>7
    <3> HIDE DEF h
    <3>3. k \in 1 .. h \/ k = h + 1
      BY <3>1, <3>2
    <3>4. ASSUME k \in 1 .. h  PROVE k \in DOMAIN sq[p][v] /\ sq'[p][v][k] = sq[p][v][k]
      BY <1>7, <2>1, <3>1, <3>2, <3>4
    <3>5. ASSUME k = h + 1  PROVE sq'[p][v][k] = m
      BY <3>1, <3>2, <3>5
    <3> QED  BY <2>1, <3>3, <3>4, <3>5 DEF h
  <2>2. CASE v # q
    BY <1>8, <2>2
  <2> QED  BY <2>1, <2>2
<1>12. ASSUME NEW v \in Peers(p), NEW k \in DOMAIN sq[p][v]
       PROVE  k \in DOMAIN sq'[p][v] /\ sq'[p][v][k] = sq[p][v][k]
  <2>1. CASE v = q
    <3>1. k \in DOMAIN sq[p][q] /\ sq'[p][v] = s
      BY <1>8, <2>1
    <3>2. k \in DOMAIN s
      BY <1>7, <3>1
    <3> QED  BY <1>7, <2>1, <3>1, <3>2
  <2>2. CASE v # q
    BY <1>8, <2>2
  <2> QED  BY <2>1, <2>2
<1>13. Len(sq[p][q]) + 1 \in DOMAIN sq'[p][q] /\ sq'[p][q][Len(sq[p][q]) + 1] = m
  BY <1>7, <1>8
<1>14. ASSUME NEW j \in Peers(p)
       PROVE  Posted(p, j)' <=> Posted(p, j) \/ j = i
  <2>1. Posted(p, j) => Posted(p, j)'
    BY <1>12 DEF Posted
  <2>2. j = i => Posted(p, j)'
    BY <1>2, <1>3, <1>13 DEF Posted
  <2>3. Posted(p, j)' => Posted(p, j) \/ j = i
    BY <1>3, <1>11 DEF Posted
  <2> QED  BY <2>1, <2>2, <2>3
<1>15. ASSUME NEW j \in Peers(p)
       PROVE  Signals(p, j)' <=> Signals(p, j) \/ (j = i /\ n + 1 = num_tests)
  <2>1. Signals(p, j) => Signals(p, j)'
    BY <1>12 DEF Signals
  <2>2. j = i /\ n + 1 = num_tests => Signals(p, j)'
    BY <1>2, <1>3, <1>13 DEF Signals
  <2>3. Signals(p, j)' => Signals(p, j) \/ (j = i /\ n + 1 = num_tests)
    BY <1>3, <1>11 DEF Signals
  <2> QED  BY <2>1, <2>2, <2>3
<1>16. ~Signals(p, i)
  BY <1>1 DEF LastSignals
<1>17. Alone(p)'
  <2> SUFFICES ASSUME NEW v \in Peers(p), NEW w \in Peers(p),
                      NEW k \in DOMAIN sq'[p][v], NEW l \in DOMAIN sq'[p][w],
                      sq'[p][v][k].dst = sq'[p][w][l].dst,
                      \/ sq'[p][v][k].st = "posted" /\ sq'[p][w][l].st = "posted"
                      \/ sq'[p][v][k].signaled /\ sq'[p][w][l].signaled
               PROVE  v = w /\ k = l
    BY DEF Alone
  <2>1. CASE /\ k \in DOMAIN sq[p][v] /\ sq'[p][v][k] = sq[p][v][k]
             /\ l \in DOMAIN sq[p][w] /\ sq'[p][w][l] = sq[p][w][l]
    BY <2>1 DEF Alone
  <2>2. CASE /\ k \in DOMAIN sq[p][v] /\ sq'[p][v][k] = sq[p][v][k]
             /\ w = q /\ l = Len(sq[p][q]) + 1 /\ sq'[p][w][l] = m
    BY <1>3, <1>16, <2>2 DEF Posted, Signals
  <2>3. CASE /\ l \in DOMAIN sq[p][w] /\ sq'[p][w][l] = sq[p][w][l]
             /\ v = q /\ k = Len(sq[p][q]) + 1 /\ sq'[p][v][k] = m
    BY <1>3, <1>16, <2>3 DEF Posted, Signals
  <2> QED  BY <1>11, <2>1, <2>2, <2>3
<1>18. LastSignals(p)'
  <2>1. ASSUME NEW j \in Peers(p), Silent(p, j)'
        PROVE  Silent(p, j) \/ (j = i /\ n + 1 # num_tests)
    BY <1>3, <1>11, <2>1 DEF Silent
  <2>2. ~Silent(p, i)
    BY DEF Silent, Posted
  <2> QED  BY <1>1, <1>10, <1>15, <2>1, <2>2 DEF LastSignals
<1> QED  BY <1>1, <1>8, <1>9, <1>10, <1>14, <1>15, <1>17, <1>18

\* A message changes its status: it is delivered, or its acknowledgement lost.
LEMMA StatusEffect ==
    ASSUME Types, NEW p \in Procs, NEW q \in Peers(p), NEW k \in DOMAIN sq[p][q],
           NEW st \in {"delivered", "unacked"}, sq' = [sq EXCEPT ![p][q][k].st = st], Alone(p)
    PROVE  /\ DOMAIN sq' = Procs /\ \A r \in Procs : sq'[r] \in [Peers(r) -> Seq(Msgs(r))]
           /\ \A r \in Procs \ {p} : sq'[r] = sq[r]
           /\ \A j \in Peers(p) :
                 /\ Posted(p, j)' <=> /\ Posted(p, j)
                                      /\ ~(sq[p][q][k].st = "posted" /\ sq[p][q][k].dst = j)
                 /\ Signals(p, j)' <=> Signals(p, j)
                 /\ Silent(p, j)' => Silent(p, j)
           /\ Alone(p)'
<1> DEFINE m == [sq[p][q][k] EXCEPT !.st = st]
           s == [sq[p][q] EXCEPT ![k] = m]
<1>1. /\ \A v \in Peers(p) : sq[p][v] \in Seq(Msgs(p))
      /\ DOMAIN sq = Procs /\ sq[p] \in [Peers(p) -> Seq(Msgs(p))]
  BY DEF Types, Control, Data
<1>2. sq[p][q][k] \in Msgs(p) /\ DOMAIN sq[p][q] = 1 .. Len(sq[p][q]) /\ Len(sq[p][q]) \in Nat
  BY <1>1
<1>3. /\ m \in Msgs(p) /\ m.st = st /\ m.st # "posted"
      /\ m.dst = sq[p][q][k].dst /\ m.signaled = sq[p][q][k].signaled
  BY <1>2 DEF Msgs
<1>4. sq' = [sq EXCEPT ![p][q] = s]
  BY <1>1
<1> HIDE DEF m
<1>5. /\ s \in Seq(Msgs(p)) /\ DOMAIN s = DOMAIN sq[p][q] /\ s[k] = m
      /\ \A l \in DOMAIN sq[p][q] \ {k} : s[l] = sq[p][q][l]
  BY <1>1, <1>2, <1>3
<1> HIDE DEF s
<1>6. /\ DOMAIN sq' = Procs /\ \A r \in Procs : sq'[r] \in [Peers(r) -> Seq(Msgs(r))]
      /\ sq'[p][q] = s /\ \A v \in Peers(p) \ {q} : sq'[p][v] = sq[p][v]
      /\ \A r \in Procs \ {p} : sq'[r] = sq[r]
  BY <1>4, <1>5, QueueChange
<1>7. ASSUME NEW v \in Peers(p)
      PROVE  /\ DOMAIN sq'[p][v] = DOMAIN sq[p][v]
             /\ \A l \in DOMAIN sq[p][v] :
                   /\ sq'[p][v][l].dst = sq[p][v][l].dst
                   /\ sq'[p][v][l].signaled = sq[p][v][l].signaled
                   /\ sq'[p][v][l].st = IF v = q /\ l = k THEN st ELSE sq[p][v][l].st
  <2>1. CASE v = q
    BY <1>3, <1>5, <1>6, <2>1
  <2>2. CASE v # q
    BY <1>6, <2>2
  <2> QED  BY <2>1, <2>2
<1>8. ASSUME NEW j \in Peers(p)  PROVE Signals(p, j)' <=> Signals(p, j)
  BY <1>7 DEF Signals
<1>9. ASSUME NEW j \in Peers(p)
      PROVE  Posted(p, j)' <=> /\ Posted(p, j)
                               /\ ~(sq[p][q][k].st = "posted" /\ sq[p][q][k].dst = j)
  <2>1. ASSUME Posted(p, j)'
        PROVE  Posted(p, j) /\ ~(sq[p][q][k].st = "posted" /\ sq[p][q][k].dst = j)
    <3>0. PICK v \in Peers(p) : \E l \in DOMAIN sq'[p][v] :
             sq'[p][v][l].dst = j /\ sq'[p][v][l].st = "posted"
      BY <2>1 DEF Posted
    <3>1. PICK l \in DOMAIN sq'[p][v] : sq'[p][v][l].dst = j /\ sq'[p][v][l].st = "posted"
      BY <3>0
    <3>2. /\ l \in DOMAIN sq[p][v] /\ ~(v = q /\ l = k)
          /\ sq[p][v][l].dst = j /\ sq[p][v][l].st = "posted"
      BY <1>7, <3>1
    <3> QED  BY <3>2 DEF Posted, Alone
  <2>2. ASSUME Posted(p, j), ~(sq[p][q][k].st = "posted" /\ sq[p][q][k].dst = j)
        PROVE  Posted(p, j)'
    <3>0. PICK v \in Peers(p) : \E l \in DOMAIN sq[p][v] :
             sq[p][v][l].dst = j /\ sq[p][v][l].st = "posted"
      BY <2>2 DEF Posted
    <3>1. PICK l \in DOMAIN sq[p][v] : sq[p][v][l].dst = j /\ sq[p][v][l].st = "posted"
      BY <3>0
    <3>2. /\ l \in DOMAIN sq'[p][v]
          /\ sq'[p][v][l].dst = j /\ sq'[p][v][l].st = "posted"
      BY <1>7, <2>2, <3>1
    <3> QED  BY <3>2 DEF Posted
  <2> QED  BY <2>1, <2>2
<1>10. Alone(p)'
  <2> SUFFICES ASSUME NEW v \in Peers(p), NEW w \in Peers(p),
                      NEW x \in DOMAIN sq'[p][v], NEW l \in DOMAIN sq'[p][w],
                      sq'[p][v][x].dst = sq'[p][w][l].dst,
                      \/ sq'[p][v][x].st = "posted" /\ sq'[p][w][l].st = "posted"
                      \/ sq'[p][v][x].signaled /\ sq'[p][w][l].signaled
               PROVE  v = w /\ x = l
    BY DEF Alone
  <2>1. /\ x \in DOMAIN sq[p][v] /\ l \in DOMAIN sq[p][w]
        /\ sq[p][v][x].dst = sq[p][w][l].dst
        /\ \/ sq[p][v][x].st = "posted" /\ sq[p][w][l].st = "posted"
           \/ sq[p][v][x].signaled /\ sq[p][w][l].signaled
    BY <1>7
  <2> QED  BY <2>1 DEF Alone
<1>11. ASSUME NEW j \in Peers(p)  PROVE Silent(p, j)' => Silent(p, j)
  BY <1>7 DEF Silent
<1> QED  BY <1>6, <1>8, <1>9, <1>10, <1>11

\* The oldest request of a queue pair is over.
LEMMA RemovalEffect ==
    ASSUME Types, NEW p \in Procs, NEW q \in Peers(p), sq[p][q] # <<>>,
           sq' = [sq EXCEPT ![p][q] = Tail(@)], Alone(p)
    PROVE  /\ DOMAIN sq' = Procs /\ \A r \in Procs : sq'[r] \in [Peers(r) -> Seq(Msgs(r))]
           /\ \A r \in Procs \ {p} : sq'[r] = sq[r]
           /\ \A j \in Peers(p) :
                 /\ Posted(p, j)' <=> /\ Posted(p, j)
                                      /\ ~(Head(sq[p][q]).st = "posted" /\ Head(sq[p][q]).dst = j)
                 /\ Signals(p, j)' <=> /\ Signals(p, j)
                                       /\ ~(Head(sq[p][q]).signaled /\ Head(sq[p][q]).dst = j)
                 /\ Silent(p, j)' => Silent(p, j)
           /\ Alone(p)'
<1> DEFINE s == Tail(sq[p][q])
           n == Len(sq[p][q])
           h == Head(sq[p][q])
<1>1. /\ \A v \in Peers(p) : sq[p][v] \in Seq(Msgs(p))
      /\ DOMAIN sq = Procs /\ sq[p] \in [Peers(p) -> Seq(Msgs(p))]
  BY DEF Types, Control, Data
<1>2. /\ s \in Seq(Msgs(p)) /\ n \in Nat \ {0} /\ DOMAIN sq[p][q] = 1 .. n
      /\ DOMAIN s = 1 .. n - 1 /\ \A l \in 1 .. n - 1 : s[l] = sq[p][q][l + 1]
      /\ h = sq[p][q][1]
  BY <1>1
<1>3. sq' = [sq EXCEPT ![p][q] = s]
  BY <1>1
<1> HIDE DEF s, n, h
<1>4. /\ DOMAIN sq' = Procs /\ \A r \in Procs : sq'[r] \in [Peers(r) -> Seq(Msgs(r))]
      /\ sq'[p][q] = s /\ \A v \in Peers(p) \ {q} : sq'[p][v] = sq[p][v]
      /\ \A r \in Procs \ {p} : sq'[r] = sq[r]
  BY <1>2, <1>3, QueueChange
\* The place in the old queue of an entry of the new one.
<1> DEFINE Old(v, l) == IF v = q THEN l + 1 ELSE l
<1>5. ASSUME NEW v \in Peers(p), NEW l \in DOMAIN sq'[p][v]
      PROVE  /\ Old(v, l) \in DOMAIN sq[p][v] /\ sq'[p][v][l] = sq[p][v][Old(v, l)]
             /\ ~(v = q /\ Old(v, l) = 1) /\ l \in Nat
  <2>1. CASE v = q
    <3>1. l \in 1 .. n - 1
      BY <1>2, <1>4, <2>1
    <3> QED  BY <1>2, <1>4, <2>1, <3>1
  <2>2. CASE v # q
    <3>1. l \in DOMAIN sq[p][v] /\ sq'[p][v][l] = sq[p][v][l]
      BY <1>4, <2>2
    <3>2. l \in 1 .. Len(sq[p][v]) /\ Len(sq[p][v]) \in Nat
      BY <1>1, <3>1
    <3> QED  BY <2>2, <3>1, <3>2
  <2> QED  BY <2>1, <2>2
<1>6. ASSUME NEW v \in Peers(p), NEW l \in DOMAIN sq[p][v], ~(v = q /\ l = 1)
      PROVE  \E x \in DOMAIN sq'[p][v] : sq'[p][v][x] = sq[p][v][l]
  <2>1. CASE v = q
    <3>1. l - 1 \in 1 .. n - 1 /\ (l - 1) + 1 = l
      BY <1>2, <1>6, <2>1
    <3>2. s[l - 1] = sq[p][q][l]
      BY <1>2, <3>1
    <3> QED  BY <1>2, <1>4, <2>1, <3>1, <3>2
  <2>2. CASE v # q
    BY <1>4, <2>2
  <2> QED  BY <2>1, <2>2
<1>7. ASSUME NEW j \in Peers(p)
      PROVE  Posted(p, j)' <=> Posted(p, j) /\ ~(h.st = "posted" /\ h.dst = j)
  <2>1. ASSUME Posted(p, j)'  PROVE Posted(p, j) /\ ~(h.st = "posted" /\ h.dst = j)
    <3>0. PICK v \in Peers(p) : \E l \in DOMAIN sq'[p][v] :
             sq'[p][v][l].dst = j /\ sq'[p][v][l].st = "posted"
      BY <2>1 DEF Posted
    <3>1. PICK l \in DOMAIN sq'[p][v] : sq'[p][v][l].dst = j /\ sq'[p][v][l].st = "posted"
      BY <3>0
    <3>2. PICK x \in DOMAIN sq[p][v] : sq'[p][v][l] = sq[p][v][x] /\ ~(v = q /\ x = 1)
      BY <1>5
    <3>3. 1 \in DOMAIN sq[p][q]
      BY <1>2
    <3>4. ~(h.st = "posted" /\ h.dst = j)
      BY <1>2, <3>1, <3>2, <3>3 DEF Alone
    <3> QED  BY <3>1, <3>2, <3>4 DEF Posted
  <2>2. ASSUME Posted(p, j), ~(h.st = "posted" /\ h.dst = j)  PROVE Posted(p, j)'
    <3>0. PICK v \in Peers(p) : \E l \in DOMAIN sq[p][v] :
             sq[p][v][l].dst = j /\ sq[p][v][l].st = "posted"
      BY <2>2 DEF Posted
    <3>1. PICK l \in DOMAIN sq[p][v] : sq[p][v][l].dst = j /\ sq[p][v][l].st = "posted"
      BY <3>0
    <3>2. ~(v = q /\ l = 1)
      BY <1>2, <2>2, <3>1
    <3>3. PICK x \in DOMAIN sq'[p][v] : sq'[p][v][x] = sq[p][v][l]
      BY <1>6, <3>2
    <3> QED  BY <3>1, <3>3 DEF Posted
  <2> QED  BY <2>1, <2>2
<1>8. ASSUME NEW j \in Peers(p)
      PROVE  Signals(p, j)' <=> Signals(p, j) /\ ~(h.signaled /\ h.dst = j)
  <2>1. ASSUME Signals(p, j)'  PROVE Signals(p, j) /\ ~(h.signaled /\ h.dst = j)
    <3>0. PICK v \in Peers(p) : \E l \in DOMAIN sq'[p][v] :
             sq'[p][v][l].dst = j /\ sq'[p][v][l].signaled
      BY <2>1 DEF Signals
    <3>1. PICK l \in DOMAIN sq'[p][v] : sq'[p][v][l].dst = j /\ sq'[p][v][l].signaled
      BY <3>0
    <3>2. PICK x \in DOMAIN sq[p][v] : sq'[p][v][l] = sq[p][v][x] /\ ~(v = q /\ x = 1)
      BY <1>5
    <3>3. 1 \in DOMAIN sq[p][q]
      BY <1>2
    <3>4. ~(h.signaled /\ h.dst = j)
      BY <1>2, <3>1, <3>2, <3>3 DEF Alone
    <3> QED  BY <3>1, <3>2, <3>4 DEF Signals
  <2>2. ASSUME Signals(p, j), ~(h.signaled /\ h.dst = j)  PROVE Signals(p, j)'
    <3>0. PICK v \in Peers(p) : \E l \in DOMAIN sq[p][v] :
             sq[p][v][l].dst = j /\ sq[p][v][l].signaled
      BY <2>2 DEF Signals
    <3>1. PICK l \in DOMAIN sq[p][v] : sq[p][v][l].dst = j /\ sq[p][v][l].signaled
      BY <3>0
    <3>2. ~(v = q /\ l = 1)
      BY <1>2, <2>2, <3>1
    <3>3. PICK x \in DOMAIN sq'[p][v] : sq'[p][v][x] = sq[p][v][l]
      BY <1>6, <3>2
    <3> QED  BY <3>1, <3>3 DEF Signals
  <2> QED  BY <2>1, <2>2
<1>9. Alone(p)'
  <2> SUFFICES ASSUME NEW v \in Peers(p), NEW w \in Peers(p),
                      NEW x \in DOMAIN sq'[p][v], NEW l \in DOMAIN sq'[p][w],
                      sq'[p][v][x].dst = sq'[p][w][l].dst,
                      \/ sq'[p][v][x].st = "posted" /\ sq'[p][w][l].st = "posted"
                      \/ sq'[p][v][x].signaled /\ sq'[p][w][l].signaled
               PROVE  v = w /\ x = l
    BY DEF Alone
  <2>1. /\ Old(v, x) \in DOMAIN sq[p][v] /\ sq'[p][v][x] = sq[p][v][Old(v, x)] /\ x \in Nat
        /\ Old(w, l) \in DOMAIN sq[p][w] /\ sq'[p][w][l] = sq[p][w][Old(w, l)] /\ l \in Nat
    BY <1>5
  <2>2. v = w /\ Old(v, x) = Old(w, l)
    <3> HIDE DEF Old
    <3> QED  BY <2>1 DEF Alone
  <2> QED  BY <2>1, <2>2
<1>10. ASSUME NEW j \in Peers(p)  PROVE Silent(p, j)' => Silent(p, j)
  BY <1>5 DEF Silent
<1> QED  BY <1>4, <1>7, <1>8, <1>9, <1>10 DEF h

-----------------------------------------------------------------------------
\* A step that moves no message and no completion.
Still ==
    /\ UNCHANGED <<use_event, num_tests, pp_cnt, sq, rx, recv_cq, wc>>
    /\ \A p \in Procs : pc'[p] = "reply" <=> pc[p] = "reply"

\* Such a step leaves the balls and the counts of messages alone.
LEMMA StillBalls ==
    ASSUME Still
    PROVE  /\ Balls => Balls'
           /\ \A c \in Clients : (Done(c)' <=> Done(c)) /\ Behind(c)' = Behind(c)
           /\ \A c \in Clients : Astray(c)' <=> Astray(c)
           /\ Handled' = Handled
<1>1. \A p : \A i : /\ Posted(p, i)' <=> Posted(p, i)
                    /\ Signals(p, i)' <=> Signals(p, i)
                    /\ Silent(p, i)' <=> Silent(p, i)
  BY DEF Still, Posted, Signals, Silent
<1>2. \A c \in Clients : /\ Waits(c)' <=> Waits(c)
                         /\ Handles(c)' <=> Handles(c)
                         /\ ServerWaits(c)' <=> ServerWaits(c)
                         /\ ServerHandles(c)' <=> ServerHandles(c)
  BY Processes DEF Still, Waits, Handles, ServerWaits, ServerHandles
<1>3. \A c \in Clients : Turn(c) => Turn(c)'
  BY <1>1, <1>2 DEF Turn, Still
<1>4. \A p \in Procs : /\ Alone(p) => Alone(p)'
                       /\ LastSignals(p) => LastSignals(p)'
                       /\ Receives(p) => Receives(p)'
  BY <1>1 DEF Alone, LastSignals, Receives, Still
<1>5. OneEach => OneEach'
  BY DEF OneEach, Still
<1>6. \A c \in Clients : Done(c)' <=> Done(c)
  BY <1>1, <1>2 DEF Done, Still
<1>7. \A c \in Clients : Behind(c)' = Behind(c)
  BY <1>6 DEF Behind, Still
<1>8. Handled' = Handled
  <2>1. Clients' = Clients /\ num_tests' = num_tests
    BY DEF Still, Clients
  <2>2. \A x \in Clients \X (1 .. num_tests) : Behind(x[1])' = Behind(x[1])
    BY <1>7
  <2> QED  BY <2>1, <2>2 DEF Handled
<1>9. \A c \in Clients : Astray(c)' <=> Astray(c)
  BY <1>1, <1>2 DEF Astray, Still, Server
<1> QED  BY <1>3, <1>4, <1>5, <1>6, <1>7, <1>8, <1>9 DEF Balls

\* A process that posts nothing keeps its completions in bounds when none is
\* added and no message asks for one that did not.
LEMMA CompletionsKept ==
    ASSUME Types, NEW r \in Procs, Completions(r), num_tests' = num_tests,
           send_cq'[r] \in Nat, send_cq'[r] <= send_cq[r],
           pc'[r] \notin Ended => pc[r] \notin Ended,
           \A i \in Peers(r) : Signals(r, i)' => Signals(r, i),
           pp_cnt'[r] = pp_cnt[r],
           r = Server => \A c \in Clients : Astray(c) => Astray(c)'
    PROVE  Completions(r)'
<1>1. Peers(r)' = Peers(r) /\ Server' = Server
  BY DEF Peers, Num, Server
<1>2. Signaling(r)' \subseteq Signaling(r)
  BY <1>1 DEF Signaling
<1>3. Full(r) \subseteq Full(r)'
  <2>1. r = Server => Peers(r) = Clients
    BY Processes
  <2> QED  BY <1>1, <2>1 DEF Full
<1>4. Signaling(r) \in SUBSET Peers(r) /\ Full(r) \in SUBSET Peers(r) /\ Full(r)' \in SUBSET Peers(r)
  BY <1>1 DEF Signaling, Full
<1>5. /\ IsFiniteSet(Signaling(r)) /\ IsFiniteSet(Full(r)')
      /\ Cardinality(Signaling(r)) \in Nat /\ Cardinality(Full(r)) \in Nat
      /\ Cardinality(Full(r)') \in Nat
  BY <1>4, PeersFinite
<1>6. /\ Cardinality(Signaling(r)') \in Nat
      /\ Cardinality(Signaling(r)') <= Cardinality(Signaling(r))
      /\ Cardinality(Full(r)) <= Cardinality(Full(r)')
  BY <1>2, <1>3, <1>5, FS_Subset, FS_CardinalityType
<1>7. send_cq[r] \in Nat
  BY DEF Types, Data
<1> QED  BY <1>5, <1>6, <1>7 DEF Completions

\* The other processes' completions do not change with a step of one.
LEMMA OtherCompletions ==
    ASSUME Types, NEW r \in Procs, Completions(r), sq'[r] = sq[r], pp_cnt'[r] = pp_cnt[r],
           send_cq'[r] = send_cq[r], num_tests' = num_tests, pc'[r] = pc[r],
           r = Server => \A c \in Clients : Astray(c) => Astray(c)'
    PROVE  Completions(r)'
<1>1. \A i : Signals(r, i)' => Signals(r, i)
  BY SameQueues
<1>2. send_cq'[r] \in Nat /\ send_cq'[r] <= send_cq[r]
  BY DEF Types, Data
<1> QED  BY <1>1, <1>2, CompletionsKept

\* Such a step keeps the invariant if it keeps the part that is about the
\* programs, and adds no completion of a send.
LEMMA StillInv ==
    ASSUME Inv, Still, Control', Progress', \A c \in Clients : Handshake(c)',
           send_cq' \in [Procs -> Nat],
           \A p \in Procs : pc'[p] \notin Ended => pc[p] \notin Ended /\ send_cq'[p] <= send_cq[p]
    PROVE  Inv'
<1>1. Types /\ Balls /\ \A p \in Procs : Completions(p)
  BY DEF Inv
<1>2. Data'
  BY <1>1 DEF Types, Data, Still, Msgs, Peers, Num
<1>3. Balls'
  BY <1>1, StillBalls
<1>4. ASSUME NEW p \in Procs  PROVE Completions(p)'
  <2> SUFFICES ASSUME pc'[p] \notin Ended  PROVE Completions(p)'
    BY DEF Completions
  <2>1. \A i \in Peers(p) : Signals(p, i)' => Signals(p, i)
    BY DEF Signals, Still
  <2>2. /\ num_tests' = num_tests /\ pp_cnt'[p] = pp_cnt[p] /\ send_cq'[p] \in Nat
        /\ send_cq'[p] <= send_cq[p] /\ pc[p] \notin Ended
    BY DEF Still
  <2>3. \A c \in Clients : Astray(c) => Astray(c)'
    BY StillBalls
  <2> QED  BY <1>1, <2>1, <2>2, <2>3, CompletionsKept
<1> QED  BY <1>2, <1>3, <1>4 DEF Inv, Types

\* The index of a loop over the server's clients.
LEMMA IndexStep ==
    ASSUME Control, cnt[Server] \in Clients, NEW again, NEW next, NextIndex(Server, again, next)
    PROVE  /\ cnt' \in [Procs -> Nat] /\ pc' = [pc EXCEPT ![Server] = pc'[Server]]
           /\ \/ /\ cnt[Server] + 1 \in Clients /\ cnt'[Server] = cnt[Server] + 1
                 /\ pc'[Server] = again
              \/ /\ cnt[Server] + 1 = NumClients /\ cnt'[Server] = 0 /\ pc'[Server] = next
           /\ \A p \in Procs \ {Server} : pc'[p] = pc[p] /\ cnt'[p] = cnt[p]
<1>1. /\ cnt \in [Procs -> Nat] /\ Server \in Procs /\ Num(Server) = NumClients
      /\ pc \in [Procs -> ServerLabels] /\ NumClients \in Nat
  BY Processes DEF Control
<1>2. cnt[Server] + 1 < NumClients => cnt[Server] + 1 \in Clients
  BY <1>1 DEF Clients
<1>3. ~(cnt[Server] + 1 < NumClients) => cnt[Server] + 1 = NumClients
  BY <1>1 DEF Clients
<1> QED  BY <1>1, <1>2, <1>3 DEF NextIndex, Goto

\* What is in a TCP connection after a message is written or read.
LEMMA Wires ==
    ASSUME NEW s \in Seq({"addr", "END"})
    PROVE  /\ Append(s, "addr") \in Seq({"addr", "END"}) /\ Append(s, "END") \in Seq({"addr", "END"})
           /\ "END" \in Range(Append(s, "addr")) => "END" \in Range(s)
           /\ s # <<>> => /\ Tail(s) \in Seq({"addr", "END"})
                          /\ "END" \in Range(Tail(s)) => "END" \in Range(s)
                          /\ Head(s) = "END" => "END" \in Range(s)
<1>1. \A x : x \in Range(s) <=> \E k \in 1 .. Len(s) : s[k] = x
  BY DEF Range
<1>2. ASSUME "END" \in Range(Append(s, "addr"))  PROVE "END" \in Range(s)
  <2>1. PICK k \in 1 .. Len(s) + 1 : Append(s, "addr")[k] = "END"
    BY <1>2 DEF Range
  <2>2. k # Len(s) + 1
    BY <2>1
  <2>3. k \in 1 .. Len(s) /\ s[k] = "END"
    BY <2>1, <2>2
  <2> QED  BY <1>1, <2>3
<1>3. ASSUME s # <<>>
      PROVE  /\ Tail(s) \in Seq({"addr", "END"})
             /\ "END" \in Range(Tail(s)) => "END" \in Range(s)
             /\ Head(s) = "END" => "END" \in Range(s)
  <2>1. Tail(s) \in Seq({"addr", "END"}) /\ Len(s) \in Nat \ {0} /\ Head(s) = s[1]
    BY <1>3
  <2>2. ASSUME "END" \in Range(Tail(s))  PROVE "END" \in Range(s)
    <3>1. PICK k \in 1 .. Len(s) - 1 : Tail(s)[k] = "END"
      BY <1>3, <2>2 DEF Range
    <3>2. k + 1 \in 1 .. Len(s) /\ s[k + 1] = "END"
      BY <1>3, <2>1, <3>1
    <3> QED  BY <1>1, <3>2
  <2> QED  BY <1>1, <2>1, <2>2
<1> QED  BY <1>2, <1>3

\* The server stays in the same part of its program.
LEMMA StillProgress ==
    ASSUME Still, Progress,
           \/ pc'[Server] = pc[Server] /\ cnt'[Server] = cnt[Server]
           \/ pc[Server] \in Setup /\ pc'[Server] \in Setup
           \/ pc[Server] \in Loop /\ pc'[Server] \in Loop /\ cnt'[Server] = cnt[Server]
           \/ pc[Server] \in {"drain"} \cup Ended /\ pc'[Server] \in {"drain"} \cup Ended
    PROVE  Progress'
<1>1. /\ \A c \in Clients : (Done(c)' <=> Done(c)) /\ Behind(c)' = Behind(c)
      /\ Handled' = Handled /\ Clients' = Clients /\ pp_cnt' = pp_cnt
  BY StillBalls DEF Still, Clients
<1>2. Server' = Server
  BY DEF Server
<1> QED  BY <1>1, <1>2 DEF Progress, Setup, Loop, Ended

\* A process goes to another label.
LEMMA Moves ==
    ASSUME Control, NEW p \in Procs, NEW l, Goto(p, l)
    PROVE  /\ pc'[p] = l /\ \A r \in Procs \ {p} : pc'[r] = pc[r]
           /\ l \in ServerLabels => pc' \in [Procs -> ServerLabels]
BY DEF Control, Goto

\* The four uses of a TCP connection.
LEMMA Connections ==
    ASSUME Control, NEW c \in Clients, NEW m \in {"addr", "END"}
    PROVE  /\ Tell(c, m) =>
                 /\ to_client' \in [Clients -> Seq({"addr", "END"})] /\ to_server' = to_server
                 /\ to_client'[c] = Append(to_client[c], m)
                 /\ \A d \in Clients \ {c} : to_client'[d] = to_client[d]
           /\ Hear(c, m) =>
                 /\ to_client' \in [Clients -> Seq({"addr", "END"})] /\ to_server' = to_server
                 /\ \A d \in Clients : "END" \in Range(to_client'[d]) => "END" \in Range(to_client[d])
                 /\ m = "END" => "END" \in Range(to_client[c])
           /\ TellServer(c, m) =>
                 /\ to_server' \in [Clients -> Seq({"addr", "END"})] /\ to_client' = to_client
                 /\ to_server'[c] = Append(to_server[c], m)
                 /\ \A d \in Clients \ {c} : to_server'[d] = to_server[d]
           /\ HearFrom(c, m) =>
                 /\ to_server' \in [Clients -> Seq({"addr", "END"})] /\ to_client' = to_client
                 /\ \A d \in Clients : "END" \in Range(to_server'[d]) => "END" \in Range(to_server[d])
                 /\ m = "END" => "END" \in Range(to_server[c])
<1>1. /\ to_server \in [Clients -> Seq({"addr", "END"})]
      /\ to_client \in [Clients -> Seq({"addr", "END"})]
  BY DEF Control
<1>2. to_server[c] \in Seq({"addr", "END"}) /\ to_client[c] \in Seq({"addr", "END"})
  BY <1>1
<1>3. /\ Append(to_client[c], m) \in Seq({"addr", "END"})
      /\ Append(to_server[c], m) \in Seq({"addr", "END"})
  BY <1>2
<1>4. Tell(c, m) =>
         /\ to_client' \in [Clients -> Seq({"addr", "END"})] /\ to_server' = to_server
         /\ to_client'[c] = Append(to_client[c], m)
         /\ \A d \in Clients \ {c} : to_client'[d] = to_client[d]
  BY <1>1, <1>3 DEF Tell
<1>5. TellServer(c, m) =>
         /\ to_server' \in [Clients -> Seq({"addr", "END"})] /\ to_client' = to_client
         /\ to_server'[c] = Append(to_server[c], m)
         /\ \A d \in Clients \ {c} : to_server'[d] = to_server[d]
  BY <1>1, <1>3 DEF TellServer
<1>6. ASSUME Hear(c, m)
      PROVE  /\ to_client' \in [Clients -> Seq({"addr", "END"})] /\ to_server' = to_server
             /\ \A d \in Clients : "END" \in Range(to_client'[d]) => "END" \in Range(to_client[d])
             /\ m = "END" => "END" \in Range(to_client[c])
  <2>1. /\ Tail(to_client[c]) \in Seq({"addr", "END"})
        /\ "END" \in Range(Tail(to_client[c])) => "END" \in Range(to_client[c])
        /\ Head(to_client[c]) = "END" => "END" \in Range(to_client[c])
    BY <1>2, <1>6, Wires DEF Hear
  <2>2. /\ to_client' = [to_client EXCEPT ![c] = Tail(to_client[c])] /\ to_server' = to_server
        /\ Head(to_client[c]) = m
    BY <1>6 DEF Hear
  <2>3. to_client'[c] = Tail(to_client[c]) /\ \A d \in Clients \ {c} : to_client'[d] = to_client[d]
    BY <1>1, <2>2
  <2> QED  BY <1>1, <2>1, <2>2, <2>3
<1>7. ASSUME HearFrom(c, m)
      PROVE  /\ to_server' \in [Clients -> Seq({"addr", "END"})] /\ to_client' = to_client
             /\ \A d \in Clients : "END" \in Range(to_server'[d]) => "END" \in Range(to_server[d])
             /\ m = "END" => "END" \in Range(to_server[c])
  <2>1. /\ Tail(to_server[c]) \in Seq({"addr", "END"})
        /\ "END" \in Range(Tail(to_server[c])) => "END" \in Range(to_server[c])
        /\ Head(to_server[c]) = "END" => "END" \in Range(to_server[c])
    BY <1>2, <1>7, Wires DEF HearFrom
  <2>2. /\ to_server' = [to_server EXCEPT ![c] = Tail(to_server[c])] /\ to_client' = to_client
        /\ Head(to_server[c]) = m
    BY <1>7 DEF HearFrom
  <2>3. to_server'[c] = Tail(to_server[c]) /\ \A d \in Clients \ {c} : to_server'[d] = to_server[d]
    BY <1>1, <2>2
  <2> QED  BY <1>1, <2>1, <2>2, <2>3
<1> QED  BY <1>4, <1>5, <1>6, <1>7

\* The exchange of addresses.
LEMMA SendAddrInv ==
    ASSUME Inv, NEW p \in Procs, SendAddr(p)
    PROVE  Inv'
<1>1. /\ Control /\ Progress /\ send_cq \in [Procs -> Nat] /\ pc[p] = "send_addr"
      /\ \A c \in Clients : Handshake(c)
      /\ p = Server => cnt[p] \in Clients
  BY DEF Inv, Types, Control, Data, SendAddr, At, Loop
<1>2. UNCHANGED <<use_event, num_tests, cnt, wc, pp_cnt, sq, rx, recv_cq, send_cq>>
  BY DEF SendAddr, options, adapterVars
<1>3. PICK l \in {"connect", "recv_addr"} : Goto(p, l) /\ (p = Server => l = "connect")
  BY DEF SendAddr
<1>4. /\ pc'[p] = l /\ \A r \in Procs \ {p} : pc'[r] = pc[r]
      /\ pc' \in [Procs -> ServerLabels]
  <2>1. l \in ServerLabels
    BY <1>3 DEF ServerLabels, ClientLabels, Setup
  <2> QED  BY <1>1, <1>3, <2>1, Moves
<1>5. Still
  BY <1>1, <1>2, <1>3, <1>4 DEF Still
<1>6. /\ to_server' \in [Clients -> Seq({"addr", "END"})]
      /\ to_client' \in [Clients -> Seq({"addr", "END"})]
      /\ \A d \in Clients : /\ "END" \in Range(to_server'[d]) => "END" \in Range(to_server[d])
                            /\ "END" \in Range(to_client'[d]) => "END" \in Range(to_client[d])
  <2>1. /\ to_server \in [Clients -> Seq({"addr", "END"})]
        /\ to_client \in [Clients -> Seq({"addr", "END"})]
    BY <1>1 DEF Control
  <2>2. \A d \in Clients :
           /\ "END" \in Range(Append(to_server[d], "addr")) => "END" \in Range(to_server[d])
           /\ "END" \in Range(Append(to_client[d], "addr")) => "END" \in Range(to_client[d])
    BY <2>1, Wires
  <2>3. CASE p = Server
    BY <1>1, <2>1, <2>2, <2>3, Connections DEF SendAddr
  <2>4. CASE p # Server
    BY <1>1, <2>1, <2>2, <2>4, Connections, Processes DEF SendAddr
  <2> QED  BY <2>3, <2>4
<1>7. Control'
  <2>1. \A c \in Clients : pc'[c] \in ClientLabels
    BY <1>1, <1>3, <1>4, Processes DEF Control, ClientLabels, Setup
  <2>2. pc'[Server] \notin Loop \cup {"close", "closed"} => cnt'[Server] \in Clients
    BY <1>1, <1>2, <1>4, Processes DEF Control
  <2> QED  BY <1>1, <1>2, <1>4, <1>6, <2>1, <2>2 DEF Control, Procs, Clients, Server
<1>8. Progress'
  BY <1>1, <1>2, <1>3, <1>4, <1>5, StillProgress, Processes DEF Setup
<1>9. ASSUME NEW c \in Clients  PROVE Handshake(c)'
  BY <1>1, <1>2, <1>3, <1>4, <1>6, Processes DEF Handshake, Ready, Closing
<1> QED
  <2>1. \A r \in Procs : pc'[r] \notin Ended => pc[r] \notin Ended /\ send_cq'[r] <= send_cq[r]
    BY <1>1, <1>2, <1>4 DEF Ended
  <2> QED  BY <1>1, <1>2, <1>5, <1>7, <1>8, <1>9, <2>1, StillInv

\* A process reads the address of its peer.
LEMMA RecvAddrInv ==
    ASSUME Inv, NEW p \in Procs, RecvAddr(p)
    PROVE  Inv'
<1>1. /\ Control /\ Progress /\ send_cq \in [Procs -> Nat] /\ pc[p] = "recv_addr"
      /\ \A c \in Clients : Handshake(c)
      /\ p = Server => cnt[p] \in Clients
  BY DEF Inv, Types, Control, Data, RecvAddr, At, Loop
<1>2. UNCHANGED <<use_event, num_tests, cnt, wc, pp_cnt, sq, rx, recv_cq, send_cq>>
  BY DEF RecvAddr, options, adapterVars
<1>3. PICK l \in {"connect", "send_addr"} : Goto(p, l)
  BY DEF RecvAddr
<1>4. /\ pc'[p] = l /\ \A r \in Procs \ {p} : pc'[r] = pc[r]
      /\ pc' \in [Procs -> ServerLabels]
  <2>1. l \in ServerLabels
    BY <1>3 DEF ServerLabels, ClientLabels, Setup
  <2> QED  BY <1>1, <1>3, <2>1, Moves
<1>5. Still
  BY <1>1, <1>2, <1>3, <1>4 DEF Still
<1>6. /\ to_server' \in [Clients -> Seq({"addr", "END"})]
      /\ to_client' \in [Clients -> Seq({"addr", "END"})]
      /\ \A d \in Clients : /\ "END" \in Range(to_server'[d]) => "END" \in Range(to_server[d])
                            /\ "END" \in Range(to_client'[d]) => "END" \in Range(to_client[d])
  <2>1. /\ to_server \in [Clients -> Seq({"addr", "END"})]
        /\ to_client \in [Clients -> Seq({"addr", "END"})]
    BY <1>1 DEF Control
  <2>2. CASE p = Server
    BY <1>1, <2>1, <2>2, Connections DEF RecvAddr
  <2>3. CASE p # Server
    BY <1>1, <2>1, <2>3, Connections, Processes DEF RecvAddr
  <2> QED  BY <2>2, <2>3
<1>7. Control'
  <2>1. \A c \in Clients : pc'[c] \in ClientLabels
    BY <1>1, <1>3, <1>4, Processes DEF Control, ClientLabels, Setup
  <2>2. pc'[Server] \notin Loop \cup {"close", "closed"} => cnt'[Server] \in Clients
    BY <1>1, <1>2, <1>4, Processes DEF Control
  <2> QED  BY <1>1, <1>2, <1>4, <1>6, <2>1, <2>2 DEF Control, Procs, Clients, Server
<1>8. Progress'
  BY <1>1, <1>2, <1>3, <1>4, <1>5, StillProgress, Processes DEF Setup
<1>9. ASSUME NEW c \in Clients  PROVE Handshake(c)'
  BY <1>1, <1>2, <1>3, <1>4, <1>6, Processes DEF Handshake, Ready, Closing
<1> QED
  <2>1. \A r \in Procs : pc'[r] \notin Ended => pc[r] \notin Ended /\ send_cq'[r] <= send_cq[r]
    BY <1>1, <1>2, <1>4 DEF Ended
  <2> QED  BY <1>1, <1>2, <1>5, <1>7, <1>8, <1>9, <2>1, StillInv

\* The top of the main loop.
LEMMA LoopTops ==
    \A n, p : LoopTop(n, p) \in {"event", "poll", "drain"}
BY DEF LoopTop

\* Before its first message the server has nothing behind it.
LEMMA NothingBehind ==
    ASSUME Types, NEW c \in Clients, pp_cnt[Server][c] = 0
    PROVE  Behind(c) = 0 /\ ~Done(c)
BY DEF Types, Control, Behind, Done

\* connect_qps: the next client, or the first messages and the loop.
LEMMA ConnectInv ==
    ASSUME Inv, NEW p \in Procs, Connect(p)
    PROVE  Inv'
<1>1. /\ Types /\ Control /\ Progress /\ send_cq \in [Procs -> Nat] /\ pc[p] = "connect"
      /\ \A c \in Clients : Handshake(c)
      /\ p = Server => cnt[p] \in Clients
  BY DEF Inv, Types, Control, Data, Connect, At, Loop
<1>2. UNCHANGED <<use_event, num_tests, wc, pp_cnt, sq, rx, recv_cq, send_cq, to_server, to_client>>
  BY DEF Connect, options, adapterVars, tcpVars
<1>3. CASE p = Server
  <2>1. NextIndex(Server, "recv_addr", "first")
    BY <1>3 DEF Connect
  <2>2. /\ cnt' \in [Procs -> Nat]
        /\ pc'[Server] \in {"recv_addr", "first"} /\ cnt'[Server] \in Clients
        /\ \A r \in Procs \ {Server} : pc'[r] = pc[r] /\ cnt'[r] = cnt[r]
    BY <1>1, <1>3, <2>1, IndexStep, Processes
  <2>3. pc' \in [Procs -> ServerLabels]
    <3>1. pc' = [pc EXCEPT ![Server] = pc'[Server]]
      BY <1>1, <1>3, <2>1, IndexStep
    <3>2. pc'[Server] \in ServerLabels
      BY <2>2 DEF ServerLabels, ClientLabels, Setup
    <3> QED  BY <1>1, <3>1, <3>2 DEF Control
  <2>4. Still
    BY <1>1, <1>2, <1>3, <2>2 DEF Still
  <2>5. Control'
    BY <1>1, <1>2, <2>2, <2>3, Processes DEF Control, Procs, Clients, Server
  <2>6. Progress'
    <3>1. \A c \in Clients : pp_cnt[Server][c] = 0
      BY <1>1, <1>3 DEF Progress, Setup
    <3>2. \A c \in Clients : Behind(c)' = 0
      BY <1>1, <2>4, <3>1, NothingBehind, StillBalls
    <3> QED  BY <1>2, <2>2, <3>1, <3>2 DEF Progress, Setup, Loop, Ended, Clients, Server
  <2>7. ASSUME NEW c \in Clients  PROVE Handshake(c)'
    BY <1>1, <1>2, <1>3, <2>2, Processes DEF Handshake, Ready, Closing
  <2>8. \A r \in Procs : pc'[r] \notin Ended => pc[r] \notin Ended /\ send_cq'[r] <= send_cq[r]
    BY <1>1, <1>2, <1>3, <2>2 DEF Ended
  <2> QED  BY <1>1, <1>2, <2>4, <2>5, <2>6, <2>7, <2>8, StillInv
<1>4. CASE p # Server
  <2>1. PICK l \in {"event", "poll", "drain"} : Goto(p, l)
    BY <1>4, LoopTops DEF Connect
  <2>2. /\ pc'[p] = l /\ \A r \in Procs \ {p} : pc'[r] = pc[r]
        /\ pc' \in [Procs -> ServerLabels] /\ cnt' = cnt
    <3>1. l \in ServerLabels
      BY <2>1 DEF ServerLabels, ClientLabels, Loop
    <3> QED  BY <1>1, <1>4, <2>1, <3>1, Moves DEF Connect
  <2>3. Still
    BY <1>1, <1>2, <2>1, <2>2 DEF Still
  <2>4. p \in Clients /\ pc'[Server] = pc[Server]
    BY <1>4, <2>2, Processes
  <2>5. Control'
    <3>1. \A c \in Clients : pc'[c] \in ClientLabels
      BY <1>1, <2>1, <2>2, Processes DEF Control, ClientLabels, Loop
    <3> QED  BY <1>1, <1>2, <2>2, <2>4, <3>1 DEF Control, Procs, Clients, Server
  <2>6. Progress'
    BY <1>1, <2>2, <2>3, <2>4, StillProgress
  <2>7. ASSUME NEW c \in Clients  PROVE Handshake(c)'
    BY <1>1, <1>2, <2>1, <2>2, <2>4, Processes DEF Handshake, Ready, Closing
  <2>8. \A r \in Procs : pc'[r] \notin Ended => pc[r] \notin Ended /\ send_cq'[r] <= send_cq[r]
    BY <1>1, <1>2, <2>2 DEF Ended
  <2> QED  BY <1>1, <1>2, <2>3, <2>5, <2>6, <2>7, <2>8, StillInv
<1> QED  BY <1>3, <1>4

\* get_cq_event.
LEMMA GetEventInv ==
    ASSUME Inv, NEW p \in Procs, GetEvent(p)
    PROVE  Inv'
<1>1. /\ Control /\ Progress /\ send_cq \in [Procs -> Nat] /\ pc[p] = "event"
      /\ \A c \in Clients : Handshake(c)
  BY DEF Inv, Types, Data, GetEvent, At
<1>2. UNCHANGED <<use_event, num_tests, cnt, wc, pp_cnt, sq, rx, recv_cq, send_cq, to_server,
                  to_client>>
  BY DEF GetEvent, options, tcpVars
<1>3. /\ pc'[p] = "poll" /\ \A r \in Procs \ {p} : pc'[r] = pc[r]
      /\ pc' \in [Procs -> ServerLabels]
  <2>1. "poll" \in ServerLabels
    BY DEF ServerLabels, ClientLabels, Loop
  <2> QED  BY <1>1, <2>1, Moves DEF GetEvent
<1>4. Still
  BY <1>1, <1>2, <1>3 DEF Still
<1>5. Control'
  <2>1. \A c \in Clients : pc'[c] \in ClientLabels
    BY <1>1, <1>3, Processes DEF Control, ClientLabels, Loop
  <2>2. pc'[Server] \notin Loop \cup {"close", "closed"} => cnt'[Server] \in Clients
    BY <1>1, <1>2, <1>3, Processes DEF Control, Loop
  <2> QED  BY <1>1, <1>2, <1>3, <2>1, <2>2 DEF Control, Procs, Clients, Server
<1>6. Progress'
  BY <1>1, <1>2, <1>3, <1>4, StillProgress, Processes DEF Loop
<1>7. ASSUME NEW c \in Clients  PROVE Handshake(c)'
  BY <1>1, <1>2, <1>3, Processes DEF Handshake, Ready, Closing
<1> QED
  <2>1. \A r \in Procs : pc'[r] \notin Ended => pc[r] \notin Ended /\ send_cq'[r] <= send_cq[r]
    BY <1>1, <1>2, <1>3 DEF Ended
  <2> QED  BY <1>1, <1>2, <1>4, <1>5, <1>6, <1>7, <2>1, StillInv

\* A process closes its resources.
LEMMA CloseInv ==
    ASSUME Inv, NEW p \in Procs, Close(p)
    PROVE  Inv'
<1>1. /\ Control /\ Progress /\ send_cq \in [Procs -> Nat] /\ pc[p] = "close"
      /\ \A c \in Clients : Handshake(c)
  BY DEF Inv, Types, Data, Close, At
<1>2. UNCHANGED <<use_event, num_tests, cnt, wc, pp_cnt, sq, rx, recv_cq, send_cq, to_server,
                  to_client>>
  BY DEF Close, options, tcpVars, adapterVars
<1>3. /\ pc'[p] = "closed" /\ \A r \in Procs \ {p} : pc'[r] = pc[r]
      /\ pc' \in [Procs -> ServerLabels]
  <2>1. "closed" \in ServerLabels
    BY DEF ServerLabels, ClientLabels, Ended
  <2> QED  BY <1>1, <2>1, Moves DEF Close
<1>4. Still
  BY <1>1, <1>2, <1>3 DEF Still
<1>5. Control'
  <2>1. \A c \in Clients : pc'[c] \in ClientLabels
    BY <1>1, <1>3, Processes DEF Control, ClientLabels, Ended
  <2>2. pc'[Server] \notin Loop \cup {"close", "closed"} => cnt'[Server] \in Clients
    BY <1>1, <1>2, <1>3, Processes DEF Control
  <2> QED  BY <1>1, <1>2, <1>3, <2>1, <2>2 DEF Control, Procs, Clients, Server
<1>6. Progress'
  BY <1>1, <1>2, <1>3, <1>4, StillProgress, Processes DEF Ended
<1>7. ASSUME NEW c \in Clients  PROVE Handshake(c)'
  BY <1>1, <1>2, <1>3, Processes DEF Handshake, Ready, Closing
<1> QED
  <2>1. \A r \in Procs : pc'[r] \notin Ended => pc[r] \notin Ended /\ send_cq'[r] <= send_cq[r]
    BY <1>1, <1>2, <1>3 DEF Ended
  <2> QED  BY <1>1, <1>2, <1>4, <1>5, <1>6, <1>7, <2>1, StillInv

-----------------------------------------------------------------------------
\* The pairs the server has counted are a finite set; when there are as many as
\* the loop waits for, every client is done.
LEMMA HandledFinite ==
    ASSUME Types
    PROVE  /\ IsFiniteSet(Handled) /\ Cardinality(Handled) \in Nat
           /\ Cardinality(Handled) >= NumClients * num_tests => \A c \in Clients : Done(c)
           /\ NumClients * num_tests \in Nat \ {0}
<1> DEFINE all == Clients \X (1 .. num_tests)
<1>1. num_tests \in Nat \ {0} /\ NumClients \in Nat \ {0}
  BY Processes DEF Types, Control
<1>2. IsFiniteSet(Clients) /\ Cardinality(Clients) = NumClients
  BY <1>1, FS_Interval DEF Clients
<1>3. IsFiniteSet(1 .. num_tests) /\ Cardinality(1 .. num_tests) = num_tests
  BY <1>1, FS_Interval
<1>4. IsFiniteSet(all) /\ Cardinality(all) = NumClients * num_tests
  BY <1>2, <1>3, FS_Product
<1>5. Handled \in SUBSET all
  BY DEF Handled
<1>6. /\ IsFiniteSet(Handled) /\ Cardinality(Handled) <= Cardinality(all)
      /\ Cardinality(all) = Cardinality(Handled) => all = Handled
  BY <1>4, <1>5, FS_Subset
<1>7. Cardinality(Handled) \in Nat /\ Cardinality(all) \in Nat
  BY <1>4, <1>6, FS_CardinalityType
<1>8. all # {}
  <2>1. <<0, 1>> \in all
    BY <1>1, Processes
  <2> QED  BY <2>1
<1>9. NumClients * num_tests \in Nat \ {0}
  BY <1>4, <1>7, <1>8, FS_EmptySet
<1>10. ASSUME Cardinality(Handled) >= NumClients * num_tests, NEW c \in Clients
       PROVE  Done(c)
  <2>1. all = Handled
    <3> HIDE DEF all
    <3> QED  BY <1>4, <1>6, <1>7, <1>10
  <2>2. <<c, num_tests>> \in Handled
    BY <1>1, <2>1
  <2>3. num_tests <= Behind(c)
    BY <2>2 DEF Handled
  <2>4. pp_cnt[Server][c] \in 0 .. num_tests
    BY Processes DEF Types, Data
  <2> QED  BY <1>1, <2>3, <2>4 DEF Behind
<1> QED  BY <1>6, <1>7, <1>9, <1>10

\* The inner loop ends; the server leaves the outer one when every ball is out
\* of play.
LEMMA PollNothingInv ==
    ASSUME Inv, NEW p \in Procs, PollNothing(p)
    PROVE  Inv'
<1> DEFINE l == LoopTop(cnt[p], p)
<1>1. /\ Types /\ Control /\ Progress /\ send_cq \in [Procs -> Nat] /\ pc[p] = "poll"
      /\ \A c \in Clients : Handshake(c)
  BY DEF Inv, Types, Data, PollNothing, At
<1>2. UNCHANGED <<use_event, num_tests, wc, pp_cnt, sq, rx, recv_cq, send_cq, to_server,
                  to_client>>
  BY DEF PollNothing, options, tcpVars, adapterVars
<1>3. l \in {"event", "drain"}
  BY LoopTops DEF PollNothing
<1>4. /\ pc'[p] = l /\ \A r \in Procs \ {p} : pc'[r] = pc[r]
      /\ pc' \in [Procs -> ServerLabels]
  <2>1. l \in ServerLabels
    BY <1>3 DEF ServerLabels, ClientLabels, Loop
  <2> QED  BY <1>1, <2>1, Moves DEF PollNothing
<1>5. /\ cnt' \in [Procs -> Nat] /\ cnt'[p] = (IF l = "drain" THEN 0 ELSE cnt[p])
      /\ \A r \in Procs \ {p} : cnt'[r] = cnt[r]
  <2>1. cnt \in [Procs -> Nat]
    BY <1>1 DEF Control
  <2>2. cnt' = [cnt EXCEPT ![p] = IF l = "drain" THEN 0 ELSE cnt[p]]
    BY DEF PollNothing
  <2> HIDE DEF l
  <2> QED  BY <2>1, <2>2
<1> HIDE DEF l
<1>6. Still
  BY <1>1, <1>2, <1>3, <1>4 DEF Still
<1>7. Control'
  <2>1. \A c \in Clients : pc'[c] \in ClientLabels
    BY <1>1, <1>3, <1>4, Processes DEF Control, ClientLabels, Loop
  <2>2. pc'[Server] \notin Loop \cup {"close", "closed"} => cnt'[Server] \in Clients
    BY <1>1, <1>3, <1>4, <1>5, Processes DEF Control, Loop
  <2> QED  BY <1>1, <1>2, <1>4, <1>5, <2>1, <2>2 DEF Control, Procs, Clients, Server
<1>8. Progress'
  <2>1. CASE p = Server /\ l = "drain"
    <3>1. ~(cnt[Server] < NumClients * num_tests)
      BY <1>1, <2>1, Processes DEF l, LoopTop, Control
    <3>2. cnt[Server] = Cardinality(Handled)
      BY <1>1, <2>1 DEF Progress, Loop
    <3>3. \A c \in Clients : Done(c)
      BY <1>1, <3>1, <3>2, HandledFinite
    <3>4. \A c \in Clients : Done(c)'
      BY <1>6, <3>3, StillBalls
    <3> QED  BY <1>4, <2>1, <3>4 DEF Progress, Setup, Loop, Ended, Clients, Server
  <2>2. CASE p = Server /\ l = "event"
    BY <1>1, <1>4, <1>5, <1>6, <2>2, StillProgress DEF Loop
  <2>3. CASE p # Server
    BY <1>1, <1>4, <1>5, <1>6, <2>3, StillProgress, Processes
  <2> QED  BY <1>3, <2>1, <2>2, <2>3
<1>9. ASSUME NEW c \in Clients  PROVE Handshake(c)'
  BY <1>1, <1>2, <1>3, <1>4, <1>5, Processes DEF Handshake, Ready, Closing
<1> QED
  <2>1. \A r \in Procs : pc'[r] \notin Ended => pc[r] \notin Ended /\ send_cq'[r] <= send_cq[r]
    BY <1>1, <1>2, <1>4 DEF Ended
  <2> QED  BY <1>1, <1>2, <1>6, <1>7, <1>8, <1>9, <2>1, StillInv

\* A process reads a completion of its sends.
LEMMA DrainSendInv ==
    ASSUME Inv, NEW p \in Procs, DrainSend(p)
    PROVE  Inv'
<1>1. /\ Types /\ Control /\ Progress /\ send_cq \in [Procs -> Nat] /\ pc[p] = "drain"
      /\ \A c \in Clients : Handshake(c)
      /\ p = Server => cnt[p] \in Clients
  BY DEF Inv, Types, Control, Data, DrainSend, At, Loop
<1>2. UNCHANGED <<use_event, num_tests, wc, pp_cnt, sq, rx, recv_cq, to_server, to_client>>
  BY DEF DrainSend, options, tcpVars
<1>3. /\ send_cq' \in [Procs -> Nat] /\ \A r \in Procs : send_cq'[r] <= send_cq[r]
  <2>1. send_cq[p] \in Nat /\ send_cq[p] > 0
    BY <1>1 DEF DrainSend
  <2>2. send_cq' = [send_cq EXCEPT ![p] = send_cq[p] - 1]
    BY DEF DrainSend
  <2> QED  BY <1>1, <2>1, <2>2
<1>4. CASE p = Server
  <2>1. NextIndex(Server, "drain", "recv_end")
    BY <1>4 DEF DrainSend
  <2>2. /\ cnt' \in [Procs -> Nat] /\ cnt'[Server] \in Clients
        /\ pc'[Server] = "drain" \/ (pc'[Server] = "recv_end" /\ cnt'[Server] = 0)
        /\ \A r \in Procs \ {Server} : pc'[r] = pc[r] /\ cnt'[r] = cnt[r]
    BY <1>1, <1>4, <2>1, IndexStep, Processes
  <2>3. pc' \in [Procs -> ServerLabels]
    <3>1. pc' = [pc EXCEPT ![Server] = pc'[Server]]
      BY <1>1, <1>4, <2>1, IndexStep
    <3>2. pc'[Server] \in ServerLabels
      BY <2>2 DEF ServerLabels, ClientLabels, Ended
    <3> QED  BY <1>1, <3>1, <3>2 DEF Control
  <2>4. Still
    BY <1>1, <1>2, <1>4, <2>2 DEF Still
  <2>5. Control'
    BY <1>1, <1>2, <2>2, <2>3, Processes DEF Control, Procs, Clients, Server
  <2>6. Progress'
    BY <1>1, <1>4, <2>2, <2>4, StillProgress DEF Ended
  <2>7. ASSUME NEW c \in Clients  PROVE Handshake(c)'
    <3>1. c \in Nat /\ c \in Procs \ {Server}
      BY Processes
    <3> QED  BY <1>1, <1>2, <1>4, <2>2, <3>1 DEF Handshake, Ready, Closing
  <2>8. \A r \in Procs : pc'[r] \notin Ended => pc[r] \notin Ended /\ send_cq'[r] <= send_cq[r]
    BY <1>1, <1>3, <1>4, <2>2 DEF Ended
  <2> QED  BY <1>1, <1>3, <2>4, <2>5, <2>6, <2>7, <2>8, StillInv
<1>5. CASE p # Server
  <2>1. /\ \E l \in {"drain", "send_end"} : Goto(p, l)
        /\ cnt' \in [Procs -> Nat] /\ \A r \in Procs \ {p} : cnt'[r] = cnt[r]
    BY <1>1, <1>5 DEF DrainSend, NextIndex, Control
  <2>2. PICK l \in {"drain", "send_end"} : Goto(p, l)
    BY <2>1
  <2>3. /\ pc'[p] = l /\ \A r \in Procs \ {p} : pc'[r] = pc[r]
        /\ pc' \in [Procs -> ServerLabels]
    <3>1. l \in ServerLabels
      BY <2>2 DEF ServerLabels, ClientLabels, Ended
    <3> QED  BY <1>1, <2>2, <3>1, Moves
  <2>4. Still
    BY <1>1, <1>2, <2>2, <2>3 DEF Still
  <2>5. p \in Clients /\ pc'[Server] = pc[Server] /\ cnt'[Server] = cnt[Server]
    BY <1>5, <2>1, <2>3, Processes
  <2>6. Control'
    <3>1. \A c \in Clients : pc'[c] \in ClientLabels
      BY <1>1, <2>2, <2>3, Processes DEF Control, ClientLabels, Ended
    <3> QED  BY <1>1, <1>2, <2>1, <2>3, <2>5, <3>1 DEF Control, Procs, Clients, Server
  <2>7. Progress'
    BY <1>1, <2>4, <2>5, StillProgress
  <2>8. ASSUME NEW c \in Clients  PROVE Handshake(c)'
    BY <1>1, <1>2, <2>2, <2>3, <2>5, Processes DEF Handshake, Ready, Closing
  <2>9. \A r \in Procs : pc'[r] \notin Ended => pc[r] \notin Ended /\ send_cq'[r] <= send_cq[r]
    BY <1>1, <1>3, <2>3 DEF Ended
  <2> QED  BY <1>1, <1>3, <2>4, <2>6, <2>7, <2>8, <2>9, StillInv
<1> QED  BY <1>4, <1>5

\* The handshake at the end.
LEMMA SendEndInv ==
    ASSUME Inv, NEW p \in Procs, SendEnd(p)
    PROVE  Inv'
<1>1. /\ Types /\ Control /\ Progress /\ send_cq \in [Procs -> Nat] /\ pc[p] = "send_end"
      /\ \A c \in Clients : Handshake(c)
      /\ p = Server => cnt[p] \in Clients
  BY DEF Inv, Types, Control, Data, SendEnd, At, Loop
<1>2. UNCHANGED <<use_event, num_tests, wc, pp_cnt, sq, rx, recv_cq, send_cq>>
  BY DEF SendEnd, options, adapterVars
<1>3. CASE p = Server
  <2>1. NextIndex(Server, "send_end", "close")
    BY <1>3 DEF SendEnd
  <2>2. /\ cnt' \in [Procs -> Nat] /\ cnt'[Server] \in Clients
        /\ pc'[Server] \in {"send_end", "close"}
        /\ \A r \in Procs \ {Server} : pc'[r] = pc[r] /\ cnt'[r] = cnt[r]
    BY <1>1, <1>3, <2>1, IndexStep, Processes
  <2>3. pc' \in [Procs -> ServerLabels]
    <3>1. pc' = [pc EXCEPT ![Server] = pc'[Server]]
      BY <1>1, <1>3, <2>1, IndexStep
    <3>2. pc'[Server] \in ServerLabels
      BY <2>2 DEF ServerLabels, ClientLabels, Ended
    <3> QED  BY <1>1, <3>1, <3>2 DEF Control
  <2>4. Still
    BY <1>1, <1>2, <1>3, <2>2 DEF Still
  <2>5. to_client' \in [Clients -> Seq({"addr", "END"})] /\ to_server' = to_server
    BY <1>1, <1>3, Connections DEF SendEnd
  <2>6. Control'
    BY <1>1, <1>2, <2>2, <2>3, <2>5, Processes DEF Control, Procs, Clients, Server
  <2>7. Progress'
    BY <1>1, <1>3, <2>2, <2>4, StillProgress DEF Ended
  <2>8. ASSUME NEW c \in Clients  PROVE Handshake(c)'
    BY <1>1, <1>3, <2>2, <2>5, Processes DEF Handshake, Ready, Closing
  <2>9. \A r \in Procs : pc'[r] \notin Ended => pc[r] \notin Ended /\ send_cq'[r] <= send_cq[r]
    BY <1>1, <1>2, <1>3, <2>2 DEF Ended
  <2> QED  BY <1>1, <1>2, <2>4, <2>6, <2>7, <2>8, <2>9, StillInv
<1>4. CASE p # Server
  <2>1. Goto(p, "recv_end") /\ TellServer(p, "END") /\ cnt' = cnt
    BY <1>4 DEF SendEnd, AfterEnd
  <2>2. /\ pc'[p] = "recv_end" /\ \A r \in Procs \ {p} : pc'[r] = pc[r]
        /\ pc' \in [Procs -> ServerLabels]
    <3>1. "recv_end" \in ServerLabels
      BY DEF ServerLabels, ClientLabels, Ended
    <3> QED  BY <1>1, <2>1, <3>1, Moves
  <2>3. Still
    BY <1>1, <1>2, <2>2 DEF Still
  <2>4. p \in Clients /\ pc'[Server] = pc[Server]
    BY <1>4, <2>2, Processes
  <2>5. /\ to_server' \in [Clients -> Seq({"addr", "END"})] /\ to_client' = to_client
        /\ \A d \in Clients \ {p} : to_server'[d] = to_server[d]
    BY <1>1, <2>1, <2>4, Connections
  <2>6. Control'
    <3>1. \A c \in Clients : pc'[c] \in ClientLabels
      BY <1>1, <2>2, Processes DEF Control, ClientLabels, Ended
    <3> QED  BY <1>1, <1>2, <2>1, <2>2, <2>4, <2>5, <3>1 DEF Control, Procs, Clients, Server
  <2>7. Progress'
    BY <1>1, <2>1, <2>3, <2>4, StillProgress
  <2>8. ASSUME NEW c \in Clients  PROVE Handshake(c)'
    BY <1>1, <2>1, <2>2, <2>4, <2>5, Processes DEF Handshake, Ready, Closing
  <2>9. \A r \in Procs : pc'[r] \notin Ended => pc[r] \notin Ended /\ send_cq'[r] <= send_cq[r]
    BY <1>1, <1>2, <2>2 DEF Ended
  <2> QED  BY <1>1, <1>2, <2>3, <2>6, <2>7, <2>8, <2>9, StillInv
<1> QED  BY <1>3, <1>4

\* A process reads the END of its peer.
LEMMA RecvEndInv ==
    ASSUME Inv, NEW p \in Procs, RecvEnd(p)
    PROVE  Inv'
<1>1. /\ Types /\ Control /\ Progress /\ send_cq \in [Procs -> Nat] /\ pc[p] = "recv_end"
      /\ \A c \in Clients : Handshake(c)
      /\ p = Server => cnt[p] \in Clients
  BY DEF Inv, Types, Control, Data, RecvEnd, At, Loop
<1>2. UNCHANGED <<use_event, num_tests, wc, pp_cnt, sq, rx, recv_cq, send_cq>>
  BY DEF RecvEnd, options, adapterVars
<1>3. CASE p = Server
  <2>1. NextIndex(Server, "recv_end", "send_end") /\ HearFrom(cnt[Server], "END")
    BY <1>3 DEF RecvEnd
  <2>2. /\ cnt' \in [Procs -> Nat] /\ cnt'[Server] \in Clients
        /\ \/ pc'[Server] = "recv_end" /\ cnt'[Server] = cnt[Server] + 1
           \/ pc'[Server] = "send_end" /\ cnt[Server] + 1 = NumClients
        /\ \A r \in Procs \ {Server} : pc'[r] = pc[r] /\ cnt'[r] = cnt[r]
    BY <1>1, <1>3, <2>1, IndexStep, Processes
  <2>3. pc' \in [Procs -> ServerLabels]
    <3>1. pc' = [pc EXCEPT ![Server] = pc'[Server]]
      BY <1>1, <1>3, <2>1, IndexStep
    <3>2. pc'[Server] \in ServerLabels
      BY <2>2 DEF ServerLabels, ClientLabels, Ended
    <3> QED  BY <1>1, <3>1, <3>2 DEF Control
  <2>4. Still
    BY <1>1, <1>2, <1>3, <2>2 DEF Still
  <2>5. /\ to_server' \in [Clients -> Seq({"addr", "END"})] /\ to_client' = to_client
        /\ \A d \in Clients : "END" \in Range(to_server'[d]) => "END" \in Range(to_server[d])
        /\ "END" \in Range(to_server[cnt[Server]])
    BY <1>1, <1>3, <2>1, Connections
  <2>6. Control'
    BY <1>1, <1>2, <2>2, <2>3, <2>5, Processes DEF Control, Procs, Clients, Server
  <2>7. Progress'
    BY <1>1, <1>3, <2>2, <2>4, StillProgress DEF Ended
  <2>8. ASSUME NEW c \in Clients  PROVE Handshake(c)'
    <3>1. c < cnt[Server] + 1 => pc[c] \in Ready
      <4>1. c \in Nat /\ cnt[Server] \in Nat
        BY <1>1, <1>3, Processes
      <4>2. CASE c < cnt[Server]
        BY <1>1, <1>3, <4>2 DEF Handshake
      <4>3. CASE c = cnt[Server]
        BY <1>1, <2>5, <4>3 DEF Handshake
      <4> QED  BY <4>1, <4>2, <4>3
    <3>2. c < NumClients
      BY Processes DEF Clients
    <3> QED  BY <1>1, <1>3, <2>2, <2>5, <3>1, <3>2, Processes DEF Handshake, Ready, Closing
  <2>9. \A r \in Procs : pc'[r] \notin Ended => pc[r] \notin Ended /\ send_cq'[r] <= send_cq[r]
    BY <1>1, <1>2, <1>3, <2>2 DEF Ended
  <2> QED  BY <1>1, <1>2, <2>4, <2>6, <2>7, <2>8, <2>9, StillInv
<1>4. CASE p # Server
  <2>1. Goto(p, "close") /\ Hear(p, "END") /\ cnt' = cnt
    BY <1>4 DEF RecvEnd
  <2>2. /\ pc'[p] = "close" /\ \A r \in Procs \ {p} : pc'[r] = pc[r]
        /\ pc' \in [Procs -> ServerLabels]
    <3>1. "close" \in ServerLabels
      BY DEF ServerLabels, ClientLabels, Ended
    <3> QED  BY <1>1, <2>1, <3>1, Moves
  <2>3. Still
    BY <1>1, <1>2, <2>2 DEF Still
  <2>4. p \in Clients /\ pc'[Server] = pc[Server]
    BY <1>4, <2>2, Processes
  <2>5. /\ to_client' \in [Clients -> Seq({"addr", "END"})] /\ to_server' = to_server
        /\ \A d \in Clients : "END" \in Range(to_client'[d]) => "END" \in Range(to_client[d])
        /\ "END" \in Range(to_client[p])
    BY <1>1, <2>1, <2>4, Connections
  <2>6. Control'
    <3>1. \A c \in Clients : pc'[c] \in ClientLabels
      BY <1>1, <2>2, Processes DEF Control, ClientLabels, Ended
    <3> QED  BY <1>1, <1>2, <2>1, <2>2, <2>4, <2>5, <3>1 DEF Control, Procs, Clients, Server
  <2>7. Progress'
    BY <1>1, <2>1, <2>3, <2>4, StillProgress
  <2>8. ASSUME NEW c \in Clients  PROVE Handshake(c)'
    BY <1>1, <2>1, <2>2, <2>4, <2>5, Processes DEF Handshake, Ready, Closing
  <2>9. \A r \in Procs : pc'[r] \notin Ended => pc[r] \notin Ended /\ send_cq'[r] <= send_cq[r]
    BY <1>1, <1>2, <2>2 DEF Ended
  <2> QED  BY <1>1, <1>2, <2>3, <2>6, <2>7, <2>8, <2>9, StillInv
<1> QED  BY <1>3, <1>4

-----------------------------------------------------------------------------
\* A sequence without repetition, with an entry more or less.
Holds(s, c) == \E k \in DOMAIN s : s[k] = c
Single(s) == \A k, l \in DOMAIN s : s[k] = s[l] => k = l

\* An entry that is not in it comes to its end.
LEMMA SingleAppend ==
    ASSUME NEW s \in Seq(Clients), Single(s), NEW x \in Clients, ~Holds(s, x)
    PROVE  /\ Append(s, x) \in Seq(Clients) /\ Len(Append(s, x)) = Len(s) + 1
           /\ Single(Append(s, x))
           /\ \A c : Holds(Append(s, x), c) <=> Holds(s, c) \/ c = x
<1> DEFINE t == Append(s, x)
           n == Len(s)
<1>1. /\ t \in Seq(Clients) /\ Len(t) = n + 1 /\ n \in Nat /\ DOMAIN s = 1 .. n
      /\ DOMAIN t = 1 .. n + 1
      /\ \A k \in 1 .. n : t[k] = s[k] /\ s[k] # x
      /\ t[n + 1] = x
  BY DEF Holds
<1> HIDE DEF t, n
<1>2. Single(t)
  BY <1>1 DEF Single
<1>3. ASSUME NEW c  PROVE Holds(t, c) <=> Holds(s, c) \/ c = x
  <2>1. \A k \in 1 .. n + 1 : k \in 1 .. n \/ k = n + 1
    BY <1>1
  <2>2. \A k \in 1 .. n : k \in 1 .. n + 1
    BY <1>1
  <2>3. n + 1 \in 1 .. n + 1
    BY <1>1
  <2> QED  BY <1>1, <2>1, <2>2, <2>3 DEF Holds
<1> QED  BY <1>1, <1>2, <1>3 DEF t, n

\* The head of a sequence of different elements leaves it.
LEMMA SingleTail ==
    ASSUME NEW s \in Seq(Clients), Single(s), s # <<>>
    PROVE  /\ Tail(s) \in Seq(Clients) /\ Len(Tail(s)) = Len(s) - 1 /\ Len(s) \in Nat \ {0}
           /\ Head(s) \in Clients /\ Holds(s, Head(s))
           /\ Single(Tail(s))
           /\ \A c : Holds(Tail(s), c) <=> Holds(s, c) /\ c # Head(s)
<1> DEFINE t == Tail(s)
           n == Len(s)
           h == Head(s)
<1>1. /\ t \in Seq(Clients) /\ Len(t) = n - 1 /\ n \in Nat \ {0} /\ DOMAIN s = 1 .. n
      /\ DOMAIN t = 1 .. n - 1 /\ h \in Clients /\ h = s[1]
      /\ \A k \in 1 .. n - 1 : t[k] = s[k + 1]
  OBVIOUS
<1> HIDE DEF t, n, h
<1>2. \A k \in 1 .. n - 1 : k + 1 \in 1 .. n /\ k + 1 # 1
  BY <1>1
<1>3. \A k \in 1 .. n : k = 1 \/ (k - 1 \in 1 .. n - 1 /\ (k - 1) + 1 = k)
  BY <1>1
<1>4. 1 \in 1 .. n /\ \A k \in 1 .. n : s[k] = h => k = 1
  BY <1>1 DEF Single
<1>5. Holds(s, h)
  BY <1>1, <1>4 DEF Holds
<1>6. Single(t)
  <2>1. \A k, l \in 1 .. n - 1 : t[k] = t[l] => k + 1 = l + 1
    BY <1>1, <1>2 DEF Single
  <2> QED  BY <1>1, <2>1 DEF Single
<1>7. ASSUME NEW c  PROVE Holds(t, c) <=> Holds(s, c) /\ c # h
  <2>1. Holds(t, c) => Holds(s, c) /\ c # h
    BY <1>1, <1>2, <1>4 DEF Holds
  <2>2. ASSUME Holds(s, c), c # h  PROVE Holds(t, c)
    <3>1. PICK k \in 1 .. n : s[k] = c
      BY <1>1, <2>2 DEF Holds
    <3>2. k - 1 \in 1 .. n - 1 /\ t[k - 1] = s[k]
      BY <1>1, <1>3, <2>2, <3>1
    <3> QED  BY <1>1, <3>1, <3>2 DEF Holds
  <2> QED  BY <2>1, <2>2
<1> QED  BY <1>1, <1>5, <1>6, <1>7 DEF t, n, h

\* A step that moves a message or a completion and leaves every program where
\* it was, or in its loop, and the server's counts as they are.
LEMMA BallInv ==
    ASSUME Inv, Data', Balls', \A p \in Procs : Completions(p)',
           UNCHANGED <<use_event, num_tests, to_server, to_client>>,
           cnt' \in [Procs -> Nat], cnt'[Server] = cnt[Server], pp_cnt'[Server] = pp_cnt[Server],
           pc' \in [Procs -> ServerLabels],
           \A p \in Procs : pc'[p] = pc[p] \/ (pc[p] \in Loop /\ pc'[p] \in Loop),
           \A c \in Clients : Done(c)' <=> Done(c)
    PROVE  Inv'
<1>1. /\ Control /\ Progress /\ \A c \in Clients : Handshake(c)
  BY DEF Inv, Types
<1>2. Control'
  <2>1. \A c \in Clients : pc'[c] \in ClientLabels
    BY <1>1, Processes DEF Control, ClientLabels
  <2>2. pc'[Server] \notin Loop \cup {"close", "closed"} => cnt'[Server] \in Clients
    BY <1>1, Processes DEF Control
  <2> QED  BY <1>1, <2>1, <2>2 DEF Control, Procs, Clients, Server
<1>3. Progress'
  <2>1. \A c \in Clients : Behind(c)' = Behind(c)
    BY DEF Behind, Server
  <2>2. Handled' = Handled
    <3>1. Clients' = Clients /\ num_tests' = num_tests
      BY DEF Clients
    <3>2. \A x \in Clients \X (1 .. num_tests) : Behind(x[1])' = Behind(x[1])
      BY <2>1
    <3> QED  BY <3>1, <3>2 DEF Handled
  <2>3. pc'[Server] = pc[Server] \/ (pc[Server] \in Loop /\ pc'[Server] \in Loop)
    BY Processes
  <2> QED  BY <1>1, <2>1, <2>2, <2>3 DEF Progress, Loop, Setup, Ended, Clients, Server
<1>4. ASSUME NEW c \in Clients  PROVE Handshake(c)'
  <2>1. /\ pc'[Server] = pc[Server] \/ (pc[Server] \in Loop /\ pc'[Server] \in Loop)
        /\ pc'[c] = pc[c] \/ (pc[c] \in Loop /\ pc'[c] \in Loop)
    BY Processes
  <2> QED  BY <1>1, <2>1 DEF Handshake, Loop, Ready, Closing, Server
<1> QED  BY <1>2, <1>3, <1>4 DEF Inv, Types

\* Nothing changes in the send queues.
LEMMA QueuesStill ==
    ASSUME UNCHANGED <<num_tests, sq, pp_cnt>>, NEW p \in Procs
    PROVE  /\ \A i : (Posted(p, i)' <=> Posted(p, i)) /\ (Signals(p, i)' <=> Signals(p, i))
           /\ Alone(p) => Alone(p)'
           /\ LastSignals(p) => LastSignals(p)'
<1>1. /\ \A i : (Posted(p, i)' <=> Posted(p, i)) /\ (Signals(p, i)' <=> Signals(p, i))
      /\ \A i : Silent(p, i)' <=> Silent(p, i)
      /\ Alone(p) => Alone(p)'
  BY SameQueues
<1> QED  BY <1>1 DEF LastSignals, Peers, Num, Server

\* A completion is taken from the queue and handled.
LEMMA PollInv ==
    ASSUME Inv, NEW p \in Procs, Poll(p)
    PROVE  Inv'
<1>1. /\ Types /\ Data /\ Balls /\ pc \in [Procs -> ServerLabels] /\ pc[p] = "poll"
      /\ recv_cq[p] # <<>> /\ \A r \in Procs : Completions(r)
  BY DEF Inv, Types, Control, Poll, At
<1>2. UNCHANGED <<use_event, num_tests, cnt, pp_cnt, sq, send_cq, to_server, to_client>>
  BY DEF Poll, options, tcpVars
<1>3. /\ pc'[p] = "reply" /\ \A r \in Procs \ {p} : pc'[r] = pc[r]
      /\ pc' \in [Procs -> ServerLabels]
  <2>1. "reply" \in ServerLabels
    BY DEF ServerLabels, ClientLabels, Loop
  <2> QED  BY <1>1, <2>1, Moves DEF Poll, Types
<1>4. recv_cq[p] \in Seq(Clients) /\ rx[p] \in Nat /\ rx \in [Procs -> Nat]
      /\ wc \in [Procs -> Clients] /\ recv_cq \in [Procs -> Seq(Clients)]
  BY <1>1 DEF Data
<1>5. /\ Head(recv_cq[p]) \in Clients /\ Tail(recv_cq[p]) \in Seq(Clients)
      /\ Len(recv_cq[p]) \in Nat \ {0} /\ Len(Tail(recv_cq[p])) = Len(recv_cq[p]) - 1
  BY <1>1, <1>4
<1>6. /\ wc' \in [Procs -> Clients] /\ wc'[p] = Head(recv_cq[p])
      /\ recv_cq' \in [Procs -> Seq(Clients)] /\ recv_cq'[p] = Tail(recv_cq[p])
      /\ rx' \in [Procs -> Nat] /\ rx'[p] = rx[p] + 1
      /\ \A r \in Procs \ {p} : wc'[r] = wc[r] /\ recv_cq'[r] = recv_cq[r] /\ rx'[r] = rx[r]
  <2>1. /\ wc' = [wc EXCEPT ![p] = Head(recv_cq[p])]
        /\ recv_cq' = [recv_cq EXCEPT ![p] = Tail(recv_cq[p])]
        /\ rx' = [rx EXCEPT ![p] = rx[p] + 1]
    BY DEF Poll
  <2> QED  BY <1>4, <1>5, <2>1
<1>7. Data'
  BY <1>1, <1>2, <1>6 DEF Data, Procs, Clients, Msgs, Peers, Num, Server
<1>8. ASSUME NEW r \in Procs  PROVE Alone(r)' /\ LastSignals(r)'
  BY <1>1, <1>2, QueuesStill DEF Balls
<1>9. ASSUME NEW r \in Procs  PROVE Receives(r)'
  <2>1. Receives(r) /\ Num(r)' = Num(r) /\ Num(r) \in Nat
    BY <1>1, Processes DEF Balls, Num, Server
  <2>2. CASE r = p
    <3>1. rx[p] + Len(recv_cq[p]) = Num(p)
      BY <2>1, <2>2 DEF Receives
    <3>2. rx'[p] + Len(recv_cq'[p]) = Num(p)
      BY <1>4, <1>5, <1>6, <2>1, <2>2, <3>1
    <3> QED  BY <2>1, <2>2, <3>2 DEF Receives
  <2>3. CASE r # p
    BY <1>6, <2>1, <2>3 DEF Receives
  <2> QED  BY <2>2, <2>3
<1>10. \A c \in Clients : /\ Posted(Server, c)' <=> Posted(Server, c)
                          /\ Posted(c, 0)' <=> Posted(c, 0)
  BY <1>2, QueuesStill, Processes
<1>11. /\ OneEach'
       /\ \A c \in Clients : Turn(c)' /\ (Done(c)' <=> Done(c)) /\ (Astray(c) => Astray(c)')
  <2>1. CASE p = Server
    <3>1. Single(recv_cq[Server])
      BY <1>1 DEF Balls, OneEach, Single
    <3>2. /\ Single(recv_cq'[Server])
          /\ Holds(recv_cq[Server], Head(recv_cq[Server]))
          /\ \A c : Holds(recv_cq'[Server], c) <=>
                       Holds(recv_cq[Server], c) /\ c # Head(recv_cq[Server])
      <4>1. /\ recv_cq[Server] \in Seq(Clients) /\ recv_cq[Server] # <<>>
            /\ recv_cq'[Server] = Tail(recv_cq[Server])
        BY <1>1, <1>4, <1>6, <2>1
      <4>2. /\ Single(Tail(recv_cq[Server]))
            /\ Holds(recv_cq[Server], Head(recv_cq[Server]))
            /\ \A c : Holds(Tail(recv_cq[Server]), c) <=>
                         Holds(recv_cq[Server], c) /\ c # Head(recv_cq[Server])
        BY <3>1, <4>1, SingleTail
      <4> QED  BY <4>1, <4>2
    <3>3. OneEach'
      BY <3>2 DEF OneEach, Single, Server
    <3>4. ASSUME NEW c \in Clients
          PROVE  Turn(c)' /\ (Done(c)' <=> Done(c)) /\ (Astray(c) => Astray(c)')
      <4>1. /\ ServerWaits(c)' <=> ServerWaits(c) /\ c # Head(recv_cq[Server])
            /\ ServerHandles(c)' <=> c = Head(recv_cq[Server])
            /\ ~ServerHandles(c)
            /\ c = Head(recv_cq[Server]) => ServerWaits(c)
        BY <1>1, <1>3, <1>6, <2>1, <3>2 DEF ServerWaits, ServerHandles, Holds, Server
      <4>2. (Waits(c)' <=> Waits(c)) /\ (Handles(c)' <=> Handles(c))
        BY <1>3, <1>6, <2>1, Processes DEF Waits, Handles
      <4>3. Turn(c)
        BY <1>1 DEF Balls
      <4>4. Turn(c)'
        BY <1>2, <1>10, <4>1, <4>2, <4>3 DEF Turn, Server
      <4>5. Done(c)' <=> Done(c)
        BY <1>2, <1>10, <4>1 DEF Done, Server
      <4>6. Astray(c) => Astray(c)'
        BY <1>2, <1>10, <4>2 DEF Astray, Server
      <4> QED  BY <4>4, <4>5, <4>6
    <3> QED  BY <3>3, <3>4
  <2>2. CASE p # Server
    <3>1. p \in Clients /\ recv_cq'[Server] = recv_cq[Server] /\ pc'[Server] = pc[Server]
          /\ wc'[Server] = wc[Server]
      BY <1>3, <1>6, <2>2, Processes
    <3>2. OneEach'
      BY <1>1, <3>1 DEF Balls, OneEach, Server
    <3>3. recv_cq'[p] = <<>>
      <4>1. rx[p] + Len(recv_cq[p]) = 1
        BY <1>1, <3>1, Processes DEF Balls, Receives
      <4>2. Len(recv_cq'[p]) = 0 /\ recv_cq'[p] \in Seq(Clients)
        BY <1>4, <1>5, <1>6, <4>1
      <4> QED  BY <4>2
    <3>4. ASSUME NEW c \in Clients
          PROVE  Turn(c)' /\ (Done(c)' <=> Done(c)) /\ (Astray(c) => Astray(c)')
      <4>1. /\ ServerWaits(c)' <=> ServerWaits(c)
            /\ ServerHandles(c)' <=> ServerHandles(c)
        BY <3>1 DEF ServerWaits, ServerHandles, Server
      <4>2. Turn(c)
        BY <1>1 DEF Balls
      <4>3. CASE c = p
        <5>1. ~Waits(c)' /\ Handles(c)' /\ Waits(c) /\ ~Handles(c)
          BY <1>1, <1>3, <3>3, <4>3 DEF Waits, Handles
        <5> QED  BY <1>2, <1>10, <4>1, <4>2, <5>1 DEF Turn, Done, Astray, Server
      <4>4. CASE c # p
        <5>1. (Waits(c)' <=> Waits(c)) /\ (Handles(c)' <=> Handles(c))
          BY <1>3, <1>6, <4>4, Processes DEF Waits, Handles
        <5> QED  BY <1>2, <1>10, <4>1, <4>2, <5>1 DEF Turn, Done, Astray, Server
      <4> QED  BY <4>3, <4>4
    <3> QED  BY <3>2, <3>4
  <2> QED  BY <2>1, <2>2
<1>12. Balls'
  BY <1>8, <1>9, <1>11 DEF Balls, Procs, Clients
<1>13. ASSUME NEW r \in Procs  PROVE Completions(r)'
  <2>1. \A i : Signals(r, i)' => Signals(r, i)
    BY <1>2, QueuesStill
  <2>2. pc'[r] \notin Ended => pc[r] \notin Ended
    BY <1>1, <1>3 DEF Ended
  <2>3. send_cq'[r] \in Nat /\ send_cq'[r] <= send_cq[r]
    BY <1>1, <1>2 DEF Data
  <2> QED  BY <1>1, <1>2, <1>11, <2>1, <2>2, <2>3, CompletionsKept
<1>14. \A r \in Procs : pc'[r] = pc[r] \/ (pc[r] \in Loop /\ pc'[r] \in Loop)
  BY <1>1, <1>3 DEF Loop
<1>15. cnt' \in [Procs -> Nat]
  BY <1>1, <1>2 DEF Types, Control
<1> QED  BY <1>2, <1>3, <1>7, <1>11, <1>12, <1>13, <1>14, <1>15, BallInv

\* A message is delivered into a receive.
LEMMA DeliverInv ==
    ASSUME Inv, NEW p \in Procs, NEW q \in Peers(p), Deliver(p, q)
    PROVE  Inv'
<1>1. /\ Types /\ Data /\ Balls /\ pc \in [Procs -> ServerLabels]
      /\ \A r \in Procs : Completions(r)
  BY DEF Inv, Types, Control
<1>2. UNCHANGED <<use_event, num_tests, pc, cnt, wc, pp_cnt, to_server, to_client, send_cq>>
  BY DEF Deliver, options, tcpVars
<1>3. PICK k \in DOMAIN sq[p][q] :
         /\ sq[p][q][k].st = "posted"
         /\ rx[Dest(p, sq[p][q][k])] > 0
         /\ sq' = [sq EXCEPT ![p][q][k].st = "delivered"]
         /\ rx' = [rx EXCEPT ![Dest(p, sq[p][q][k])] = @ - 1]
         /\ recv_cq' = [recv_cq EXCEPT ![Dest(p, sq[p][q][k])] =
                           Append(@, IF Dest(p, sq[p][q][k]) = Server THEN p ELSE q)]
  BY DEF Deliver
<1> DEFINE m == sq[p][q][k]
           d == Dest(p, m)
           x == IF d = Server THEN p ELSE q
<1>4. m \in Msgs(p) /\ m.dst \in Peers(p)
  <2>1. sq[p][q] \in Seq(Msgs(p))
    BY <1>1 DEF Data
  <2>2. m \in Msgs(p)
    BY <2>1
  <2> QED  BY <2>2 DEF Msgs
<1>5. /\ d \in Procs /\ x \in Clients
      /\ p = Server => d = m.dst /\ d \in Clients
      /\ p # Server => d = Server /\ x = p /\ m.dst = 0
  BY <1>4, Processes DEF Dest
<1>6. /\ DOMAIN sq' = Procs /\ \A r \in Procs : sq'[r] \in [Peers(r) -> Seq(Msgs(r))]
      /\ \A r \in Procs \ {p} : sq'[r] = sq[r]
      /\ \A j \in Peers(p) : /\ Posted(p, j)' <=> Posted(p, j) /\ j # m.dst
                             /\ Signals(p, j)' <=> Signals(p, j)
                             /\ Silent(p, j)' => Silent(p, j)
      /\ Alone(p)' /\ Posted(p, m.dst)
  <2>1. Alone(p)
    BY <1>1 DEF Balls
  <2>2. Posted(p, m.dst)
    BY <1>3 DEF Posted
  <2>3. sq' = [sq EXCEPT ![p][q][k].st = "delivered"] /\ sq[p][q][k].st = "posted"
    BY <1>3
  <2>4. /\ DOMAIN sq' = Procs /\ \A r \in Procs : sq'[r] \in [Peers(r) -> Seq(Msgs(r))]
        /\ \A r \in Procs \ {p} : sq'[r] = sq[r]
        /\ \A j \in Peers(p) :
              /\ Posted(p, j)' <=> /\ Posted(p, j)
                                   /\ ~(sq[p][q][k].st = "posted" /\ sq[p][q][k].dst = j)
              /\ Signals(p, j)' <=> Signals(p, j)
              /\ Silent(p, j)' => Silent(p, j)
        /\ Alone(p)'
    <3> HIDE DEF m, d, x
    <3> QED  BY <1>1, <2>1, <2>3, StatusEffect
  <2> QED  BY <2>2, <2>3, <2>4
<1> HIDE DEF m
<1>7. /\ rx \in [Procs -> Nat] /\ recv_cq \in [Procs -> Seq(Clients)] /\ rx[d] \in Nat /\ rx[d] > 0
      /\ recv_cq[d] \in Seq(Clients)
      /\ rx' = [rx EXCEPT ![d] = rx[d] - 1]
      /\ recv_cq' = [recv_cq EXCEPT ![d] = Append(recv_cq[d], x)]
  BY <1>1, <1>3, <1>5 DEF Data, m
<1> HIDE DEF d, x
<1>8. /\ Append(recv_cq[d], x) \in Seq(Clients) /\ Append(recv_cq[d], x) # <<>>
      /\ Len(Append(recv_cq[d], x)) = Len(recv_cq[d]) + 1 /\ Len(recv_cq[d]) \in Nat
  BY <1>5, <1>7
<1>9. /\ rx' \in [Procs -> Nat] /\ rx'[d] = rx[d] - 1
      /\ recv_cq' \in [Procs -> Seq(Clients)] /\ recv_cq'[d] = Append(recv_cq[d], x)
      /\ \A r \in Procs \ {d} : rx'[r] = rx[r] /\ recv_cq'[r] = recv_cq[r]
  BY <1>5, <1>7, <1>8
<1>10. Data'
  BY <1>1, <1>2, <1>6, <1>9 DEF Data, Procs, Clients, Msgs, Peers, Num, Server
<1>11. \A r \in Procs : \A j \in Peers(r) :
          /\ Posted(r, j)' <=> Posted(r, j) /\ ~(r = p /\ j = m.dst)
          /\ Signals(r, j)' <=> Signals(r, j)
          /\ Silent(r, j)' => Silent(r, j)
  BY <1>6, SameQueues
<1>12. ASSUME NEW r \in Procs  PROVE Alone(r)' /\ LastSignals(r)'
  <2>1. Alone(r)'
    BY <1>1, <1>6, SameQueues DEF Balls
  <2>2. LastSignals(r)'
    BY <1>1, <1>2, <1>11 DEF Balls, LastSignals, Peers, Num, Server
  <2> QED  BY <2>1, <2>2
<1>13. ASSUME NEW r \in Procs  PROVE Receives(r)'
  <2>1. Receives(r) /\ Num(r)' = Num(r) /\ Num(r) \in Nat
    BY <1>1, Processes DEF Balls, Num, Server
  <2>2. CASE r = d
    <3>1. rx[d] + Len(recv_cq[d]) = Num(d)
      BY <2>1, <2>2 DEF Receives
    <3>2. rx'[d] + Len(recv_cq'[d]) = Num(d)
      BY <1>7, <1>8, <1>9, <2>1, <2>2, <3>1
    <3> QED  BY <2>1, <2>2, <3>2 DEF Receives
  <2>3. CASE r # d
    BY <1>9, <2>1, <2>3 DEF Receives
  <2> QED  BY <2>2, <2>3
<1>14. /\ OneEach'
       /\ \A c \in Clients : Turn(c)' /\ (Done(c)' <=> Done(c)) /\ (Astray(c) => Astray(c)')
  <2>1. CASE p = Server
    <3>1. d \in Clients /\ d = m.dst /\ recv_cq'[Server] = recv_cq[Server]
      BY <1>5, <1>9, <2>1, Processes
    <3>2. OneEach'
      BY <1>1, <3>1 DEF Balls, OneEach, Server
    <3>3. ASSUME NEW c \in Clients
          PROVE  Turn(c)' /\ (Done(c)' <=> Done(c)) /\ (Astray(c) => Astray(c)')
      <4>1. /\ ServerWaits(c)' <=> ServerWaits(c)
            /\ ServerHandles(c)' <=> ServerHandles(c)
            /\ Handles(c)' <=> Handles(c)
        BY <1>2, <3>1 DEF ServerWaits, ServerHandles, Handles, Server
      <4>2. /\ Posted(Server, c)' <=> Posted(Server, c) /\ c # d
            /\ Posted(c, 0)' <=> Posted(c, 0)
        BY <1>11, <2>1, <3>1, Processes
      <4>3. Waits(c)' <=> Waits(c) \/ c = d
        BY <1>8, <1>9, Processes DEF Waits
      <4>4. c = d => Posted(Server, c)
        BY <1>6, <2>1, <3>1
      <4>5. Turn(c)
        BY <1>1 DEF Balls
      <4>6. Turn(c)'
        BY <1>2, <4>1, <4>2, <4>3, <4>4, <4>5 DEF Turn, Server
      <4>7. Done(c)' <=> Done(c)
        BY <1>2, <4>1, <4>2 DEF Done, Server
      <4>8. Astray(c) => Astray(c)'
        BY <1>2, <4>1, <4>2, <4>3, <4>4 DEF Astray, Server
      <4> QED  BY <4>6, <4>7, <4>8
    <3> QED  BY <3>2, <3>3
  <2>2. CASE p # Server
    <3>1. p \in Clients /\ d = Server /\ x = p /\ m.dst = 0
      BY <1>5, <2>2, Processes
    <3>2. Turn(p) /\ Posted(p, 0)
      BY <1>1, <1>6, <3>1 DEF Balls
    <3>3. ~Holds(recv_cq[Server], p)
      BY <3>2 DEF Turn, ServerWaits, Holds
    <3>4. Single(recv_cq[Server])
      BY <1>1 DEF Balls, OneEach, Single
    <3>5. /\ Single(recv_cq'[Server])
          /\ \A c : Holds(recv_cq'[Server], c) <=> Holds(recv_cq[Server], c) \/ c = p
      BY <1>7, <1>9, <3>1, <3>3, <3>4, SingleAppend
    <3>6. OneEach'
      BY <3>5 DEF OneEach, Single, Server
    <3>7. ASSUME NEW c \in Clients
          PROVE  Turn(c)' /\ (Done(c)' <=> Done(c)) /\ (Astray(c) => Astray(c)')
      <4>1. /\ ServerWaits(c)' <=> ServerWaits(c) \/ c = p
            /\ ServerHandles(c)' <=> ServerHandles(c)
            /\ Handles(c)' <=> Handles(c)
        BY <1>2, <3>5 DEF ServerWaits, ServerHandles, Handles, Holds, Server
      <4>2. /\ Posted(Server, c)' <=> Posted(Server, c)
            /\ Posted(c, 0)' <=> Posted(c, 0) /\ c # p
        BY <1>11, <2>2, <3>1, Processes
      <4>3. Waits(c)' <=> Waits(c)
        BY <1>9, <3>1, Processes DEF Waits
      <4>4. Turn(c)
        BY <1>1 DEF Balls
      <4>5. Turn(c)'
        BY <1>2, <3>2, <4>1, <4>2, <4>3, <4>4 DEF Turn, Server
      <4>6. Done(c)' <=> Done(c)
        BY <1>2, <3>2, <4>1, <4>2 DEF Done, Server
      <4>7. Astray(c) => Astray(c)'
        BY <1>2, <4>1, <4>2, <4>3 DEF Astray, Server
      <4> QED  BY <4>5, <4>6, <4>7
    <3> QED  BY <3>6, <3>7
  <2> QED  BY <2>1, <2>2
<1>15. ASSUME NEW r \in Procs  PROVE Completions(r)'
  <2>1. \A i \in Peers(r) : Signals(r, i)' => Signals(r, i)
    BY <1>11
  <2>2. send_cq'[r] \in Nat /\ send_cq'[r] <= send_cq[r] /\ pc' = pc
    BY <1>1, <1>2 DEF Data
  <2> QED  BY <1>1, <1>2, <1>14, <2>1, <2>2, CompletionsKept
<1>16. Balls'
  BY <1>12, <1>13, <1>14 DEF Balls, Procs, Clients
<1>17. cnt' \in [Procs -> Nat]
  BY <1>1, <1>2 DEF Types, Control
<1> QED  BY <1>1, <1>2, <1>10, <1>14, <1>15, <1>16, <1>17, BallInv

\* When a process has closed, everybody is done and no message is under way.
LEMMA NoneUnderWay ==
    ASSUME Inv, NEW r \in Procs, ~On(r)
    PROVE  /\ \A p \in Procs : pc[p] \in Ended
           /\ \A p \in Procs : \A i \in Peers(p) : ~Posted(p, i)
<1>1. /\ Types /\ Balls /\ Progress /\ \A c \in Clients : Handshake(c)
  BY DEF Inv
<1>2. pc[Server] \in Closing
  <2>1. CASE r = Server
    BY <2>1 DEF On, Closing
  <2>2. CASE r \in Clients
    BY <1>1, <2>2 DEF On, Handshake
  <2> QED  BY <2>1, <2>2, Processes
<1>3. \A c \in Clients : pc[c] \in Ready /\ Done(c)
  BY <1>1, <1>2 DEF Handshake, Progress, Closing, Ended
<1>4. \A p \in Procs : pc[p] \in Ended
  BY <1>2, <1>3, Processes DEF Closing, Ready, Ended
<1>5. ASSUME NEW c \in Clients  PROVE ~Posted(c, 0) /\ ~Posted(Server, c)
  <2>1. Done(c) /\ Turn(c) /\ num_tests \in Nat
    BY <1>1, <1>3 DEF Balls, Types, Control
  <2> QED  BY <2>1 DEF Done, Turn
<1>6. ASSUME NEW p \in Procs, NEW i \in Peers(p)  PROVE ~Posted(p, i)
  <2>1. CASE p = Server
    BY <1>5, <2>1, Processes
  <2>2. CASE p \in Clients
    BY <1>5, <2>2, Processes
  <2> QED  BY <2>1, <2>2, Processes
<1> QED  BY <1>4, <1>6

\* A step of an adapter that changes only what waits for an acknowledgement.
LEMMA AckInv ==
    ASSUME Inv, UNCHANGED <<use_event, num_tests, pc, cnt, wc, pp_cnt, to_server, to_client, rx,
                            recv_cq>>,
           DOMAIN sq' = Procs, \A r \in Procs : sq'[r] \in [Peers(r) -> Seq(Msgs(r))],
           \A r \in Procs : Alone(r)' /\ Completions(r)',
           \A r \in Procs : \A j \in Peers(r) : /\ Posted(r, j)' => Posted(r, j)
                                                /\ Signals(r, j)' => Signals(r, j)
                                                /\ Silent(r, j)' => Silent(r, j),
           \A c \in Clients : Posted(c, 0)' <=> Posted(c, 0),
           send_cq' \in [Procs -> Nat]
    PROVE  Inv'
<1>1. /\ Types /\ Data /\ Balls /\ pc \in [Procs -> ServerLabels]
  BY DEF Inv, Types, Control
<1>2. Data'
  BY <1>1 DEF Data, Procs, Clients, Msgs, Peers, Num, Server
<1>3. \A r \in Procs : LastSignals(r)' /\ Receives(r)'
  BY <1>1 DEF Balls, LastSignals, Receives, Peers, Num, Server
<1>4. ASSUME NEW c \in Clients  PROVE Turn(c)' /\ (Done(c)' <=> Done(c))
  <2>1. /\ Posted(Server, c)' => Posted(Server, c)
        /\ Posted(c, 0)' <=> Posted(c, 0)
    BY Processes
  <2>2. /\ ServerWaits(c)' <=> ServerWaits(c)
        /\ ServerHandles(c)' <=> ServerHandles(c)
        /\ Handles(c)' <=> Handles(c)
        /\ Waits(c)' <=> Waits(c)
    BY DEF ServerWaits, ServerHandles, Handles, Waits, Server
  <2>3. Turn(c)
    BY <1>1 DEF Balls
  <2> QED  BY <2>1, <2>2, <2>3 DEF Turn, Done, Server
<1>5. OneEach'
  BY <1>1 DEF Balls, OneEach, Server
<1>6. Balls'
  BY <1>3, <1>4, <1>5 DEF Balls, Procs, Clients
<1>7. cnt' \in [Procs -> Nat]
  BY <1>1 DEF Types, Control
<1> QED  BY <1>1, <1>2, <1>4, <1>6, <1>7, BallInv

\* An acknowledgement is lost.
LEMMA LoseAckInv ==
    ASSUME Inv, NEW p \in Procs, NEW q \in Peers(p), LoseAck(p, q)
    PROVE  Inv'
<1>1. /\ Types /\ Balls /\ send_cq \in [Procs -> Nat] /\ \A r \in Procs : Completions(r)
  BY DEF Inv, Types, Data
<1>2. /\ UNCHANGED <<use_event, num_tests, pc, cnt, wc, pp_cnt, to_server, to_client, rx,
                     recv_cq, send_cq>>
      /\ sq' = [sq EXCEPT ![p][q][1].st = "unacked"]
      /\ sq[p][q] # <<>> /\ Head(sq[p][q]).st = "delivered"
  BY DEF LoseAck, options, tcpVars
<1>3. 1 \in DOMAIN sq[p][q] /\ sq[p][q][1].st = "delivered"
  <2>1. sq[p][q] \in Seq(Msgs(p))
    BY <1>1 DEF Types, Data
  <2> QED  BY <1>2, <2>1
<1>4. /\ DOMAIN sq' = Procs /\ \A r \in Procs : sq'[r] \in [Peers(r) -> Seq(Msgs(r))]
      /\ \A r \in Procs \ {p} : sq'[r] = sq[r]
      /\ \A j \in Peers(p) :
            /\ Posted(p, j)' <=> /\ Posted(p, j)
                                 /\ ~(sq[p][q][1].st = "posted" /\ sq[p][q][1].dst = j)
            /\ Signals(p, j)' <=> Signals(p, j)
            /\ Silent(p, j)' => Silent(p, j)
      /\ Alone(p)'
  <2>1. Alone(p)
    BY <1>1 DEF Balls
  <2> QED  BY <1>1, <1>2, <1>3, <2>1, StatusEffect
<1>5. \A r \in Procs : \A j \in Peers(r) : /\ Posted(r, j)' <=> Posted(r, j)
                                           /\ Signals(r, j)' <=> Signals(r, j)
                                           /\ Silent(r, j)' => Silent(r, j)
  BY <1>3, <1>4, SameQueues
<1>6. \A r \in Procs : Alone(r)'
  BY <1>1, <1>4, SameQueues DEF Balls
<1>7. ASSUME NEW r \in Procs  PROVE Completions(r)'
  <2>1. \A c \in Clients : Astray(c) => Astray(c)'
    <3>1. \A c \in Clients : Posted(Server, c)' <=> Posted(Server, c)
      BY <1>5, Processes
    <3> QED  BY <1>2, <3>1 DEF Astray, Waits, Handles, Server
  <2>2. send_cq'[r] \in Nat /\ send_cq'[r] <= send_cq[r] /\ pc' = pc
    BY <1>1, <1>2
  <2> QED  BY <1>1, <1>2, <1>5, <2>1, <2>2, CompletionsKept
<1>8. \A c \in Clients : Posted(c, 0)' <=> Posted(c, 0)
  BY <1>5, Processes
<1> QED  BY <1>1, <1>2, <1>4, <1>5, <1>6, <1>7, <1>8, AckInv

\* The oldest request of a queue pair is over.  One that had not got through is
\* the server's: its client is without the ball from now on.
LEMMA SendDoneInv ==
    ASSUME Inv, Linked, NEW p \in Procs, NEW q \in Peers(p), SendDone(p, q)
    PROVE  Inv'
<1> DEFINE m == Head(sq[p][q])
           gone == ~ On(Target(p, q)) \/ ~ On(Dest(p, m))
           stuck == m.st = "posted" /\ q \in broken[p]
           failed == stuck \/ (m.st # "delivered" /\ gone)
<1>1. /\ Types /\ Balls /\ send_cq \in [Procs -> Nat] /\ \A r \in Procs : Completions(r)
  BY DEF Inv, Types, Data
<1>2. /\ UNCHANGED <<use_event, num_tests, pc, cnt, wc, pp_cnt, to_server, to_client, rx, recv_cq>>
      /\ sq[p][q] # <<>> /\ (m.st # "posted" \/ failed)
      /\ sq' = [sq EXCEPT ![p][q] = Tail(@)]
      /\ send_cq' = [send_cq EXCEPT ![p] = IF m.signaled \/ failed THEN @ + 1 ELSE @]
  BY DEF SendDone, options, tcpVars
<1>3. 1 \in DOMAIN sq[p][q] /\ m = sq[p][q][1] /\ m \in Msgs(p) /\ m.dst \in Peers(p)
  <2>1. sq[p][q] \in Seq(Msgs(p))
    BY <1>1 DEF Types, Data
  <2>2. 1 \in DOMAIN sq[p][q] /\ m = sq[p][q][1] /\ m \in Msgs(p)
    BY <1>2, <2>1
  <2> QED  BY <2>2 DEF Msgs
<1>4. gone => \E r \in Procs : ~On(r)
  <2>1. Target(p, q) \in Procs /\ Dest(p, m) \in Procs
    BY <1>3, Processes DEF Target, Dest
  <2> QED  BY <2>1
<1>5. m.st = "posted" => p = Server /\ Posted(p, m.dst)
  <2> SUFFICES ASSUME m.st = "posted"  PROVE p = Server /\ Posted(p, m.dst)
    OBVIOUS
  <2>1. Posted(p, m.dst)
    BY <1>3 DEF Posted
  <2>2. ~gone
    BY <1>3, <1>4, <2>1, NoneUnderWay
  <2>3. broken[p] # {}
    BY <1>2, <2>2
  <2> QED  BY <2>1, <2>3, Processes DEF Linked
<1>6. /\ DOMAIN sq' = Procs /\ \A r \in Procs : sq'[r] \in [Peers(r) -> Seq(Msgs(r))]
      /\ \A r \in Procs \ {p} : sq'[r] = sq[r]
      /\ \A j \in Peers(p) :
            /\ Posted(p, j)' <=> Posted(p, j) /\ ~(m.st = "posted" /\ m.dst = j)
            /\ Signals(p, j)' <=> Signals(p, j) /\ ~(m.signaled /\ m.dst = j)
            /\ Silent(p, j)' => Silent(p, j)
      /\ Alone(p)'
  <2>1. Alone(p)
    BY <1>1 DEF Balls
  <2> QED  BY <1>1, <1>2, <2>1, RemovalEffect
<1>7. /\ \A r \in Procs : \A j \in Peers(r) : /\ Posted(r, j)' => Posted(r, j)
                                              /\ Signals(r, j)' => Signals(r, j)
                                              /\ Silent(r, j)' => Silent(r, j)
      /\ \A c \in Clients : Posted(c, 0)' <=> Posted(c, 0)
  <2>1. \A r \in Procs : \A j \in Peers(r) : /\ Posted(r, j)' => Posted(r, j)
                                             /\ Signals(r, j)' => Signals(r, j)
                                             /\ Silent(r, j)' => Silent(r, j)
    BY <1>6, SameQueues
  <2>2. ASSUME NEW c \in Clients  PROVE Posted(c, 0)' <=> Posted(c, 0)
    <3>1. c \in Procs /\ c # Server /\ 0 \in Peers(c)
      BY Processes
    <3>2. CASE c = p
      BY <1>5, <1>6, <3>1, <3>2
    <3>3. CASE c # p
      BY <1>6, <3>1, <3>3, SameQueues
    <3> QED  BY <3>2, <3>3
  <2> QED  BY <2>1, <2>2
<1>8. \A r \in Procs : Alone(r)'
  BY <1>1, <1>6, SameQueues DEF Balls
<1>9. pc[p] \notin Ended /\ failed => m.st = "posted"
  BY <1>4, NoneUnderWay
<1>10. Signals(p, m.dst) \/ ~m.signaled
  BY <1>3 DEF Signals
<1>11. m.st = "posted" /\ ~m.signaled => Silent(p, m.dst)
  BY <1>3 DEF Silent
<1> HIDE DEF m, gone, stuck, failed
<1>12. /\ send_cq' \in [Procs -> Nat]
       /\ send_cq'[p] = (IF m.signaled \/ failed THEN send_cq[p] + 1 ELSE send_cq[p])
       /\ \A r \in Procs \ {p} : send_cq'[r] = send_cq[r]
  BY <1>1, <1>2
<1>13. \A c \in Clients : Astray(c) => Astray(c)'
  <2>1. \A c \in Clients : Posted(Server, c)' => Posted(Server, c)
    BY <1>7, Processes
  <2> QED  BY <1>2, <2>1 DEF Astray, Waits, Handles, Server
<1>14. ASSUME NEW r \in Procs  PROVE Completions(r)'
  <2>1. CASE r # p
    BY <1>1, <1>2, <1>6, <1>12, <1>13, <2>1, OtherCompletions
  <2>2. CASE r = p
    <3> SUFFICES ASSUME pc[p] \notin Ended
                 PROVE  send_cq'[p] + Cardinality(Signaling(p)') <= Cardinality(Full(p)')
      BY <1>2, <2>2 DEF Completions
    <3>1. send_cq[p] + Cardinality(Signaling(p)) <= Cardinality(Full(p))
      BY <1>1 DEF Completions
    <3>2. Peers(p)' = Peers(p)
      BY DEF Peers, Num, Server
    <3>3. Full(p) \subseteq Full(p)'
      BY <1>2, <1>13, <3>2, Processes DEF Full, Server
    <3>4. /\ Signaling(p) \in SUBSET Peers(p) /\ Full(p) \in SUBSET Peers(p)
          /\ Full(p)' \in SUBSET Peers(p)
      BY <3>2 DEF Signaling, Full
    <3>5. /\ IsFiniteSet(Signaling(p)) /\ Cardinality(Signaling(p)) \in Nat
          /\ IsFiniteSet(Full(p)) /\ Cardinality(Full(p)) \in Nat /\ send_cq[p] \in Nat
          /\ IsFiniteSet(Full(p)') /\ Cardinality(Full(p)') \in Nat
      BY <1>1, <3>4, PeersFinite
    <3>6. Cardinality(Full(p)) <= Cardinality(Full(p)')
      BY <3>3, <3>5, FS_Subset
    <3>7. CASE m.signaled
      <4>1. Signaling(p)' = Signaling(p) \ {m.dst} /\ m.dst \in Signaling(p)
        BY <1>3, <1>6, <1>10, <3>2, <3>7 DEF Signaling
      <4>2. Cardinality(Signaling(p) \ {m.dst}) = Cardinality(Signaling(p)) - 1
        BY <3>5, <4>1, FS_RemoveElement
      <4>3. send_cq'[p] = send_cq[p] + 1
        BY <1>12, <3>7
      <4> QED  BY <3>1, <3>5, <3>6, <4>1, <4>2, <4>3
    <3>8. CASE ~m.signaled /\ ~failed
      <4>1. Signaling(p)' = Signaling(p)
        BY <1>6, <3>2, <3>8 DEF Signaling
      <4>2. send_cq'[p] = send_cq[p]
        BY <1>12, <3>8
      <4> QED  BY <3>1, <3>5, <3>6, <4>1, <4>2
    <3>9. CASE ~m.signaled /\ failed
      <4>1. m.st = "posted" /\ p = Server /\ Posted(p, m.dst) /\ Silent(p, m.dst)
        BY <1>5, <1>9, <1>11, <3>9
      <4>2. PICK c \in Clients : c = m.dst
        BY <1>3, <4>1, Processes
      <4>3. /\ c \in Peers(Server) /\ Turn(c) /\ LastSignals(Server)
            /\ Posted(Server, c) /\ Silent(Server, c)
        BY <1>1, <1>3, <4>1, <4>2, Processes DEF Balls
      <4>4. c \notin Full(p)
        BY <4>1, <4>3 DEF Full, LastSignals, Astray
      <4>5. Astray(c)'
        <5>1. ~Posted(Server, c)'
          BY <1>6, <4>1, <4>2, <4>3
        <5>2. pp_cnt[Server][c] = pp_cnt[c][0] + 1 /\ ~Waits(c) /\ ~Handles(c)
          BY <4>3 DEF Turn
        <5>3. ~Waits(c)' /\ ~Handles(c)'
          BY <1>2, <5>2 DEF Waits, Handles
        <5> QED  BY <1>2, <5>1, <5>2, <5>3 DEF Astray, Server
      <4>6. Full(p) \cup {c} \subseteq Full(p)'
        BY <3>2, <3>3, <4>1, <4>3, <4>5 DEF Full, Server
      <4>7. Cardinality(Full(p) \cup {c}) = Cardinality(Full(p)) + 1
        BY <3>5, <4>4, FS_AddElement
      <4>8. Cardinality(Full(p) \cup {c}) <= Cardinality(Full(p)')
        BY <3>5, <4>6, FS_Subset
      <4>9. Signaling(p)' = Signaling(p)
        BY <1>6, <3>2, <3>9 DEF Signaling
      <4>10. send_cq'[p] = send_cq[p] + 1
        BY <1>12, <3>9
      <4> QED  BY <3>1, <3>5, <4>7, <4>8, <4>9, <4>10
    <3> QED  BY <3>7, <3>8, <3>9
  <2> QED  BY <2>1, <2>2
<1> QED  BY <1>2, <1>6, <1>7, <1>8, <1>12, <1>14, AckInv

-----------------------------------------------------------------------------
\* The completions after a message is posted: the last one for a peer brings one.
LEMMA PostCompletions ==
    ASSUME Types, Balls, NEW p \in Procs, NEW i \in Peers(p), pp_post_send(p, i), ~Posted(p, i),
           pp_cnt[p][i] < num_tests, UNCHANGED <<num_tests, send_cq>>, Completions(p),
           pc'[p] \notin Ended => pc[p] \notin Ended,
           p = Server => ~Astray(i) /\ \A j \in Clients : Astray(j) => Astray(j)'
    PROVE  Completions(p)'
<1>1. /\ pp_cnt'[p][i] = pp_cnt[p][i] + 1
      /\ \A j \in Peers(p) \ {i} : pp_cnt'[p][j] = pp_cnt[p][j]
      /\ \A j \in Peers(p) :
            Signals(p, j)' <=> Signals(p, j) \/ (j = i /\ pp_cnt'[p][i] = num_tests)
  <2>1. Alone(p) /\ LastSignals(p)
    BY DEF Balls
  <2> QED  BY <2>1, PostEffect
<1> SUFFICES ASSUME pc'[p] \notin Ended
             PROVE  send_cq'[p] + Cardinality(Signaling(p)') <= Cardinality(Full(p)')
  BY DEF Completions
<1>2. send_cq[p] + Cardinality(Signaling(p)) <= Cardinality(Full(p))
  BY DEF Completions
<1>3. /\ IsFiniteSet(Signaling(p)) /\ Cardinality(Signaling(p)) \in Nat
      /\ IsFiniteSet(Full(p)) /\ Cardinality(Full(p)) \in Nat /\ send_cq[p] \in Nat
      /\ IsFiniteSet(Full(p)') /\ Cardinality(Full(p)') \in Nat /\ Peers(p)' = Peers(p)
  <2>1. Peers(p)' = Peers(p)
    BY DEF Peers, Num, Server
  <2>2. /\ Signaling(p) \in SUBSET Peers(p) /\ Full(p) \in SUBSET Peers(p)
        /\ Full(p)' \in SUBSET Peers(p)
    BY <2>1 DEF Signaling, Full
  <2> QED  BY <2>1, <2>2, PeersFinite DEF Types, Data
<1>4. pp_cnt[p][i] \in Nat /\ num_tests \in Nat
  BY DEF Types, Control, Data
<1>5. i \notin Full(p) /\ i \notin Signaling(p)
  BY <1>4 DEF Full, Signaling, Balls, LastSignals
<1>6. Full(p) \subseteq Full(p)'
  <2>1. p = Server => Peers(p) = Clients
    BY Processes
  <2>2. ASSUME NEW j \in Full(p)  PROVE j \in Full(p)'
    <3>1. j # i /\ j \in Peers(p)
      BY <1>5, <2>2 DEF Full
    <3>2. pp_cnt'[p][j] = pp_cnt[p][j]
      BY <1>1, <3>1
    <3> QED  BY <1>3, <2>1, <2>2, <3>1, <3>2 DEF Full, Server
  <2> QED  BY <2>2
<1>7. CASE pp_cnt'[p][i] = num_tests
  <2>1. Full(p) \cup {i} \subseteq Full(p)' /\ Signaling(p)' = Signaling(p) \cup {i}
    BY <1>1, <1>3, <1>7, <1>6 DEF Full, Signaling
  <2>2. /\ Cardinality(Full(p) \cup {i}) = Cardinality(Full(p)) + 1
        /\ Cardinality(Signaling(p) \cup {i}) = Cardinality(Signaling(p)) + 1
    BY <1>3, <1>5, FS_AddElement
  <2>3. Cardinality(Full(p) \cup {i}) <= Cardinality(Full(p)')
    BY <1>3, <2>1, FS_Subset
  <2> QED  BY <1>2, <1>3, <2>1, <2>2, <2>3
<1>8. CASE pp_cnt'[p][i] # num_tests
  <2>1. Signaling(p)' = Signaling(p)
    BY <1>1, <1>3, <1>8 DEF Signaling
  <2>2. Cardinality(Full(p)) <= Cardinality(Full(p)')
    BY <1>3, <1>6, FS_Subset
  <2> QED  BY <1>2, <1>3, <2>1, <2>2
<1> QED  BY <1>7, <1>8

\* The server's first message for a client.
LEMMA FirstInv ==
    ASSUME Inv, NEW p \in Procs, First(p)
    PROVE  Inv'
<1>1. /\ Types /\ Control /\ Data /\ Balls /\ Progress /\ pc[p] = "first"
      /\ \A c \in Clients : Handshake(c) /\ \A r \in Procs : Completions(r)
  BY DEF Inv, Types, First, At
<1>2. p = Server
  BY <1>1, Processes DEF Control, ClientLabels, Setup, Loop, Ended
<1> DEFINE i == cnt[Server]
<1>3. /\ UNCHANGED <<use_event, num_tests, wc, rx, recv_cq, send_cq, to_server, to_client>>
      /\ pp_post_send(Server, i) /\ NextIndex(Server, "first", LoopTop(0, Server))
  BY <1>2 DEF First, options, tcpVars
<1>4. /\ i \in Clients /\ i \in Peers(Server) /\ Server \in Procs
      /\ pp_cnt[Server][i] = 0 /\ \A c \in Clients : Behind(c) = 0
  BY <1>1, <1>2, Processes DEF Control, Loop, Progress
<1>5. num_tests \in Nat \ {0} /\ pp_cnt[i][0] \in Nat /\ Turn(i)
  <2>1. \A c \in Clients : pp_cnt[c] \in [Peers(c) -> 0 .. num_tests] /\ 0 \in Peers(c)
    BY <1>1, Processes DEF Data
  <2>2. \A c \in Clients : pp_cnt[c][0] \in 0 .. num_tests
    BY <2>1
  <2>3. num_tests \in Nat \ {0} /\ Turn(i)
    BY <1>1, <1>4 DEF Control, Balls
  <2> HIDE DEF i
  <2> QED  BY <1>4, <2>2, <2>3
<1>6. pp_cnt[i][0] = 0 /\ ~Posted(Server, i) /\ ~Waits(i) /\ ~Handles(i)
  BY <1>4, <1>5 DEF Turn
<1>7. /\ DOMAIN sq' = Procs /\ \A r \in Procs : sq'[r] \in [Peers(r) -> Seq(Msgs(r))]
      /\ DOMAIN pp_cnt' = Procs
      /\ \A r \in Procs : pp_cnt'[r] \in [Peers(r) -> 0 .. num_tests]
      /\ \A r \in Procs \ {Server} : sq'[r] = sq[r] /\ pp_cnt'[r] = pp_cnt[r]
      /\ pp_cnt'[Server][i] = 1
      /\ \A c \in Clients \ {i} : pp_cnt'[Server][c] = pp_cnt[Server][c]
      /\ \A c \in Clients : Posted(Server, c)' <=> Posted(Server, c) \/ c = i
      /\ Alone(Server)' /\ LastSignals(Server)'
  <2>1. Alone(Server) /\ LastSignals(Server) /\ Peers(Server) = Clients
    BY <1>1, <1>4, Processes DEF Balls
  <2>2. pp_cnt[Server][i] < num_tests /\ UNCHANGED num_tests
    BY <1>3, <1>4, <1>5
  <2> HIDE DEF i
  <2> QED  BY <1>1, <1>3, <1>4, <1>6, <2>1, <2>2, PostEffect
<1>8. /\ cnt' \in [Procs -> Nat] /\ cnt'[Server] \in Clients
      /\ \/ cnt'[Server] = i + 1 /\ pc'[Server] = "first"
         \/ cnt'[Server] = 0 /\ pc'[Server] \in {"event", "poll"}
      /\ \A r \in Procs \ {Server} : pc'[r] = pc[r] /\ cnt'[r] = cnt[r]
  <2>1. LoopTop(0, Server) \in {"event", "poll"}
    BY <1>1, HandledFinite, Processes DEF LoopTop
  <2> QED  BY <1>1, <1>3, <1>4, <2>1, IndexStep, Processes
<1>9. pc' \in [Procs -> ServerLabels]
  <2>1. pc' = [pc EXCEPT ![Server] = pc'[Server]]
    BY <1>1, <1>3, <1>4, IndexStep
  <2>2. pc'[Server] \in ServerLabels
    BY <1>8 DEF ServerLabels, ClientLabels, Loop
  <2> QED  BY <1>1, <2>1, <2>2 DEF Control
<1>10. Control'
  BY <1>1, <1>3, <1>8, <1>9, Processes DEF Control, Procs, Clients, Server
<1>11. Data'
  BY <1>1, <1>3, <1>7 DEF Data, Procs, Clients, Msgs, Peers, Num, Server
<1>12. ASSUME NEW r \in Procs  PROVE Alone(r)' /\ LastSignals(r)' /\ Receives(r)'
  <2>1. Alone(r) /\ LastSignals(r) /\ Receives(r)
    BY <1>1 DEF Balls
  <2>2. Receives(r)'
    BY <1>3, <2>1 DEF Receives, Num, Server
  <2>3. CASE r # Server
    <3>1. /\ \A j : (Signals(r, j)' <=> Signals(r, j)) /\ (Silent(r, j)' <=> Silent(r, j))
          /\ Alone(r)'
      BY <1>7, <2>1, <2>3, SameQueues
    <3> QED  BY <1>3, <1>7, <2>1, <2>2, <2>3, <3>1 DEF LastSignals, Peers, Num, Server
  <2> QED  BY <1>7, <2>2, <2>3
<1>13. ASSUME NEW c \in Clients
       PROVE  /\ Turn(c)' /\ (Done(c)' <=> Done(c)) /\ Behind(c)' = 0
              /\ Astray(c) => Astray(c)'
  <2>1. /\ ServerWaits(c)' <=> ServerWaits(c)
        /\ ServerHandles(c)' <=> ServerHandles(c)
        /\ Waits(c)' <=> Waits(c)
        /\ Handles(c)' <=> Handles(c)
        /\ Posted(c, 0)' <=> Posted(c, 0)
        /\ pp_cnt'[c] = pp_cnt[c]
    BY <1>1, <1>2, <1>3, <1>7, <1>8, SameQueues, Processes
       DEF ServerWaits, ServerHandles, Waits, Handles, Server
  <2>2. Turn(c) /\ Behind(c) = 0
    BY <1>1, <1>4 DEF Balls
  <2>3. Posted(Server, c)' <=> Posted(Server, c) \/ c = i
    BY <1>7
  <2>4. CASE c = i
    <3>1. pp_cnt'[Server][c] = 1 /\ pp_cnt[c][0] = 0 /\ ~Posted(Server, c) /\ ~Waits(c) /\ ~Handles(c)
          /\ pp_cnt[Server][c] = 0
      BY <1>4, <1>6, <1>7, <2>4
    <3>2. Turn(c)'
      BY <2>1, <2>2, <2>3, <3>1 DEF Turn, Server
    <3>3. ~Done(c)' /\ ~Done(c)
      BY <1>3, <1>5, <2>1, <3>1 DEF Done, Server
    <3>4. ~Astray(c)
      BY <3>1 DEF Astray
    <3> QED  BY <3>1, <3>2, <3>3, <3>4 DEF Behind, Server
  <2>5. CASE c # i
    <3>1. pp_cnt'[Server][c] = pp_cnt[Server][c]
      BY <1>7, <2>5
    <3>2. Turn(c)'
      BY <2>1, <2>2, <2>3, <2>5, <3>1 DEF Turn, Server
    <3>3. Done(c)' <=> Done(c)
      BY <1>3, <2>1, <3>1 DEF Done, Server
    <3>4. Astray(c) => Astray(c)'
      BY <2>1, <2>3, <2>5, <3>1 DEF Astray, Server
    <3> QED  BY <1>3, <2>2, <3>1, <3>2, <3>3, <3>4 DEF Behind, Server
  <2> QED  BY <2>4, <2>5
<1>14. Balls'
  <2>1. OneEach'
    BY <1>1, <1>3 DEF Balls, OneEach, Server
  <2> QED  BY <1>12, <1>13, <2>1 DEF Balls, Procs, Clients
<1>15. Progress'
  <2>1. \A c \in Clients : c >= i + 1 => pp_cnt'[Server][c] = 0
    <3>1. \A c \in Clients : c >= i => pp_cnt[Server][c] = 0
      BY <1>1, <1>2 DEF Progress
    <3>2. \A c \in Clients : c >= i + 1 => c >= i /\ c # i
      <4>1. PICK n \in Nat : n = i
        BY <1>4, Processes
      <4>2. \A c \in Nat : c >= n + 1 => c >= n /\ c # n
        OBVIOUS
      <4> QED  BY <4>1, <4>2, Processes
    <3> QED  BY <1>7, <3>1, <3>2
  <2>2. CASE pc'[Server] = "first"
    BY <1>8, <1>13, <2>1, <2>2 DEF Progress, Setup, Loop, Ended, Clients, Server
  <2>3. CASE pc'[Server] \in {"event", "poll"}
    <3>1. Handled' = {}
      <4>1. \A x \in Clients \X (1 .. num_tests') : ~(x[2] <= Behind(x[1])')
        BY <1>3, <1>5, <1>13
      <4> QED  BY <4>1 DEF Handled, Clients
    <3>2. cnt'[Server] = Cardinality(Handled')
      BY <1>8, <2>3, <3>1, FS_EmptySet
    <3> QED  BY <2>3, <3>2 DEF Progress, Setup, Loop, Ended, Clients, Server
  <2> QED  BY <1>8, <2>2, <2>3
<1>16. ASSUME NEW r \in Procs  PROVE Completions(r)'
  <2>1. CASE r = Server
    <3>1. pp_cnt[Server][i] < num_tests /\ UNCHANGED <<num_tests, send_cq>>
      BY <1>3, <1>4, <1>5
    <3>2. pc[Server] \notin Ended /\ Completions(Server)
      BY <1>1, <1>2, <1>4 DEF Ended
    <3>3. ~Astray(i)
      BY <1>4, <1>6 DEF Astray
    <3> HIDE DEF i
    <3> QED  BY <1>1, <1>3, <1>4, <1>6, <1>13, <2>1, <3>1, <3>2, <3>3, PostCompletions
  <2>2. CASE r # Server
    BY <1>1, <1>3, <1>7, <1>8, <2>2, OtherCompletions
  <2> QED  BY <2>1, <2>2
<1>17. ASSUME NEW c \in Clients  PROVE Handshake(c)'
  BY <1>1, <1>2, <1>3, <1>8, Processes DEF Handshake, Ready, Closing
<1> QED  BY <1>10, <1>11, <1>14, <1>15, <1>16, <1>17 DEF Inv, Types

\* A client answers the server's message.
LEMMA ClientReplyInv ==
    ASSUME Inv, NEW p \in Clients, Reply(p)
    PROVE  Inv'
<1>1. /\ Types /\ Control /\ Data /\ Balls /\ pc[p] = "reply" /\ p \in Procs /\ p # Server
      /\ \A r \in Procs : Completions(r)
  BY Processes DEF Inv, Types, Reply, At
<1>2. /\ UNCHANGED <<use_event, num_tests, rx, recv_cq, send_cq, to_server, to_client>>
      /\ cnt' = [cnt EXCEPT ![p] = cnt[p] + 1] /\ wc' = [wc EXCEPT ![p] = 0] /\ Goto(p, "poll")
  BY DEF Reply, options, tcpVars, AfterReply
<1>3. /\ num_tests \in Nat \ {0} /\ Turn(p) /\ Handles(p)
      /\ pp_cnt[Server][p] \in 0 .. num_tests /\ pp_cnt[p][0] \in 0 .. num_tests
      /\ 0 \in Peers(p) /\ Peers(p) = {0}
  <2>1. /\ pp_cnt[p] \in [Peers(p) -> 0 .. num_tests] /\ 0 \in Peers(p) /\ Peers(p) = {0}
        /\ pp_cnt[Server] \in [Peers(Server) -> 0 .. num_tests] /\ p \in Peers(Server)
    <3>1. /\ p \in Procs /\ Server \in Procs /\ 0 \in Peers(p) /\ Peers(p) = {0}
          /\ p \in Peers(Server)
      BY Processes
    <3> QED  BY <1>1, <3>1 DEF Data
  <2>2. pp_cnt[Server][p] \in 0 .. num_tests /\ pp_cnt[p][0] \in 0 .. num_tests
    BY <2>1
  <2>3. num_tests \in Nat \ {0} /\ Turn(p) /\ Handles(p)
    BY <1>1 DEF Control, Balls, Handles
  <2> QED  BY <2>1, <2>2, <2>3
<1>4. /\ pp_cnt[Server][p] = pp_cnt[p][0] + 1 /\ pp_cnt[p][0] < num_tests
      /\ ~Posted(p, 0) /\ ~ServerWaits(p) /\ ~ServerHandles(p)
      /\ ~Posted(Server, p) /\ ~Waits(p) /\ ~Done(p)
  BY <1>3 DEF Turn, Done
<1>5. pp_post_send(p, 0)
  <2>1. find_qp(p, wc[p]) = 0
    BY Processes DEF find_qp
  <2> QED  BY <1>4, <2>1 DEF Reply
<1>6. /\ DOMAIN sq' = Procs /\ \A r \in Procs : sq'[r] \in [Peers(r) -> Seq(Msgs(r))]
      /\ DOMAIN pp_cnt' = Procs
      /\ \A r \in Procs : pp_cnt'[r] \in [Peers(r) -> 0 .. num_tests]
      /\ \A r \in Procs \ {p} : sq'[r] = sq[r] /\ pp_cnt'[r] = pp_cnt[r]
      /\ pp_cnt'[p][0] = pp_cnt[p][0] + 1
      /\ Posted(p, 0)' /\ Alone(p)' /\ LastSignals(p)'
  <2>1. Alone(p) /\ LastSignals(p)
    BY <1>1 DEF Balls
  <2> QED  BY <1>1, <1>2, <1>3, <1>4, <1>5, <2>1, PostEffect
<1>7. /\ pc'[p] = "poll" /\ \A r \in Procs \ {p} : pc'[r] = pc[r]
      /\ pc' \in [Procs -> ServerLabels]
  <2>1. "poll" \in ServerLabels
    BY DEF ServerLabels, ClientLabels, Loop
  <2> QED  BY <1>1, <1>2, <2>1, Moves
<1>8. /\ cnt' \in [Procs -> Nat] /\ cnt'[Server] = cnt[Server]
      /\ wc' \in [Procs -> Clients] /\ wc'[Server] = wc[Server]
  <2>1. cnt \in [Procs -> Nat] /\ wc \in [Procs -> Clients]
    BY <1>1 DEF Control, Data
  <2>2. 0 \in Clients /\ Server \in Procs /\ Server # p /\ p \in Procs
    BY <1>1, Processes
  <2>3. cnt[p] + 1 \in Nat
    BY <2>1, <2>2
  <2>4. cnt' \in [Procs -> Nat] /\ cnt'[Server] = cnt[Server]
    BY <1>2, <2>1, <2>2, <2>3
  <2>5. wc' \in [Procs -> Clients] /\ wc'[Server] = wc[Server]
    BY <1>2, <2>1, <2>2
  <2> QED  BY <2>4, <2>5
<1>9. Data'
  BY <1>1, <1>2, <1>6, <1>8 DEF Data, Procs, Clients, Msgs, Peers, Num, Server
<1>10. ASSUME NEW r \in Procs  PROVE Alone(r)' /\ LastSignals(r)' /\ Receives(r)'
  <2>1. Alone(r) /\ LastSignals(r) /\ Receives(r)
    BY <1>1 DEF Balls
  <2>2. Receives(r)'
    BY <1>2, <2>1 DEF Receives, Num, Server
  <2>3. CASE r # p
    <3>1. /\ \A j : (Signals(r, j)' <=> Signals(r, j)) /\ (Silent(r, j)' <=> Silent(r, j))
          /\ Alone(r)'
      BY <1>6, <2>1, <2>3, SameQueues
    <3> QED  BY <1>2, <1>6, <2>1, <2>2, <2>3, <3>1 DEF LastSignals, Peers, Num, Server
  <2> QED  BY <1>6, <2>2, <2>3
<1>11. ASSUME NEW c \in Clients
       PROVE  Turn(c)' /\ (Done(c)' <=> Done(c)) /\ (Astray(c) => Astray(c)')
  <2>1. /\ ServerWaits(c)' <=> ServerWaits(c)
        /\ ServerHandles(c)' <=> ServerHandles(c)
        /\ Waits(c)' <=> Waits(c)
        /\ Posted(Server, c)' <=> Posted(Server, c)
        /\ pp_cnt'[Server] = pp_cnt[Server]
    BY <1>1, <1>2, <1>6, <1>7, <1>8, SameQueues, Processes
       DEF ServerWaits, ServerHandles, Waits, Server
  <2>2. Turn(c)
    BY <1>1 DEF Balls
  <2>3. CASE c = p
    <3>1. Posted(c, 0)' /\ ~Handles(c)' /\ pp_cnt'[c][0] = pp_cnt'[Server][c] /\ pp_cnt'[c][0] # 0
      BY <1>3, <1>4, <1>6, <1>7, <2>1, <2>3 DEF Handles
    <3>2. Turn(c)'
      BY <1>4, <2>1, <2>3, <3>1 DEF Turn, Server
    <3>3. ~Done(c)'
      BY <3>1 DEF Done, Server
    <3>4. ~Astray(c)
      BY <1>3, <2>3 DEF Astray
    <3> QED  BY <1>4, <2>3, <3>2, <3>3, <3>4
  <2>4. CASE c # p
    <3>1. (Handles(c)' <=> Handles(c)) /\ (Posted(c, 0)' <=> Posted(c, 0)) /\ pp_cnt'[c] = pp_cnt[c]
      BY <1>6, <1>7, <2>4, SameQueues, Processes DEF Handles
    <3> QED  BY <1>2, <2>1, <2>2, <3>1 DEF Turn, Done, Astray, Server
  <2> QED  BY <2>3, <2>4
<1>12. Balls'
  <2>1. OneEach'
    BY <1>1, <1>2 DEF Balls, OneEach, Server
  <2> QED  BY <1>10, <1>11, <2>1 DEF Balls, Procs, Clients
<1>13. ASSUME NEW r \in Procs  PROVE Completions(r)'
  <2>1. CASE r = p
    <3>1. pc[p] \notin Ended
      BY <1>1 DEF Ended
    <3> QED  BY <1>1, <1>2, <1>3, <1>4, <1>5, <2>1, <3>1, PostCompletions
  <2>2. CASE r # p
    BY <1>1, <1>2, <1>6, <1>7, <1>11, <2>2, OtherCompletions
  <2> QED  BY <2>1, <2>2
<1>14. \A r \in Procs : pc'[r] = pc[r] \/ (pc[r] \in Loop /\ pc'[r] \in Loop)
  BY <1>1, <1>7 DEF Loop
<1>15. pp_cnt'[Server] = pp_cnt[Server]
  BY <1>1, <1>6, Processes
<1> QED  BY <1>2, <1>7, <1>8, <1>9, <1>11, <1>12, <1>13, <1>14, <1>15, BallInv

\* The server counts a message and answers it, unless it was the last.
LEMMA ServerReplyInv ==
    ASSUME Inv, Reply(Server)
    PROVE  Inv'
<1> DEFINE i == wc[Server]
<1>1. /\ Types /\ Control /\ Data /\ Balls /\ Progress /\ pc[Server] = "reply"
      /\ Server \in Procs /\ i \in Clients /\ Peers(Server) = Clients
      /\ \A r \in Procs : Completions(r) /\ \A c \in Clients : Handshake(c)
  BY Processes DEF Inv, Types, Data, Reply, At
<1>2. /\ UNCHANGED <<use_event, num_tests, rx, recv_cq, send_cq, to_server, to_client>>
      /\ cnt' = [cnt EXCEPT ![Server] = cnt[Server] + 1] /\ wc' = [wc EXCEPT ![Server] = 0]
      /\ Goto(Server, "poll")
      /\ IF pp_cnt[Server][i] < num_tests THEN pp_post_send(Server, i)
                                          ELSE UNCHANGED <<pp_cnt, sq>>
  <2>1. find_qp(Server, i) = i
    <3>1. NumClients = 1 => i = 0
      BY <1>1 DEF Clients
    <3> QED  BY <3>1, Processes DEF find_qp
  <2> QED  BY <2>1 DEF Reply, options, tcpVars, AfterReply
<1>3. /\ num_tests \in Nat \ {0} /\ Turn(i) /\ ServerHandles(i)
      /\ pp_cnt[Server][i] \in 0 .. num_tests /\ pp_cnt[i][0] \in 0 .. num_tests
  <2>1. /\ \A c \in Clients : pp_cnt[c] \in [Peers(c) -> 0 .. num_tests] /\ 0 \in Peers(c)
        /\ pp_cnt[Server] \in [Peers(Server) -> 0 .. num_tests]
    BY <1>1, Processes DEF Data
  <2>2. \A c \in Clients : pp_cnt[c][0] \in 0 .. num_tests /\ pp_cnt[Server][c] \in 0 .. num_tests
    BY <1>1, <2>1
  <2>3. num_tests \in Nat \ {0} /\ Turn(i) /\ ServerHandles(i)
    BY <1>1 DEF Control, Balls, ServerHandles
  <2> HIDE DEF i
  <2> QED  BY <1>1, <2>2, <2>3
<1>4. /\ \A c \in Clients : ServerHandles(c) <=> c = i
      /\ \A r \in Procs \ {Server} : wc'[r] = wc[r]
      /\ wc' \in [Procs -> Clients]
      /\ cnt' \in [Procs -> Nat] /\ cnt'[Server] = cnt[Server] + 1
      /\ \A r \in Procs \ {Server} : cnt'[r] = cnt[r]
  <2>1. cnt \in [Procs -> Nat] /\ wc \in [Procs -> Clients]
    BY <1>1 DEF Control, Data
  <2>2. 0 \in Clients /\ Server \in Procs
    BY <1>1, Processes
  <2>3. cnt[Server] + 1 \in Nat
    BY <2>1, <2>2
  <2>4. /\ cnt' \in [Procs -> Nat] /\ cnt'[Server] = cnt[Server] + 1
        /\ \A r \in Procs \ {Server} : cnt'[r] = cnt[r]
    BY <1>2, <2>1, <2>2, <2>3
  <2>5. wc' \in [Procs -> Clients] /\ \A r \in Procs \ {Server} : wc'[r] = wc[r]
    BY <1>2, <2>1, <2>2
  <2>6. \A c \in Clients : ServerHandles(c) <=> c = i
    BY <1>1 DEF ServerHandles
  <2> QED  BY <2>4, <2>5, <2>6
<1> HIDE DEF i
<1>5. /\ pp_cnt[Server][i] = pp_cnt[i][0] /\ pp_cnt[Server][i] # 0
      /\ ~Posted(Server, i) /\ ~Waits(i) /\ ~Handles(i) /\ ~Posted(i, 0) /\ ~ServerWaits(i)
  BY <1>3 DEF Turn
<1>6. /\ pc'[Server] = "poll" /\ \A r \in Procs \ {Server} : pc'[r] = pc[r]
      /\ pc' \in [Procs -> ServerLabels]
  <2>1. "poll" \in ServerLabels
    BY DEF ServerLabels, ClientLabels, Loop
  <2> QED  BY <1>1, <1>2, <2>1, Moves
\* The two cases have the same shape.
<1> DEFINE posts == pp_cnt[Server][i] < num_tests
<1>7. /\ DOMAIN sq' = Procs /\ \A r \in Procs : sq'[r] \in [Peers(r) -> Seq(Msgs(r))]
      /\ DOMAIN pp_cnt' = Procs
      /\ \A r \in Procs : pp_cnt'[r] \in [Peers(r) -> 0 .. num_tests]
      /\ \A r \in Procs \ {Server} : sq'[r] = sq[r] /\ pp_cnt'[r] = pp_cnt[r]
      /\ pp_cnt'[Server][i] = (IF posts THEN pp_cnt[Server][i] + 1 ELSE pp_cnt[Server][i])
      /\ \A c \in Clients \ {i} : pp_cnt'[Server][c] = pp_cnt[Server][c]
      /\ \A c \in Clients : Posted(Server, c)' <=> Posted(Server, c) \/ (posts /\ c = i)
      /\ Alone(Server)' /\ LastSignals(Server)'
  <2>1. Alone(Server) /\ LastSignals(Server) /\ i \in Peers(Server)
    BY <1>1 DEF Balls
  <2>2. UNCHANGED num_tests
    BY <1>2
  <2>3. CASE posts
    <3>1. pp_post_send(Server, i)
      BY <1>2, <2>3
    <3>2. /\ DOMAIN sq' = Procs /\ \A r \in Procs : sq'[r] \in [Peers(r) -> Seq(Msgs(r))]
          /\ DOMAIN pp_cnt' = Procs
          /\ \A r \in Procs : pp_cnt'[r] \in [Peers(r) -> 0 .. num_tests]
          /\ \A r \in Procs \ {Server} : sq'[r] = sq[r] /\ pp_cnt'[r] = pp_cnt[r]
          /\ pp_cnt'[Server][i] = pp_cnt[Server][i] + 1
          /\ \A c \in Peers(Server) \ {i} : pp_cnt'[Server][c] = pp_cnt[Server][c]
          /\ \A c \in Peers(Server) : Posted(Server, c)' <=> Posted(Server, c) \/ c = i
          /\ Alone(Server)' /\ LastSignals(Server)'
      BY <1>1, <1>5, <2>1, <2>2, <2>3, <3>1, PostEffect
    <3> QED  BY <1>1, <2>3, <3>2
  <2>4. CASE ~posts
    <3>1. pp_cnt' = pp_cnt /\ sq' = sq
      BY <1>2, <2>4
    <3>2. /\ \A c : Posted(Server, c)' <=> Posted(Server, c)
          /\ Alone(Server)' /\ LastSignals(Server)'
      BY <1>1, <2>1, <2>2, <3>1, QueuesStill
    <3> QED  BY <1>1, <2>4, <3>1, <3>2 DEF Data
  <2> QED  BY <2>3, <2>4
<1>8. Control'
  BY <1>1, <1>2, <1>4, <1>6, Processes DEF Control, Procs, Clients, Server, Loop
<1>9. Data'
  BY <1>1, <1>2, <1>4, <1>7 DEF Data, Procs, Clients, Msgs, Peers, Num, Server
<1>10. ASSUME NEW r \in Procs  PROVE Alone(r)' /\ LastSignals(r)' /\ Receives(r)'
  <2>1. Alone(r) /\ LastSignals(r) /\ Receives(r)
    BY <1>1 DEF Balls
  <2>2. Receives(r)'
    BY <1>2, <2>1 DEF Receives, Num, Server
  <2>3. CASE r # Server
    <3>1. /\ \A j : (Signals(r, j)' <=> Signals(r, j)) /\ (Silent(r, j)' <=> Silent(r, j))
          /\ Alone(r)'
      BY <1>7, <2>1, <2>3, SameQueues
    <3> QED  BY <1>2, <1>7, <2>1, <2>2, <2>3, <3>1 DEF LastSignals, Peers, Num, Server
  <2> QED  BY <1>7, <2>2, <2>3
<1>11. ASSUME NEW c \in Clients
       PROVE  /\ Turn(c)'
              /\ c # i => Behind(c)' = Behind(c)
              /\ c = i => Behind(c)' = Behind(c) + 1 /\ Behind(c) \in Nat
              /\ Astray(c) => Astray(c)'
  <2>1. /\ ServerWaits(c)' <=> ServerWaits(c)
        /\ ~ServerHandles(c)'
        /\ Waits(c)' <=> Waits(c)
        /\ Handles(c)' <=> Handles(c)
        /\ Posted(c, 0)' <=> Posted(c, 0)
        /\ pp_cnt'[c] = pp_cnt[c]
    BY <1>1, <1>2, <1>6, <1>7, SameQueues, Processes
       DEF ServerWaits, ServerHandles, Waits, Handles, Server
  <2>2. Turn(c)
    BY <1>1 DEF Balls
  <2>3. Posted(Server, c)' <=> Posted(Server, c) \/ (posts /\ c = i)
    BY <1>7
  <2>4. CASE c = i
    <3>1. /\ pp_cnt[Server][c] = pp_cnt[c][0] /\ pp_cnt[Server][c] # 0
          /\ ~Posted(Server, c) /\ ~Waits(c) /\ ~Handles(c) /\ ~Posted(c, 0) /\ ~ServerWaits(c)
          /\ pp_cnt[Server][c] \in 0 .. num_tests /\ num_tests \in Nat
          /\ pp_cnt'[Server][c] = (IF posts THEN pp_cnt[Server][c] + 1 ELSE pp_cnt[Server][c])
      BY <1>3, <1>5, <1>7, <2>4
    <3>2. ~Done(c) /\ Behind(c) = pp_cnt[Server][c] - 1
      <4>1. ~Done(c)
        BY <1>4, <2>4 DEF Done
      <4> QED  BY <3>1, <4>1 DEF Behind
    <3>3. ~Astray(c)
      BY <3>1 DEF Astray
    <3>4. CASE posts
      <4>1. Turn(c)'
        BY <2>1, <2>3, <2>4, <3>1, <3>4 DEF Turn, Server
      <4>2. ~Done(c)'
        BY <2>1, <3>1, <3>4 DEF Done, Server
      <4>3. Behind(c)' = pp_cnt[Server][c]
        BY <3>1, <3>4, <4>2 DEF Behind, Server
      <4> QED  BY <2>4, <3>1, <3>2, <3>3, <4>1, <4>3
    <3>5. CASE ~posts
      <4>1. pp_cnt[Server][c] = num_tests
        BY <2>4, <3>1, <3>5
      <4>2. Turn(c)'
        BY <2>1, <2>3, <3>1, <3>5 DEF Turn, Server
      <4>3. Done(c)'
        BY <1>2, <2>1, <3>1, <3>5, <4>1 DEF Done, Server
      <4>4. Behind(c)' = num_tests
        BY <1>2, <4>3 DEF Behind, Server
      <4> QED  BY <2>4, <3>1, <3>2, <3>3, <4>1, <4>2, <4>4
    <3> QED  BY <3>4, <3>5
  <2>5. CASE c # i
    <3>1. pp_cnt'[Server][c] = pp_cnt[Server][c] /\ ~ServerHandles(c)
      BY <1>4, <1>7, <2>5
    <3>2. Turn(c)'
      BY <2>1, <2>2, <2>3, <2>5, <3>1 DEF Turn, Server
    <3>3. Done(c)' <=> Done(c)
      BY <1>2, <2>1, <3>1 DEF Done, Server
    <3>4. Astray(c) => Astray(c)'
      BY <2>1, <2>3, <2>5, <3>1 DEF Astray, Server
    <3> QED  BY <1>2, <2>5, <3>1, <3>2, <3>3, <3>4 DEF Behind, Server
  <2> QED  BY <2>4, <2>5
<1>12. Balls'
  <2>1. OneEach'
    BY <1>1, <1>2 DEF Balls, OneEach, Server
  <2> QED  BY <1>10, <1>11, <2>1 DEF Balls, Procs, Clients
<1>13. Progress'
  <2>1. Behind(i) \in Nat /\ Behind(i) + 1 <= num_tests
    <3>1. ~Done(i)
      BY <1>1, <1>4 DEF Done
    <3> QED  BY <1>3, <3>1 DEF Behind
  <2> DEFINE x == <<i, Behind(i) + 1>>
  <2>2. x \notin Handled
    BY <2>1 DEF Handled
  <2>3. Handled' = Handled \cup {x}
    <3>1. Handled' = {y \in Clients \X (1 .. num_tests) : y[2] <= Behind(y[1])'}
      BY <1>2 DEF Handled, Clients
    <3>2. x \in Clients \X (1 .. num_tests) /\ x[1] = i /\ x[2] = Behind(i) + 1
      BY <1>1, <1>3, <2>1
    <3>3. ASSUME NEW y \in Clients \X (1 .. num_tests)
          PROVE  y[2] <= Behind(y[1])' <=> y[2] <= Behind(y[1]) \/ y = x
      <4>1. PICK c \in Clients, k \in 1 .. num_tests : y = <<c, k>>
        OBVIOUS
      <4>2. CASE c = i
        <5>1. Behind(c)' = Behind(i) + 1
          BY <1>11, <4>2
        <5>2. k <= Behind(i) + 1 <=> k <= Behind(i) \/ k = Behind(i) + 1
          BY <1>3, <2>1, <4>1
        <5> QED  BY <4>1, <4>2, <5>1, <5>2
      <4>3. CASE c # i
        BY <1>11, <4>1, <4>3
      <4> QED  BY <4>2, <4>3
    <3> HIDE DEF x
    <3> QED  BY <3>1, <3>2, <3>3 DEF Handled
  <2> HIDE DEF x
  <2>4. Cardinality(Handled') = Cardinality(Handled) + 1
    BY <1>1, <2>2, <2>3, HandledFinite, FS_AddElement
  <2>5. cnt[Server] = Cardinality(Handled)
    BY <1>1 DEF Progress, Loop
  <2>6. cnt'[Server] = Cardinality(Handled')
    BY <1>4, <2>4, <2>5
  <2> QED  BY <1>6, <2>6 DEF Progress, Setup, Loop, Ended, Server
<1>14. ASSUME NEW r \in Procs  PROVE Completions(r)'
  <2>1. CASE r # Server
    BY <1>1, <1>2, <1>6, <1>7, <2>1, OtherCompletions
  <2>2. CASE r = Server /\ posts
    <3>1. pp_post_send(Server, i) /\ pp_cnt[Server][i] < num_tests
      BY <1>2, <2>2
    <3>2. ~Astray(i)
      BY <1>3, <1>5 DEF Astray
    <3>3. pc[Server] \notin Ended /\ UNCHANGED <<num_tests, send_cq>> /\ i \in Peers(Server)
      BY <1>1, <1>2 DEF Ended
    <3> QED  BY <1>1, <1>5, <1>11, <2>2, <3>1, <3>2, <3>3, PostCompletions
  <2>3. CASE r = Server /\ ~posts
    <3>1. UNCHANGED <<pp_cnt, sq, send_cq, num_tests>> /\ pc[Server] \notin Ended
      BY <1>1, <1>2, <2>3 DEF Ended
    <3>2. \A c : Signals(Server, c)' => Signals(Server, c)
      BY <3>1, SameQueues
    <3>3. send_cq'[Server] \in Nat /\ send_cq'[Server] <= send_cq[Server]
      BY <1>1, <3>1 DEF Data
    <3> QED  BY <1>1, <1>11, <2>3, <3>1, <3>2, <3>3, CompletionsKept
  <2> QED  BY <2>1, <2>2, <2>3
<1>15. ASSUME NEW c \in Clients  PROVE Handshake(c)'
  BY <1>1, <1>2, <1>6, Processes DEF Handshake, Ready, Closing
<1> QED  BY <1>8, <1>9, <1>12, <1>13, <1>14, <1>15 DEF Inv, Types

-----------------------------------------------------------------------------
\* The first state: nothing is sent.
LEMMA InitInv == ASSUME Init  PROVE Inv
<1>1. Control
  <2>1. num_tests \in Nat \ {0} /\ use_event \in BOOLEAN
    BY XsrqAssumption DEF Init
  <2>2. /\ pc \in [Procs -> ServerLabels] /\ pc[Server] = "recv_addr"
        /\ \A c \in Clients : pc[c] = "send_addr"
    BY Processes DEF Init, ServerLabels, ClientLabels, Setup
  <2>3. cnt \in [Procs -> Nat] /\ cnt[Server] = 0
    BY Processes DEF Init
  <2>4. /\ to_server \in [Clients -> Seq({"addr", "END"})]
        /\ to_client \in [Clients -> Seq({"addr", "END"})]
    BY DEF Init
  <2> QED  BY <2>1, <2>2, <2>3, <2>4, Processes DEF Control, ClientLabels, Setup
<1>2. Data
  <2>1. wc \in [Procs -> Clients]
    BY Processes DEF Init
  <2>2. DOMAIN pp_cnt = Procs /\ \A p \in Procs : pp_cnt[p] \in [Peers(p) -> 0 .. num_tests]
    BY <1>1 DEF Init, Control
  <2>3. DOMAIN sq = Procs /\ \A p \in Procs : sq[p] \in [Peers(p) -> Seq(Msgs(p))]
    BY DEF Init
  <2>4. rx \in [Procs -> Nat] /\ recv_cq \in [Procs -> Seq(Clients)] /\ send_cq \in [Procs -> Nat]
    BY Processes DEF Init
  <2> QED  BY <2>1, <2>2, <2>3, <2>4 DEF Data
<1>3. /\ \A p \in Procs : /\ \A q \in Peers(p) : DOMAIN sq[p][q] = {} /\ pp_cnt[p][q] = 0
                          /\ recv_cq[p] = <<>> /\ rx[p] = Num(p) /\ send_cq[p] = 0
      /\ pc[Server] = "recv_addr" /\ \A c \in Clients : pc[c] = "send_addr"
      /\ \A c \in Clients : to_server[c] = <<>> /\ to_client[c] = <<>>
  BY Processes DEF Init
<1>4. \A p \in Procs : \A i : ~Posted(p, i) /\ ~Signals(p, i) /\ ~Silent(p, i)
  BY <1>3 DEF Posted, Signals, Silent
<1>5. Balls
  <2>1. \A p \in Procs : Alone(p) /\ LastSignals(p)
    BY <1>3, <1>4 DEF Alone, LastSignals
  <2>2. \A p \in Procs : Receives(p)
    BY <1>3, Processes DEF Receives
  <2>3. OneEach
    BY <1>3, Processes DEF OneEach
  <2>4. ASSUME NEW c \in Clients  PROVE Turn(c)
    <3>1. /\ c \in Procs /\ Server \in Procs /\ c \in Peers(Server) /\ 0 \in Peers(c)
      BY Processes
    <3>2. pp_cnt[Server][c] = 0 /\ pp_cnt[c][0] = 0 /\ ~Posted(Server, c) /\ ~Posted(c, 0)
      BY <1>3, <1>4, <3>1
    <3>3. ~Waits(c) /\ ~Handles(c) /\ ~ServerWaits(c) /\ ~ServerHandles(c)
      BY <1>3, <3>1 DEF Waits, Handles, ServerWaits, ServerHandles
    <3> QED  BY <3>2, <3>3 DEF Turn
  <2> QED  BY <2>1, <2>2, <2>3, <2>4 DEF Balls
<1>6. Progress
  <2>1. \A c \in Clients : pp_cnt[Server][c] = 0
    BY <1>3, Processes
  <2> QED  BY <1>3, <2>1 DEF Progress, Setup, Loop, Ended
<1>7. ASSUME NEW p \in Procs  PROVE Completions(p)
  <2>1. Signaling(p) = {} /\ send_cq[p] = 0
    BY <1>3, <1>4 DEF Signaling
  <2>2. Cardinality(Full(p)) \in Nat
    BY PeersFinite DEF Full
  <2>3. Cardinality(Signaling(p)) = 0
    BY <2>1, FS_EmptySet
  <2> QED  BY <2>1, <2>2, <2>3 DEF Completions
<1>8. ASSUME NEW c \in Clients  PROVE Handshake(c)
  <2>1. "END" \notin Range(to_server[c]) /\ "END" \notin Range(to_client[c])
    BY <1>3 DEF Range
  <2> QED  BY <1>3, <2>1 DEF Handshake, Closing
<1> QED  BY <1>1, <1>2, <1>5, <1>6, <1>7, <1>8 DEF Inv, Types

\* A step that changes nothing, or only says that retries have run out.
LEMMA StutterInv ==
    ASSUME Inv, UNCHANGED <<use_event, num_tests, pc, cnt, wc, pp_cnt, to_server, to_client, sq,
                            rx, recv_cq, send_cq>>
    PROVE  Inv'
<1>1. /\ Types /\ Control /\ Data /\ Progress /\ \A c \in Clients : Handshake(c)
  BY DEF Inv, Types
<1>2. Still
  BY DEF Still
<1>3. Control'
  BY <1>1 DEF Control, Procs, Clients, Server
<1>4. Progress'
  <2>1. /\ \A c \in Clients : (Done(c)' <=> Done(c)) /\ Behind(c)' = Behind(c)
        /\ Handled' = Handled
    BY <1>2, StillBalls
  <2> QED  BY <1>1, <2>1 DEF Progress, Clients, Server
<1>5. \A c \in Clients : Handshake(c)'
  BY <1>1 DEF Handshake, Server
<1>6. send_cq' \in [Procs -> Nat]
  BY <1>1 DEF Data
<1>7. \A p \in Procs : pc'[p] \notin Ended => pc[p] \notin Ended /\ send_cq'[p] <= send_cq[p]
  BY <1>1 DEF Data
<1> QED  BY <1>2, <1>3, <1>4, <1>5, <1>6, <1>7, StillInv

\* Every step, action by action.
LEMMA NextInv == ASSUME Inv, Linked, [Next]_vars  PROVE Inv'
<1>1. ASSUME NEW p \in Procs, Run(p)  PROVE Inv'
  <2>1. CASE SendAddr(p)
    BY <2>1, SendAddrInv
  <2>2. CASE RecvAddr(p)
    BY <2>2, RecvAddrInv
  <2>3. CASE Connect(p)
    BY <2>3, ConnectInv
  <2>4. CASE First(p)
    BY <2>4, FirstInv
  <2>5. CASE GetEvent(p)
    BY <2>5, GetEventInv
  <2>6. CASE Poll(p)
    BY <2>6, PollInv
  <2>7. CASE PollNothing(p)
    BY <2>7, PollNothingInv
  <2>8. CASE Reply(p)
    <3>1. CASE p = Server
      BY <2>8, <3>1, ServerReplyInv
    <3>2. CASE p \in Clients
      BY <2>8, <3>2, ClientReplyInv
    <3> QED  BY <3>1, <3>2, Processes
  <2>9. CASE DrainSend(p)
    BY <2>9, DrainSendInv
  <2>10. CASE SendEnd(p)
    BY <2>10, SendEndInv
  <2>11. CASE RecvEnd(p)
    BY <2>11, RecvEndInv
  <2>12. CASE Close(p)
    BY <2>12, CloseInv
  <2> QED  BY <1>1, <2>1, <2>2, <2>3, <2>4, <2>5, <2>6, <2>7, <2>8, <2>9, <2>10, <2>11, <2>12
           DEF Run
<1>2. ASSUME NEW p \in Procs, Adapter(p)  PROVE Inv'
  <2>1. PICK q \in Peers(p) : Deliver(p, q) \/ SendDone(p, q)
    BY <1>2 DEF Adapter
  <2>2. CASE Deliver(p, q)
    BY <2>2, DeliverInv
  <2>3. CASE SendDone(p, q)
    BY <2>3, SendDoneInv
  <2> QED  BY <2>1, <2>2, <2>3
<1>3. ASSUME NEW p \in Procs, NEW q \in Peers(p), LoseAck(p, q)  PROVE Inv'
  BY <1>3, LoseAckInv
<1>4. ASSUME NEW p \in Procs, NEW q \in Peers(p), RetriesEnd(p, q)  PROVE Inv'
  BY <1>4, StutterInv DEF RetriesEnd, options, tcpVars
<1>5. CASE UNCHANGED vars
  BY <1>5, StutterInv DEF vars, options, tcpVars, adapterVars
<1> QED  BY <1>1, <1>2, <1>3, <1>4, <1>5 DEF Next, Terminating

\* In the first state nobody is connected and nothing is sent.
LEMMA InitLinked == ASSUME Init  PROVE Linked
<1>1. DOMAIN connected = Procs /\ DOMAIN broken = Procs
  BY DEF Init
<1>2. pc[Server] \in Setup /\ cnt[Server] = 0
  BY Processes DEF Init, Setup
<1>3. ASSUME NEW c \in Clients  PROVE sq[c][0] = <<>> /\ broken[c] = {} /\ ~(c < 0)
  <2>1. c \in Procs /\ 0 \in Peers(c) /\ c \in Nat
    BY Processes
  <2> QED  BY <2>1 DEF Init
<1> QED  BY <1>1, <1>2, <1>3 DEF Linked

\* A step that does not connect the server keeps what is connected; the server
\* does not go back to its setup, and a client posts only after that.
LEMMA LinkedStep ==
    ASSUME Linked, DOMAIN connected' = Procs, DOMAIN broken' = Procs,
           connected'[Server] = connected[Server],
           \A c \in Clients : broken'[c] = broken[c],
           \A c \in Clients : sq'[c][0] # <<>> => sq[c][0] # <<>> \/ pc[Server] \notin Setup,
           IF pc[Server] \in Setup THEN pc'[Server] \in Setup /\ cnt'[Server] = cnt[Server]
                                  ELSE pc'[Server] \notin Setup
    PROVE  Linked'
<1>1. Procs' = Procs /\ Clients' = Clients /\ Server' = Server /\ Setup' = Setup
  BY DEF Procs, Clients, Server, Setup
<1> QED  BY <1>1 DEF Linked

\* A client that answers has a message of the server, which has left its setup.
LEMMA Answering ==
    ASSUME Inv, NEW c \in Clients, pc[c] = "reply"
    PROVE  pc[Server] \notin Setup
<1>1. Turn(c) /\ Handles(c) /\ Progress
  BY DEF Inv, Balls, Handles
<1>2. pp_cnt[Server][c] = pp_cnt[c][0] + 1
  BY <1>1 DEF Turn
<1>3. pp_cnt[c][0] \in Nat
  <2>1. c \in Procs /\ 0 \in Peers(c)
    BY Processes
  <2>2. pp_cnt[c] \in [Peers(c) -> 0 .. num_tests]
    BY <2>1 DEF Inv, Types, Data
  <2> QED  BY <2>1, <2>2
<1> QED  BY <1>1, <1>2, <1>3 DEF Progress

\* Every step keeps it.
LEMMA NextLinked == ASSUME Inv, Linked, [Next]_vars  PROVE Linked'
<1>1. /\ Control /\ Server \in Procs /\ pc \in [Procs -> ServerLabels] /\ cnt \in [Procs -> Nat]
      /\ DOMAIN connected = Procs /\ DOMAIN broken = Procs /\ Clients \subseteq Procs
      /\ DOMAIN sq = Procs /\ \A p \in Procs : sq[p] \in [Peers(p) -> Seq(Msgs(p))]
      /\ pc[Server] \in Setup => cnt[Server] \in Clients
  BY Processes DEF Inv, Types, Control, Data, Linked, Setup, Loop
\* The steps that leave send queues and connections alone.
<1>2. ASSUME UNCHANGED <<connected, broken, sq>>,
             IF pc[Server] \in Setup THEN pc'[Server] \in Setup /\ cnt'[Server] = cnt[Server]
                                    ELSE pc'[Server] \notin Setup
      PROVE  Linked'
  BY <1>1, <1>2, LinkedStep
<1>3. ASSUME NEW p \in Procs, Run(p)  PROVE Linked'
  <2>1. CASE SendAddr(p) \/ RecvAddr(p)
    <3>1. UNCHANGED <<connected, broken, sq, cnt>>
      BY <2>1 DEF SendAddr, RecvAddr, adapterVars
    <3>2. /\ pc[p] \in Setup /\ \E l \in Setup : Goto(p, l)
      BY <2>1 DEF SendAddr, RecvAddr, At, Setup
    <3>3. IF pc[Server] \in Setup THEN pc'[Server] \in Setup ELSE pc'[Server] \notin Setup
      BY <1>1, <3>2 DEF Goto
    <3> QED  BY <1>2, <3>1, <3>3
  <2>2. CASE Connect(p)
    <3>1. UNCHANGED <<broken, sq>> /\ pc[p] = "connect"
          /\ connected' = [connected EXCEPT ![p] = connected[p] \cup {cnt[p]}]
      BY <2>2 DEF Connect, At, adapterVars
    <3>2. CASE p = Server
      <4>1. NextIndex(Server, "recv_addr", "first") /\ pc[Server] \in Setup /\ cnt[Server] \in Clients
        BY <1>1, <2>2, <3>1, <3>2 DEF Connect, Setup
      <4>2. \/ cnt'[Server] = cnt[Server] + 1 /\ pc'[Server] = "recv_addr"
            \/ cnt[Server] + 1 = NumClients /\ pc'[Server] = "first"
        BY <1>1, <4>1, IndexStep
      <4>3. /\ DOMAIN connected' = Procs
            /\ connected'[Server] = connected[Server] \cup {cnt[Server]}
        BY <1>1, <3>1, <3>2
      <4>4. ASSUME NEW c \in Clients, c <= cnt[Server]  PROVE c \in connected'[Server]
        <5>0. PICK n \in Nat : n = cnt[Server]
          BY <1>1
        <5>1. c < cnt[Server] \/ c = cnt[Server]
          BY <4>4, <5>0, Processes
        <5> QED  BY <4>1, <4>3, <5>1 DEF Linked
      <4>5. /\ \A c \in Clients : c < cnt[Server] + 1 => c <= cnt[Server]
            /\ cnt[Server] + 1 = NumClients => \A c \in Clients : c <= cnt[Server]
        BY <4>1, Processes DEF Clients
      <4>6. \A c \in Clients : sq'[c][0] = <<>>
        BY <3>1, <4>1 DEF Linked
      <4>7. Procs' = Procs /\ Clients' = Clients /\ Server' = Server /\ Setup' = Setup
        BY DEF Procs, Clients, Server, Setup
      <4>8. "recv_addr" \in Setup /\ "first" \notin Setup
        BY DEF Setup
      <4>9. \A c \in Clients : broken'[c] = {}
        BY <3>1 DEF Linked
      <4> QED  BY <1>1, <3>1, <4>2, <4>3, <4>4, <4>5, <4>6, <4>7, <4>8, <4>9 DEF Linked
    <3>3. CASE p # Server
      <4>1. connected'[Server] = connected[Server] /\ DOMAIN connected' = Procs
        BY <1>1, <3>1, <3>3
      <4>2. pc'[Server] = pc[Server] /\ cnt' = cnt
        BY <1>1, <2>2, <3>3 DEF Connect, Goto
      <4> QED  BY <1>1, <3>1, <4>1, <4>2, LinkedStep
    <3> QED  BY <3>2, <3>3
  <2>3. CASE First(p) \/ Reply(p)
    <3>1. /\ UNCHANGED <<connected, broken>> /\ pc[p] \in {"first", "reply"}
      BY <2>3 DEF First, Reply, At
    <3>2. p # Server => pc'[Server] = pc[Server] /\ cnt'[Server] = cnt[Server]
      BY <1>1, <2>3, Processes DEF First, Reply, Goto, NextIndex
    <3>3. p = Server => pc[Server] \notin Setup /\ pc'[Server] \notin Setup
      <4>1. p = Server => pc[Server] \notin Setup
        BY <3>1 DEF Setup
      <4>2. First(p) \/ Reply(p) => \E l \in {"first", "event", "poll", "drain"} : Goto(p, l)
        BY LoopTops DEF First, Reply, NextIndex, AfterReply
      <4>3. p = Server => pc'[Server] \notin Setup
        BY <1>1, <2>3, <4>2 DEF Goto, Setup
      <4> QED  BY <4>1, <4>3
    <3>4. p \in Clients => pc[Server] \notin Setup
      <4>1. p \in Clients => pc[p] # "first"
        BY <1>1 DEF Control, ClientLabels, Setup, Loop, Ended
      <4> QED  BY <3>1, <4>1, Answering
    <3>5. pc[Server] \notin Setup /\ pc'[Server] \notin Setup
      BY <3>2, <3>3, <3>4, Processes
    <3> QED  BY <1>1, <3>1, <3>5, LinkedStep
  <2>4. CASE GetEvent(p) \/ Poll(p) \/ PollNothing(p) \/ DrainSend(p) \/ SendEnd(p) \/ RecvEnd(p)
             \/ Close(p)
    <3>1. UNCHANGED <<connected, broken, sq>>
      BY <2>4 DEF GetEvent, Poll, PollNothing, DrainSend, SendEnd, RecvEnd, Close, adapterVars
    <3>2. pc[p] \notin Setup
      BY <2>4 DEF GetEvent, Poll, PollNothing, DrainSend, SendEnd, RecvEnd, Close, At, Setup
    <3>3. p = Server => pc'[Server] \notin Setup
      BY <1>1, <2>4, LoopTops DEF GetEvent, Poll, PollNothing, DrainSend, SendEnd, RecvEnd, Close,
                                  Goto, NextIndex, Setup
    <3>4. p # Server => pc'[Server] = pc[Server] /\ cnt'[Server] = cnt[Server]
      BY <1>1, <2>4 DEF GetEvent, Poll, PollNothing, DrainSend, SendEnd, RecvEnd, Close, Goto,
                        NextIndex
    <3> QED  BY <1>2, <3>1, <3>2, <3>3, <3>4
  <2> QED  BY <1>3, <2>1, <2>2, <2>3, <2>4 DEF Run
\* No adapter makes an empty send queue longer.
<1>4. ASSUME NEW p \in Procs, NEW q \in Peers(p), Deliver(p, q) \/ SendDone(p, q) \/ LoseAck(p, q)
      PROVE  Linked'
  <2>1. UNCHANGED <<connected, broken, pc, cnt>>
    BY <1>4 DEF Deliver, SendDone, LoseAck
  <2>2. sq[p][q] # <<>>
    <3>1. Deliver(p, q) => \E k : k \in DOMAIN sq[p][q]
      BY DEF Deliver
    <3>2. sq[p][q] \in Seq(Msgs(p))
      BY <1>1
    <3>3. SendDone(p, q) \/ LoseAck(p, q) => sq[p][q] # <<>>
      BY DEF SendDone, LoseAck
    <3> QED  BY <1>4, <3>1, <3>2, <3>3
  <2>3. \A c \in Clients : sq'[c][0] # <<>> => sq[c][0] # <<>>
    <3>1. \E t : sq' = [sq EXCEPT ![p][q] = t]
      BY <1>4 DEF Deliver, SendDone, LoseAck
    <3>2. ASSUME NEW c \in Clients, ~(c = p /\ q = 0)  PROVE sq'[c][0] = sq[c][0]
      <4>1. c \in Procs /\ 0 \in Peers(c) /\ sq[c] \in [Peers(c) -> Seq(Msgs(c))]
        BY <1>1, Processes
      <4> QED  BY <1>1, <3>1, <3>2, <4>1
    <3> QED  BY <2>2, <3>2
  <2> QED  BY <1>1, <2>1, <2>3, LinkedStep
\* A client whose send queue is not empty has an answer.
<1>5. ASSUME NEW p \in Procs, NEW q \in Peers(p), RetriesEnd(p, q)  PROVE Linked'
  <2>1. /\ UNCHANGED <<connected, sq, pc, cnt>> /\ sq[p][q] # <<>>
        /\ On(Target(p, q)) /\ ~Answers(p, q)
        /\ broken' = [broken EXCEPT ![p] = broken[p] \cup {q}]
    BY <1>5 DEF RetriesEnd
  <2>2. p = Server
    <3> SUFFICES ASSUME p \in Clients  PROVE FALSE
      BY Processes
    <3>1. q = 0 /\ p # Server
      BY Processes
    <3>2. Target(p, q) = Server
      BY <3>1 DEF Target
    <3>3. p \in connected[Server]
      BY <2>1, <3>1 DEF Linked
    <3> QED  BY <2>1, <3>2, <3>3 DEF Answers
  <2>3. DOMAIN broken' = Procs /\ \A c \in Clients : broken'[c] = broken[c]
    BY <1>1, <2>1, <2>2, Processes
  <2> QED  BY <1>1, <2>1, <2>3, LinkedStep
<1>6. CASE UNCHANGED vars
  <2>1. UNCHANGED <<connected, broken, sq, pc, cnt>>
    BY <1>6 DEF vars, adapterVars
  <2> QED  BY <1>2, <2>1
<1> QED  BY <1>3, <1>4, <1>5, <1>6 DEF Next, Terminating, Adapter

\* The invariant holds for every number of clients, of messages and of lost
\* acknowledgements.
THEOREM XsrqInvariant == Spec => [](Inv /\ Linked)
<1>1. Init => Inv /\ Linked
  BY InitInv, InitLinked
<1>2. Inv /\ Linked /\ [Next]_vars => (Inv /\ Linked)'
  BY NextInv, NextLinked
<1> QED  BY <1>1, <1>2, PTL DEF Spec

-----------------------------------------------------------------------------
\* pp_client_termination and pp_server_termination: no message that its
\* receiver waits for passes through the queue pair, or goes to the receive
\* queue, of a process that has closed its resources, although the server
\* sends through the queue pairs of all clients to each of them.
THEOREM NobodyLeaves == Spec => []NobodyLeftEarly
<1>1. Inv => NobodyLeftEarly
  <2> SUFFICES ASSUME Inv, NEW p \in Procs, NEW q \in Peers(p), NEW k \in DOMAIN sq[p][q],
                      sq[p][q][k].st = "posted"
               PROVE  On(Target(p, q)) /\ On(Dest(p, sq[p][q][k]))
    BY DEF NobodyLeftEarly
  <2>1. sq[p][q][k].dst \in Peers(p)
    <3>1. sq[p][q] \in Seq(Msgs(p))
      BY DEF Inv, Types, Data
    <3>2. sq[p][q][k] \in Msgs(p)
      BY <3>1
    <3> QED  BY <3>2 DEF Msgs
  <2>2. Posted(p, sq[p][q][k].dst)
    BY DEF Posted
  <2>3. \A r \in Procs : On(r)
    BY <2>1, <2>2, NoneUnderWay
  <2>4. Target(p, q) \in Procs /\ Dest(p, sq[p][q][k]) \in Procs
    BY <2>1, Processes DEF Target, Dest
  <2> QED  BY <2>3, <2>4
<1> QED  BY <1>1, XsrqInvariant, PTL

\* What is under way to a process, by its sender and its queue pair.
LEMMA WayTo ==
    ASSUME Inv, NEW d \in Procs, NEW x \in UnderWay(d)
    PROVE  /\ x[1] \in Procs /\ x[2] \in Peers(x[1]) /\ x[3] \in DOMAIN sq[x[1]][x[2]]
           /\ x = <<x[1], x[2], x[3]>>
           /\ sq[x[1]][x[2]][x[3]].st = "posted" /\ sq[x[1]][x[2]][x[3]].dst \in Peers(x[1])
           /\ d = Server => x[1] \in Clients /\ x[2] = 0 /\ Posted(x[1], 0)
           /\ d \in Clients => /\ x[1] = Server /\ sq[x[1]][x[2]][x[3]].dst = d
                               /\ Posted(Server, d)
<1>1. /\ x \in Procs \X Clients \X (1 .. NumClients * num_tests)
      /\ x[2] \in Peers(x[1]) /\ x[3] \in DOMAIN sq[x[1]][x[2]]
      /\ Dest(x[1], sq[x[1]][x[2]][x[3]]) = d /\ sq[x[1]][x[2]][x[3]].st = "posted"
  BY DEF UnderWay
<1>2. x[1] \in Procs /\ x = <<x[1], x[2], x[3]>>
  BY <1>1
<1> DEFINE p == x[1]
           q == x[2]
           k == x[3]
<1>3. p \in Procs /\ q \in Peers(p) /\ k \in DOMAIN sq[p][q]
  BY <1>1, <1>2
<1>4. Dest(p, sq[p][q][k]) = d /\ sq[p][q][k].st = "posted"
  BY <1>1
<1> HIDE DEF p, q, k
<1>5. sq[p][q][k].dst \in Peers(p)
  <2>1. sq[p][q] \in Seq(Msgs(p))
    BY <1>3 DEF Inv, Types, Data
  <2>2. sq[p][q][k] \in Msgs(p)
    BY <1>3, <2>1
  <2> QED  BY <2>2 DEF Msgs
<1>6. Posted(p, sq[p][q][k].dst)
  BY <1>3, <1>4 DEF Posted
<1>7. d = Server => p \in Clients /\ q = 0 /\ Posted(p, 0)
  <2>1. d = Server => p # Server
    BY <1>4, <1>5, Processes DEF Dest
  <2>2. p \in Clients => q = 0 /\ sq[p][q][k].dst = 0
    BY <1>3, <1>5, Processes
  <2> QED  BY <1>3, <1>6, <2>1, <2>2, Processes
<1>8. d \in Clients => p = Server /\ sq[p][q][k].dst = d /\ Posted(Server, d)
  <2>1. d \in Clients => p = Server /\ sq[p][q][k].dst = d
    BY <1>4, Processes DEF Dest
  <2> QED  BY <1>6, <2>1
<1> QED  BY <1>2, <1>3, <1>4, <1>5, <1>7, <1>8 DEF p, q, k

\* The server's shared receive queue: one message under way and one completion
\* at most for each client, never both.
LEMMA ServerHasReceives ==
    ASSUME Inv
    PROVE  Cardinality(UnderWay(Server)) <= rx[Server]
<1> DEFINE P == {c \in Clients : Posted(c, 0)}
           W == {c \in Clients : ServerWaits(c)}
           S == recv_cq[Server]
<1>1. /\ Types /\ Balls /\ Server \in Procs /\ Peers(Server) = Clients
      /\ Num(Server) = NumClients /\ Clients \subseteq Procs
  BY Processes DEF Inv
<1>2. /\ IsFiniteSet(Clients) /\ Cardinality(Clients) = NumClients
      /\ IsFiniteSet(P) /\ IsFiniteSet(W) /\ IsFiniteSet(P \cup W)
      /\ Cardinality(P) \in Nat /\ Cardinality(W) \in Nat
      /\ Cardinality(P \cup W) <= NumClients
  <2>1. P \in SUBSET Clients /\ W \in SUBSET Clients /\ P \cup W \in SUBSET Clients
    OBVIOUS
  <2> HIDE DEF P, W
  <2> QED  BY <1>1, <2>1, PeersFinite
<1>3. P \cap W = {}
  BY <1>1 DEF Balls, Turn
<1>4. Cardinality(P) + Cardinality(W) <= NumClients
  <2> HIDE DEF P, W
  <2>1. Cardinality(P \cup W) = Cardinality(P) + Cardinality(W) - Cardinality(P \cap W)
    BY <1>2, FS_Union
  <2>2. Cardinality(P \cap W) = 0
    BY <1>3, FS_EmptySet
  <2> QED  BY <1>2, <2>1, <2>2
<1>5. S \in Seq(Clients) /\ Len(S) \in Nat /\ DOMAIN S = 1 .. Len(S)
  BY <1>1 DEF Types, Data
<1>6. Len(S) <= Cardinality(W)
  <2>1. \A k \in 1 .. Len(S) : S[k] \in W
    BY <1>5 DEF ServerWaits
  <2>2. \A k, l \in 1 .. Len(S) : S[k] = S[l] => k = l
    BY <1>1, <1>5 DEF Balls, OneEach
  <2>3. IsFiniteSet(1 .. Len(S)) /\ Cardinality(1 .. Len(S)) = Len(S)
    BY <1>5, FS_Interval
  <2> HIDE DEF W, S
  <2> DEFINE f == [k \in 1 .. Len(S) |-> S[k]]
  <2>4. f \in Injection(1 .. Len(S), W)
    BY <2>1, <2>2 DEF Injection, IsInjective
  <2> HIDE DEF f
  <2>5. Cardinality(1 .. Len(S)) <= Cardinality(W)
    BY <1>2, <2>4, FS_Injection
  <2> QED  BY <2>3, <2>5
<1>7. IsFiniteSet(UnderWay(Server)) /\ Cardinality(UnderWay(Server)) <= Cardinality(P)
  <2>1. \A x \in UnderWay(Server) : x[1] \in P
    BY <1>1, WayTo
  <2>2. ASSUME NEW x \in UnderWay(Server), NEW y \in UnderWay(Server), x[1] = y[1]
        PROVE  x = y
    <3>1. /\ x = <<x[1], 0, x[3]>> /\ y = <<x[1], 0, y[3]>> /\ x[1] \in Procs
          /\ x[1] \in Clients /\ 0 \in Peers(x[1])
          /\ x[3] \in DOMAIN sq[x[1]][0] /\ y[3] \in DOMAIN sq[x[1]][0]
          /\ sq[x[1]][0][x[3]].st = "posted" /\ sq[x[1]][0][y[3]].st = "posted"
          /\ sq[x[1]][0][x[3]].dst \in Peers(x[1]) /\ sq[x[1]][0][y[3]].dst \in Peers(x[1])
      BY <1>1, <2>2, WayTo
    <3>2. sq[x[1]][0][x[3]].dst = sq[x[1]][0][y[3]].dst
      BY <3>1, Processes
    <3>3. Alone(x[1])
      BY <1>1, <3>1 DEF Balls
    <3> DEFINE p == x[1]
               k == x[3]
               l == y[3]
    <3>4. /\ 0 \in Peers(p) /\ k \in DOMAIN sq[p][0] /\ l \in DOMAIN sq[p][0]
          /\ sq[p][0][k].st = "posted" /\ sq[p][0][l].st = "posted"
          /\ sq[p][0][k].dst = sq[p][0][l].dst /\ Alone(p)
      BY <3>1, <3>2, <3>3
    <3> HIDE DEF p, k, l
    <3>5. k = l
      BY <3>4 DEF Alone
    <3> QED  BY <3>1, <3>5 DEF k, l
  <2> DEFINE U == UnderWay(Server)
             f == [x \in U |-> x[1]]
  <2> HIDE DEF U, P
  <2>3. f \in Injection(U, P)
    BY <2>1, <2>2 DEF U, Injection, IsInjective
  <2> HIDE DEF f
  <2>4. IsFiniteSet(U) /\ Cardinality(U) <= Cardinality(P)
    BY <1>2, <2>3, FS_Injection
  <2> QED  BY <2>4 DEF U
<1>8. rx[Server] \in Nat /\ rx[Server] + Len(S) = NumClients
  BY <1>1 DEF Balls, Receives, Types, Data
<1>9. Cardinality(UnderWay(Server)) \in Nat
  BY <1>7, FS_CardinalityType
<1> DEFINE u == Cardinality(UnderWay(Server))
           a == Cardinality(P)
           b == Cardinality(W)
           n == Len(S)
<1>10. /\ u \in Nat /\ a \in Nat /\ b \in Nat /\ n \in Nat /\ NumClients \in Nat
       /\ u <= a /\ a + b <= NumClients /\ n <= b /\ rx[Server] \in Nat
       /\ rx[Server] + n = NumClients
  BY <1>2, <1>4, <1>5, <1>6, <1>7, <1>8, <1>9, Processes
<1> HIDE DEF u, a, b, n
<1>11. u <= rx[Server]
  BY <1>10
<1> QED  BY <1>11 DEF u

\* The shared receive queue of a client: one message is under way to it, in
\* whichever queue pair, and then no completion waits.
LEMMA ClientHasReceives ==
    ASSUME Inv, NEW c \in Clients
    PROVE  Cardinality(UnderWay(c)) <= rx[c]
<1>1. /\ Types /\ Balls /\ c \in Procs /\ Server \in Procs /\ Num(c) = 1
      /\ rx[c] \in Nat /\ Receives(c) /\ recv_cq[c] \in Seq(Clients)
  BY Processes DEF Inv, Types, Data, Balls
<1>2. CASE UnderWay(c) = {}
  <2>1. Cardinality(UnderWay(c)) = 0
    BY <1>2, FS_EmptySet
  <2> QED  BY <1>1, <2>1
<1>3. CASE UnderWay(c) # {}
  <2>1. PICK x : x \in UnderWay(c)
    BY <1>3
  <2>2. UnderWay(c) = {x}
    <3> SUFFICES ASSUME NEW y \in UnderWay(c)  PROVE y = x
      BY <2>1
    <3>1. /\ x = <<Server, x[2], x[3]>> /\ y = <<Server, y[2], y[3]>>
          /\ x[2] \in Peers(Server) /\ y[2] \in Peers(Server)
          /\ x[3] \in DOMAIN sq[Server][x[2]] /\ y[3] \in DOMAIN sq[Server][y[2]]
          /\ sq[Server][x[2]][x[3]].st = "posted" /\ sq[Server][y[2]][y[3]].st = "posted"
          /\ sq[Server][x[2]][x[3]].dst = c /\ sq[Server][y[2]][y[3]].dst = c
      BY <1>1, <2>1, WayTo
    <3>2. Alone(Server)
      BY <1>1 DEF Balls
    <3>3. x[2] = y[2] /\ x[3] = y[3]
      BY <3>1, <3>2 DEF Alone
    <3> QED  BY <3>1, <3>3
  <2>3. Cardinality(UnderWay(c)) = 1
    BY <2>2, FS_Singleton
  <2>4. Posted(Server, c)
    BY <1>1, <2>1, WayTo
  <2>5. recv_cq[c] = <<>>
    BY <1>1, <2>4 DEF Balls, Turn, Waits
  <2>6. rx[c] = 1
    BY <1>1, <2>5 DEF Receives
  <2> QED  BY <2>3, <2>6
<1> QED  BY <1>2, <1>3

\* pp_init_ctx: num_clients receives, and completion queues of num_clients
\* entries, are enough although nobody counts: a message under way finds a
\* receive, and no completion queue that is still read overflows.
THEOREM QueuesAreEnough == Spec => []QueuesSuffice
<1>1. Inv => QueuesSuffice
  <2> SUFFICES ASSUME Inv, NEW p \in Procs
               PROVE  /\ Cardinality(UnderWay(p)) <= rx[p]
                      /\ rx[p] <= Num(p) /\ Len(recv_cq[p]) <= Num(p)
                      /\ pc[p] \notin Ended => send_cq[p] <= Num(p)
    BY DEF QueuesSuffice
  <2>1. Cardinality(UnderWay(p)) <= rx[p]
    BY ServerHasReceives, ClientHasReceives, Processes
  <2>2. rx[p] <= Num(p) /\ Len(recv_cq[p]) <= Num(p)
    <3>1. /\ rx[p] \in Nat /\ recv_cq[p] \in Seq(Clients) /\ Num(p) \in Nat
          /\ rx[p] + Len(recv_cq[p]) = Num(p)
      BY Processes DEF Inv, Types, Data, Balls, Receives
    <3>2. Len(recv_cq[p]) \in Nat
      BY <3>1
    <3> QED  BY <3>1, <3>2
  <2>3. ASSUME pc[p] \notin Ended  PROVE send_cq[p] <= Num(p)
    <3>1. send_cq[p] + Cardinality(Signaling(p)) <= Cardinality(Full(p))
      BY <2>3 DEF Inv, Completions
    <3>2. send_cq[p] \in Nat /\ Num(p) \in Nat
      BY Processes DEF Inv, Types, Data
    <3>3. Signaling(p) \in SUBSET Peers(p) /\ Full(p) \in SUBSET Peers(p)
      BY DEF Signaling, Full
    <3>4. /\ Cardinality(Signaling(p)) \in Nat
          /\ Cardinality(Full(p)) \in Nat /\ Cardinality(Full(p)) <= Num(p)
      BY <3>3, PeersFinite
    <3> QED  BY <3>1, <3>2, <3>4
  <2> QED  BY <2>1, <2>2, <2>3
<1> QED  BY <1>1, XsrqInvariant, PTL
=============================================================================
