----------------------------- MODULE RdvProofs -----------------------------
(***************************************************************************)
(* What a step of a rendezvous program and of its adapter does, and which  *)
(* invariants it keeps, for every memory size, message size and number of  *)
(* iterations.  BenchmarksProofs makes theorems of these lemmas.           *)
(***************************************************************************)
EXTENDS Rendezvous, TLAPS

\* f is a function of the ranks, whatever its values.
IsFun(f) == f = [q \in Ranks |-> f[q]]

\* A sequence, of whatever it holds.
IsSeq(s) == s \in Seq({s[k] : k \in DOMAIN s})

\* A call of the lambda.
Calls == [size : Nat \ {0}, timed : BOOLEAN, i : Nat, n : Nat \ {0}]

\* A work request, whatever its fields hold.
IsRequest(w) ==
    w = [op |-> w.op, buf |-> w.buf, len |-> w.len, raddr |-> w.raddr, imm |-> w.imm,
         wr_id |-> w.wr_id, inline |-> w.inline, st |-> w.st, data |-> w.data,
         left |-> w.left]

\* The two ranks go through the same calls.
SameCalls ==
    \A r \in Ranks :
        /\ call[r].n = call[Peer(r)].n => call[r] = call[Peer(r)]
        /\ call[r].n = call[Peer(r)].n + 1 => call[r] = NextCall(call[Peer(r)])

\* The peer of a rank is the other rank.
LEMMA PeerFacts == \A r \in Ranks : Peer(r) \in Ranks /\ Peer(r) # r /\ Peer(Peer(r)) = r
  BY DEF Ranks, Peer

\* The driver goes to a call of at least the same size.
LEMMA NextCallGrows ==
    ASSUME BenchAssumption, NEW c \in Calls
    PROVE  /\ NextCall(c) \in Calls
           /\ NextCall(c).n = c.n + 1
           /\ NextCall(c).size >= c.size
<1>1. PICK s \in Nat \ {0}, t \in BOOLEAN, i \in Nat, n \in Nat \ {0} :
          c = [size |-> s, timed |-> t, i |-> i, n |-> n]
  BY DEF Calls
<1>2. \/ NextCall(c) = [size |-> s, timed |-> t, i |-> i + 1, n |-> n + 1]
      \/ NextCall(c) = [size |-> 2 * s, timed |-> FALSE, i |-> 0, n |-> n + 1]
      \/ NextCall(c) = [size |-> s, timed |-> TRUE, i |-> 0, n |-> n + 1]
  BY <1>1 DEF NextCall
<1>3. i + 1 \in Nat /\ n + 1 \in Nat \ {0} /\ 2 * s \in Nat \ {0} /\ 2 * s >= s /\ s >= s
      /\ 0 \in Nat
  OBVIOUS
<1>4. \A s1, n1 \in Nat \ {0}, i1 \in Nat, t1 \in BOOLEAN :
          [size |-> s1, timed |-> t1, i |-> i1, n |-> n1] \in Calls
  BY Zenon DEF Calls
<1>5. NextCall(c) \in Calls
  <2>1. /\ [size |-> s, timed |-> t, i |-> i + 1, n |-> n + 1] \in Calls
        /\ [size |-> 2 * s, timed |-> FALSE, i |-> 0, n |-> n + 1] \in Calls
        /\ [size |-> s, timed |-> TRUE, i |-> 0, n |-> n + 1] \in Calls
    <3>1. TRUE \in BOOLEAN /\ FALSE \in BOOLEAN
      OBVIOUS
    <3> QED  BY <1>3, <1>4, <3>1, Zenon
  <2> QED  BY <1>2, <2>1, Zenon
<1> QED  BY <1>1, <1>2, <1>3, <1>5

\* Rank r goes to label x in the same call, or to its next call.
Advance(r, x) == pc' = [pc EXCEPT ![r] = x] /\ UNCHANGED call

\* The call ends: run goes on to the next call, or it is over.
EndCall(r, x) ==
    /\ pc' = [pc EXCEPT ![r] = IF Finished(NextCall(call[r])) THEN "close" ELSE x]
    /\ call' = [call EXCEPT ![r] = NextCall(call[r])]

\* m is a memory of n cells.
HasDomain(m, n) == m = [a \in 0 .. n - 1 |-> m[a]]

\* The same of what is stored outside the cells that are written.
LEMMA StoreKeeps ==
    ASSUME NEW m, NEW n \in Nat, HasDomain(m, n), NEW buf, NEW data
    PROVE  /\ HasDomain(Store(m, buf, data), n)
           /\ \A a \in 0 .. n - 1 : a \notin buf .. buf + Len(data) - 1 =>
                  Store(m, buf, data)[a] = m[a]
<1>1. DOMAIN m = 0 .. n - 1
  BY DEF HasDomain
<1> QED  BY <1>1, Zenon DEF Store, HasDomain

\* write_buffer writes as many cells as it is told to.
LEMMA FillLen == ASSUME NEW r, NEW len \in Nat  PROVE Len(Fill(r, len)) = len
  BY DEF Fill

\* The request w with the cells l still to arrive, in state s.
Placed(w, l, s) == [w EXCEPT !.left = l, !.st = s]

----------------------------------------------------------------------------
\* What the adapters do, for a rank with one request outstanding.

\* The same request in another state.
InState(w, s) == [w EXCEPT !.st = s]

\* A request in another state is the same request otherwise.
LEMMA RequestInState ==
    ASSUME NEW w, IsRequest(w), NEW s
    PROVE  /\ IsRequest(InState(w, s))
           /\ InState(w, s).st = s /\ InState(w, s).op = w.op /\ InState(w, s).buf = w.buf
           /\ InState(w, s).len = w.len /\ InState(w, s).raddr = w.raddr
           /\ InState(w, s).imm = w.imm /\ InState(w, s).wr_id = w.wr_id
           /\ InState(w, s).inline = w.inline /\ InState(w, s).data = w.data
           /\ InState(w, s).left = w.left
<1>0. PICK x : x = InState(w, s)
  OBVIOUS
<1>1. x = [op |-> w.op, buf |-> w.buf, len |-> w.len, raddr |-> w.raddr, imm |-> w.imm,
           wr_id |-> w.wr_id, inline |-> w.inline, st |-> s, data |-> w.data,
           left |-> w.left]
  BY <1>0 DEF IsRequest, InState
<1>2. /\ x.st = s /\ x.op = w.op /\ x.raddr = w.raddr /\ x.len = w.len /\ x.left = w.left
      /\ x.buf = w.buf /\ x.imm = w.imm /\ x.wr_id = w.wr_id /\ x.inline = w.inline
      /\ x.data = w.data
  BY <1>1
<1>3. IsRequest(x)
  BY <1>1, <1>2 DEF IsRequest
<1> QED  BY <1>0, <1>2, <1>3

\* A read that has been answered.
Answered(w, d) == [w EXCEPT !.data = d, !.st = "acked"]

\* What the adapters can do with the only request w of rank r.
DoDeliver(r, w) ==
    LET d == Peer(r)
        q == Head(srq[d])
    IN /\ w.st = "posted" /\ w.op \in {"SEND", "SEND_IMM", "WRITE_IMM"}
       /\ d \in up /\ ~ Refused(r, w) /\ srq[d] # <<>>
       /\ mem'[d] = Store(mem[d], IF w.op = "WRITE_IMM" THEN w.raddr ELSE q.buf, Payload(r, w))
       /\ srq'[d] = Tail(srq[d])
       /\ recv_cq'[d] = Append(recv_cq[d],
              [status |-> "SUCCESS",
               opcode |-> IF w.op = "WRITE_IMM" THEN "RECV_RDMA_WITH_IMM" ELSE "RECV",
               imm |-> w.imm, wr_id |-> q.wr_id])
       /\ mem'[r] = mem[r] /\ send_cq'[r] = <<>> /\ sq'[r] = <<InState(w, "acked")>>

\* The adapter writes one cell of a write, the next one in its order.
DoPlace(r, w) ==
    LET d == Peer(r)
        k == IF order = "ascending" THEN Min(w.left) ELSE Max(w.left)
    IN /\ w.st = "posted" /\ w.op = "WRITE" /\ d \in up /\ ~ Refused(r, w)
       /\ mem'[d] = Store(mem[d], w.raddr + k - 1, <<Payload(r, w)[k]>>)
       /\ sq'[r] = <<Placed(w, w.left \ {k}, IF w.left = {k} THEN "acked" ELSE "posted")>>
       /\ mem'[r] = mem[r] /\ send_cq'[r] = <<>>
       /\ srq'[d] = srq[d] /\ recv_cq'[d] = recv_cq[d]

\* The peer answers a read with what its memory holds.
DoRespond(r, w) ==
    LET d == Peer(r)
    IN /\ w.st = "posted" /\ w.op = "READ" /\ d \in up /\ ~ Refused(r, w)
       /\ sq'[r] = <<Answered(w, Load(mem[d], w.raddr, w.len))>>
       /\ mem'[r] = mem[r] /\ mem'[d] = mem[d] /\ send_cq'[r] = <<>>
       /\ srq'[d] = srq[d] /\ recv_cq'[d] = recv_cq[d]

\* An acknowledgement is lost, or the request is sent again.
DoChange(r, w) ==
    LET d == Peer(r)
    IN /\ \/ w.st = "acked" /\ sq'[r] = <<InState(w, "unacked")>>
          \/ /\ w.st = "unacked" /\ d \in up
             /\ sq'[r] = <<InState(w, IF w.op = "READ" THEN "posted" ELSE "acked")>>
       /\ mem'[r] = mem[r] /\ mem'[d] = mem[d] /\ send_cq'[r] = <<>>
       /\ srq'[d] = srq[d] /\ recv_cq'[d] = recv_cq[d]

\* The request ends, and its completion tells how.
DoFinish(r, w) ==
    LET d == Peer(r)
        c(status) == [status |-> status, opcode |-> SendOpcode(w.op), wr_id |-> w.wr_id]
    IN /\ \/ /\ w.st = "acked" /\ send_cq'[r] = <<c("SUCCESS")>>
             /\ mem'[r] = IF w.op = "READ" THEN Store(mem[r], w.buf, w.data) ELSE mem[r]
          \/ /\ \/ w.st = "posted" /\ (Refused(r, w) \/ d \notin up)
                \/ w.st = "unacked" /\ d \notin up
             /\ send_cq'[r] = <<c("ERROR")>> /\ mem'[r] = mem[r]
       /\ sq'[r] = <<>> /\ mem'[d] = mem[d]
       /\ srq'[d] = srq[d] /\ recv_cq'[d] = recv_cq[d]

\* The memory and the queues are functions of the ranks.
AreFuns == IsFun(mem) /\ IsFun(sq) /\ IsFun(srq) /\ IsFun(send_cq) /\ IsFun(recv_cq)

\* A step of the adapters for rank r, one request outstanding.
LEMMA AdapterDoes ==
    ASSUME NEW r \in Ranks, AreFuns, NEW w, sq[r] = <<w>>, send_cq[r] = <<>>,
           Adapter(r) \/ LoseAck(r)
    PROVE  /\ AreFuns' /\ order' = order /\ up' = up
           /\ sq'[Peer(r)] = sq[Peer(r)] /\ send_cq'[Peer(r)] = send_cq[Peer(r)]
           /\ srq'[r] = srq[r] /\ recv_cq'[r] = recv_cq[r]
           /\ \/ DoDeliver(r, w) \/ DoPlace(r, w) \/ DoRespond(r, w)
              \/ DoChange(r, w) \/ DoFinish(r, w)
<1> DEFINE d == Peer(r)
<1>q. d \in Ranks /\ d # r /\ Peer(d) = r
  BY PeerFacts
<1>h. Head(sq[r]) = w /\ Tail(sq[r]) = <<>> /\ \A x : <<x>> \o <<>> = <<x>>
  OBVIOUS
<1>f. ASSUME NEW f, NEW g, IsFun(f), NEW x, NEW p \in Ranks, g = [f EXCEPT ![p] = x]
      PROVE  IsFun(g) /\ g[p] = x /\ \A o \in Ranks \ {p} : g[o] = f[o]
  BY <1>f DEF IsFun
<1>s. ASSUME NEW x, SetHead(r, x)
      PROVE  IsFun(sq') /\ sq'[r] = <<x>> /\ sq'[d] = sq[d]
  <2>1. sq' = [sq EXCEPT ![r] = <<x>>]
    BY <1>s, <1>h DEF SetHead
  <2> QED  BY <2>1, <1>q DEF AreFuns, IsFun
<1>t. ASSUME NEW status, Finish(r, status)
      PROVE  /\ IsFun(sq') /\ sq'[r] = <<>> /\ sq'[d] = sq[d]
             /\ IsFun(send_cq') /\ send_cq'[d] = send_cq[d]
             /\ send_cq'[r] = <<[status |-> status, opcode |-> SendOpcode(w.op),
                                 wr_id |-> w.wr_id]>>
  <2> DEFINE c == [status |-> status, opcode |-> SendOpcode(w.op), wr_id |-> w.wr_id]
  <2>1. sq' = [sq EXCEPT ![r] = <<>>] /\ send_cq' = [send_cq EXCEPT ![r] = Append(@, c)]
    BY <1>t, <1>h DEF Finish
  <2> HIDE DEF c
  <2>2. Append(<<>>, c) = <<c>>
    OBVIOUS
  <2>3. send_cq' = [send_cq EXCEPT ![r] = <<c>>]
    BY <2>1, <2>2
  <2>4. IsFun(send_cq') /\ send_cq'[d] = send_cq[d] /\ send_cq'[r] = <<c>>
    BY <2>3, <1>q DEF AreFuns, IsFun
  <2> QED  BY <2>1, <2>4, <1>q DEF AreFuns, IsFun, c
<1>1. CASE Deliver(r)
  <2> DEFINE q == Head(srq[d])
             c == [status |-> "SUCCESS",
                   opcode |-> IF w.op = "WRITE_IMM" THEN "RECV_RDMA_WITH_IMM" ELSE "RECV",
                   imm |-> w.imm, wr_id |-> q.wr_id]
             b == IF w.op = "WRITE_IMM" THEN w.raddr ELSE q.buf
  <2>1. /\ w.st = "posted" /\ w.op \in {"SEND", "SEND_IMM", "WRITE_IMM"}
        /\ d \in up /\ ~ Refused(r, w) /\ srq[d] # <<>>
        /\ mem' = [mem EXCEPT ![d] = Store(mem[d], b, Payload(r, w))]
        /\ srq' = [srq EXCEPT ![d] = Tail(srq[d])]
        /\ recv_cq' = [recv_cq EXCEPT ![d] = Append(recv_cq[d], c)]
        /\ SetHead(r, [w EXCEPT !.st = "acked"])
        /\ UNCHANGED <<send_cq, order, up>>
    BY <1>1, <1>h DEF Deliver, Ready, HeadIs
  <2>2. IsFun(sq') /\ sq'[r] = <<InState(w, "acked")>> /\ sq'[d] = sq[d]
    BY <2>1, <1>s DEF InState
  <2> HIDE DEF c, b
  <2>3. IsFun(mem') /\ mem'[r] = mem[r] /\ mem'[d] = Store(mem[d], b, Payload(r, w))
    BY <2>1, <1>q DEF AreFuns, IsFun
  <2>4. IsFun(srq') /\ srq'[r] = srq[r] /\ srq'[d] = Tail(srq[d])
    BY <2>1, <1>q DEF AreFuns, IsFun
  <2>5. IsFun(recv_cq') /\ recv_cq'[r] = recv_cq[r] /\ recv_cq'[d] = Append(recv_cq[d], c)
    BY <2>1, <1>q DEF AreFuns, IsFun
  <2>6. DoDeliver(r, w)
    BY <2>1, <2>2, <2>3, <2>4, <2>5 DEF DoDeliver, b, c
  <2> QED  BY <2>1, <2>2, <2>3, <2>4, <2>5, <2>6 DEF AreFuns
<1>2. CASE Place(r)
  <2> DEFINE k == IF order = "ascending" THEN Min(w.left) ELSE Max(w.left)
             s == IF w.left = {k} THEN "acked" ELSE "posted"
             x == <<Payload(r, w)[k]>>
  <2>1. /\ w.st = "posted" /\ w.op = "WRITE" /\ d \in up /\ ~ Refused(r, w)
        /\ mem' = [mem EXCEPT ![d] = Store(mem[d], w.raddr + k - 1, x)]
        /\ SetHead(r, [w EXCEPT !.left = @ \ {k}, !.st = s])
        /\ UNCHANGED <<srq, send_cq, recv_cq, order, up>>
    BY <1>2, <1>h DEF Place, Ready, HeadIs
  <2>2. IsFun(sq') /\ sq'[r] = <<Placed(w, w.left \ {k}, s)>> /\ sq'[d] = sq[d]
    BY <2>1, <1>s DEF Placed
  <2> HIDE DEF k, x
  <2>3. IsFun(mem') /\ mem'[r] = mem[r] /\ mem'[d] = Store(mem[d], w.raddr + k - 1, x)
    BY <2>1, <1>q DEF AreFuns, IsFun
  <2>4. DoPlace(r, w)
    BY <2>1, <2>2, <2>3 DEF DoPlace, k, x
  <2> QED  BY <2>1, <2>2, <2>3, <2>4 DEF AreFuns
<1>3. CASE Respond(r)
  <2>1. /\ w.st = "posted" /\ w.op = "READ" /\ d \in up /\ ~ Refused(r, w)
        /\ SetHead(r, [w EXCEPT !.data = Load(mem[d], w.raddr, w.len), !.st = "acked"])
        /\ UNCHANGED <<mem, srq, send_cq, recv_cq, order, up>>
    BY <1>3, <1>h DEF Respond, Ready, HeadIs
  <2>2. IsFun(sq') /\ sq'[r] = <<Answered(w, Load(mem[d], w.raddr, w.len))>> /\ sq'[d] = sq[d]
    BY <2>1, <1>s DEF Answered
  <2>4. DoRespond(r, w)
    BY <2>1, <2>2 DEF DoRespond
  <2> QED  BY <2>1, <2>2, <2>4 DEF AreFuns
<1>4. CASE Ack(r)
  <2>1. /\ w.st = "acked" /\ Finish(r, "SUCCESS")
        /\ mem' = IF w.op = "READ" THEN [mem EXCEPT ![r] = Store(mem[r], w.buf, w.data)] ELSE mem
        /\ UNCHANGED <<srq, recv_cq, order, up>>
    BY <1>4, <1>h DEF Ack, HeadIs
  <2>2. /\ IsFun(mem') /\ mem'[d] = mem[d]
        /\ mem'[r] = IF w.op = "READ" THEN Store(mem[r], w.buf, w.data) ELSE mem[r]
    BY <2>1, <1>q DEF AreFuns, IsFun
  <2>3. DoFinish(r, w)
    BY <2>1, <2>2, <1>t DEF DoFinish
  <2> QED  BY <2>1, <2>2, <2>3, <1>t DEF AreFuns
<1>5. CASE Fail(r)
  <2>1. /\ \/ w.st = "posted" /\ (Refused(r, w) \/ d \notin up)
           \/ w.st = "unacked" /\ d \notin up
        /\ Finish(r, "ERROR") /\ UNCHANGED <<mem, srq, recv_cq, order, up>>
    BY <1>5, <1>h DEF Fail, HeadIs
  <2>3. DoFinish(r, w)
    BY <2>1, <1>t DEF DoFinish
  <2> QED  BY <2>1, <2>3, <1>t DEF AreFuns
<1>6. CASE Retransmit(r)
  <2> DEFINE s == IF w.op = "READ" THEN "posted" ELSE "acked"
  <2>1. /\ w.st = "unacked" /\ d \in up
        /\ SetHead(r, [w EXCEPT !.st = s])
        /\ UNCHANGED <<mem, srq, send_cq, recv_cq, order, up>>
    BY <1>6, <1>h DEF Retransmit, HeadIs
  <2>2. IsFun(sq') /\ sq'[r] = <<InState(w, s)>> /\ sq'[d] = sq[d]
    BY <2>1, <1>s DEF InState
  <2>3. DoChange(r, w)
    BY <2>1, <2>2 DEF DoChange
  <2> QED  BY <2>1, <2>2, <2>3 DEF AreFuns
<1>7. CASE LoseAck(r)
  <2>1. /\ w.st = "acked"
        /\ SetHead(r, [w EXCEPT !.st = "unacked"])
        /\ UNCHANGED <<mem, srq, send_cq, recv_cq, order, up>>
    BY <1>7, <1>h DEF LoseAck, HeadIs
  <2>2. IsFun(sq') /\ sq'[r] = <<InState(w, "unacked")>> /\ sq'[d] = sq[d]
    BY <2>1, <1>s DEF InState
  <2>3. DoChange(r, w)
    BY <2>1, <2>2 DEF DoChange
  <2> QED  BY <2>1, <2>2, <2>3 DEF AreFuns
<1> QED  BY <1>1, <1>2, <1>3, <1>4, <1>5, <1>6, <1>7 DEF Adapter

\* The adapter works for a rank only when it has posted something.
LEMMA AdapterNeedsRequest ==
    ASSUME NEW r \in Ranks, Adapter(r) \/ LoseAck(r)
    PROVE  sq[r] # <<>>
  BY DEF Adapter, Deliver, Place, Respond, Ack, Retransmit, Fail, LoseAck, Ready, HeadIs

----------------------------------------------------------------------------
\* The lambdas of the three rendezvous, statement by statement.

\* The labels of the two halves of a lambda.
LEMMA Concatenated ==
    ASSUME NEW S, NEW s \in Seq(S), NEW t \in Seq(S)
    PROVE  /\ s \o t \in Seq(S) /\ Len(s \o t) = Len(s) + Len(t)
           /\ \A j \in 1 .. Len(s) + Len(t) :
                  (s \o t)[j] = IF j <= Len(s) THEN s[j] ELSE t[j - Len(s)]
<1>1. s \o t \in Seq(S)
  OBVIOUS
<1>2. Len(s \o t) = Len(s) + Len(t)
  OBVIOUS
<1>3. \A j \in 1 .. Len(s) + Len(t) :
          (s \o t)[j] = IF j <= Len(s) THEN s[j] ELSE t[j - Len(s)]
  OBVIOUS
<1> QED  BY <1>1, <1>2, <1>3

\* The labels of the lambda of ibv_pingpong_rdv_read.cpp.
RRLambda == {"fill", "post_rts", "poll_rts", "recv_fin", "handle_fin", "recv_rts",
              "handle_rts", "poll_read", "poll_fin", "check"}

\* All labels of ibv_pingpong_rdv_read.cpp.
RRLabels == {"setup", "fill", "post_rts", "poll_rts", "recv_fin", "handle_fin", "recv_rts",
             "handle_rts", "poll_read", "poll_fin", "check", "close", "exited"}

\* The label after l in the lambda of ibv_pingpong_rdv_read.cpp.
RRAfter(r, l) ==
    IF l = "fill" THEN "post_rts"
    ELSE IF l = "post_rts" THEN "poll_rts"
    ELSE IF l = "poll_rts" THEN "recv_fin"
    ELSE IF l = "recv_fin" THEN "handle_fin"
    ELSE IF l = "handle_fin" THEN "recv_rts"
    ELSE IF l = "recv_rts" THEN "handle_rts"
    ELSE IF l = "handle_rts" THEN "poll_read"
    ELSE IF l = "poll_read" THEN "poll_fin"
    ELSE IF l = "poll_fin" THEN "check"
    ELSE "fill"

\* The label at which rank r's lambda of this program ends.
RRLast(r) == IF r = 0 THEN "check" ELSE "handle_fin"

\* The steps of rank r outside its lambda.
RROutside(r) ==
    {<<"setup", (IF r = 0 THEN "fill" ELSE "recv_rts")>>, <<"close", "exited">>}

\* Rank r goes on, in the lambda or outside it.
RRGoes(r) ==
    \/ /\ pc[r] \in RRLambda
       /\ IF pc[r] = RRLast(r) THEN EndCall(r, (IF r = 0 THEN "fill" ELSE "recv_rts"))
                                ELSE Advance(r, RRAfter(r, pc[r]))
    \/ \E x : <<pc[r], x>> \in RROutside(r) /\ Advance(r, x)

\* Where run goes after each statement of the lambda: to RRAfter, or to the
\* end of the call.
LEMMA RRProceeds ==
    ASSUME NEW r \in Ranks, pc[r] \in RRLambda, RR!Proceed(r, RR!Body(r))
    PROVE  RRGoes(r)
<1> DEFINE k == RR!Position(pc[r], RR!Body(r))
<1>n. /\ RR!NextCall(call[r]) = NextCall(call[r])
      /\ RR!Finished(NextCall(call[r])) = Finished(NextCall(call[r]))
  BY DEF RR!NextCall, NextCall, RR!Iterations, Iterations, RR!Finished, Finished,
         RR!max_msg_size, max_msg_size
<1>1. CASE r = 0
  <2> DEFINE s == <<"fill", "post_rts", "poll_rts", "recv_fin", "handle_fin">>
             t == <<"recv_rts", "handle_rts", "poll_read", "poll_fin", "check">>
             b == s \o t
  <2>1. RR!Body(r) = b
    BY <1>1 DEF RR!Body, RR!Halves, RR!Sender, RR!Receiver
  <2>a. s \in Seq(RRLambda) /\ t \in Seq(RRLambda) /\ Len(s) = 5 /\ Len(t) = 5
    BY DEF RRLambda
  <2>b. /\ s[1] = "fill" /\ s[2] = "post_rts" /\ s[3] = "poll_rts" /\ s[4] = "recv_fin"
        /\ s[5] = "handle_fin" /\ t[1] = "recv_rts" /\ t[2] = "handle_rts" /\ t[3] = "poll_read"
        /\ t[4] = "poll_fin" /\ t[5] = "check"
    OBVIOUS
  <2> HIDE DEF s, t
  <2>c. /\ b \in Seq(RRLambda) /\ Len(b) = 5 + 5
        /\ \A j \in 1 .. 5 + 5 : b[j] = IF j <= 5 THEN s[j] ELSE t[j - 5]
    <3>1. /\ b \in Seq(RRLambda) /\ Len(b) = Len(s) + Len(t)
          /\ \A j \in 1 .. Len(s) + Len(t) :
                 b[j] = IF j <= Len(s) THEN s[j] ELSE t[j - Len(s)]
      BY <2>a, Concatenated
    <3> HIDE DEF b
    <3> QED  BY <2>a, <3>1
  <2> HIDE DEF b
  <2>2. DOMAIN b = 1 .. 10 /\ Len(b) = 10
    BY <2>c
  <2>3. /\ b[1] = "fill" /\ b[2] = "post_rts" /\ b[3] = "poll_rts" /\ b[4] = "recv_fin"
        /\ b[5] = "handle_fin" /\ b[6] = "recv_rts" /\ b[7] = "handle_rts" /\ b[8] = "poll_read"
        /\ b[9] = "poll_fin" /\ b[10] = "check"
    BY <2>b, <2>c
  <2>4. \E j \in 1 .. 10 : b[j] = pc[r]
    BY <2>3 DEF RRLambda
  <2>5. k \in 1 .. 10 /\ b[k] = pc[r]
    BY <2>1, <2>2, <2>4 DEF RR!Position
  <2>6. /\ k < 10 => pc' = [pc EXCEPT ![r] = b[k + 1]] /\ UNCHANGED call
        /\ ~ (k < 10) => /\ pc' = [pc EXCEPT ![r] =
                                   IF Finished(NextCall(call[r])) THEN "close" ELSE b[1]]
                        /\ call' = [call EXCEPT ![r] = NextCall(call[r])]
    BY <2>1, <2>2, <1>n DEF RR!Proceed
  <2> HIDE DEF k
  <2>7. IF pc[r] = RRLast(r) THEN EndCall(r, (IF r = 0 THEN "fill" ELSE "recv_rts"))
                              ELSE Advance(r, RRAfter(r, pc[r]))
    BY <1>1, <2>3, <2>5, <2>6 DEF RRLast, RRAfter, Advance, EndCall
  <2> QED  BY <2>7 DEF RRGoes
<1>2. CASE r = 1
  <2> DEFINE s == <<"recv_rts", "handle_rts", "poll_read", "poll_fin", "check">>
             t == <<"fill", "post_rts", "poll_rts", "recv_fin", "handle_fin">>
             b == s \o t
  <2>1. RR!Body(r) = b
    BY <1>2 DEF RR!Body, RR!Halves, RR!Sender, RR!Receiver
  <2>a. s \in Seq(RRLambda) /\ t \in Seq(RRLambda) /\ Len(s) = 5 /\ Len(t) = 5
    BY DEF RRLambda
  <2>b. /\ s[1] = "recv_rts" /\ s[2] = "handle_rts" /\ s[3] = "poll_read" /\ s[4] = "poll_fin"
        /\ s[5] = "check" /\ t[1] = "fill" /\ t[2] = "post_rts" /\ t[3] = "poll_rts"
        /\ t[4] = "recv_fin" /\ t[5] = "handle_fin"
    OBVIOUS
  <2> HIDE DEF s, t
  <2>c. /\ b \in Seq(RRLambda) /\ Len(b) = 5 + 5
        /\ \A j \in 1 .. 5 + 5 : b[j] = IF j <= 5 THEN s[j] ELSE t[j - 5]
    <3>1. /\ b \in Seq(RRLambda) /\ Len(b) = Len(s) + Len(t)
          /\ \A j \in 1 .. Len(s) + Len(t) :
                 b[j] = IF j <= Len(s) THEN s[j] ELSE t[j - Len(s)]
      BY <2>a, Concatenated
    <3> HIDE DEF b
    <3> QED  BY <2>a, <3>1
  <2> HIDE DEF b
  <2>2. DOMAIN b = 1 .. 10 /\ Len(b) = 10
    BY <2>c
  <2>3. /\ b[1] = "recv_rts" /\ b[2] = "handle_rts" /\ b[3] = "poll_read" /\ b[4] = "poll_fin"
        /\ b[5] = "check" /\ b[6] = "fill" /\ b[7] = "post_rts" /\ b[8] = "poll_rts"
        /\ b[9] = "recv_fin" /\ b[10] = "handle_fin"
    BY <2>b, <2>c
  <2>4. \E j \in 1 .. 10 : b[j] = pc[r]
    BY <2>3 DEF RRLambda
  <2>5. k \in 1 .. 10 /\ b[k] = pc[r]
    BY <2>1, <2>2, <2>4 DEF RR!Position
  <2>6. /\ k < 10 => pc' = [pc EXCEPT ![r] = b[k + 1]] /\ UNCHANGED call
        /\ ~ (k < 10) => /\ pc' = [pc EXCEPT ![r] =
                                   IF Finished(NextCall(call[r])) THEN "close" ELSE b[1]]
                        /\ call' = [call EXCEPT ![r] = NextCall(call[r])]
    BY <2>1, <2>2, <1>n DEF RR!Proceed
  <2> HIDE DEF k
  <2>7. IF pc[r] = RRLast(r) THEN EndCall(r, (IF r = 0 THEN "fill" ELSE "recv_rts"))
                              ELSE Advance(r, RRAfter(r, pc[r]))
    BY <1>2, <2>3, <2>5, <2>6 DEF RRLast, RRAfter, Advance, EndCall
  <2> QED  BY <2>7 DEF RRGoes
<1> QED  BY <1>1, <1>2 DEF Ranks

\* The labels of the lambda of ibv_pingpong_rdv_write.cpp.
RWLambda == {"fill", "post_rts", "poll_rts", "recv_rtr", "handle_rtr", "poll_write",
              "poll_fin", "recv_rts", "handle_rts", "poll_rtr", "recv_fin", "handle_fin",
              "check"}

\* All labels of ibv_pingpong_rdv_write.cpp.
RWLabels == {"setup", "fill", "post_rts", "poll_rts", "recv_rtr", "handle_rtr",
             "poll_write", "poll_fin", "recv_rts", "handle_rts", "poll_rtr", "recv_fin",
             "handle_fin", "check", "close", "exited"}

\* The label after l in the lambda of ibv_pingpong_rdv_write.cpp.
RWAfter(r, l) ==
    IF l = "fill" THEN "post_rts"
    ELSE IF l = "post_rts" THEN "poll_rts"
    ELSE IF l = "poll_rts" THEN "recv_rtr"
    ELSE IF l = "recv_rtr" THEN "handle_rtr"
    ELSE IF l = "handle_rtr" THEN "poll_write"
    ELSE IF l = "poll_write" THEN "poll_fin"
    ELSE IF l = "poll_fin" THEN "recv_rts"
    ELSE IF l = "recv_rts" THEN "handle_rts"
    ELSE IF l = "handle_rts" THEN "poll_rtr"
    ELSE IF l = "poll_rtr" THEN "recv_fin"
    ELSE IF l = "recv_fin" THEN "handle_fin"
    ELSE IF l = "handle_fin" THEN "check"
    ELSE "fill"

\* The label at which rank r's lambda of this program ends.
RWLast(r) == IF r = 0 THEN "check" ELSE "poll_fin"

\* The steps of rank r outside its lambda.
RWOutside(r) ==
    {<<"setup", (IF r = 0 THEN "fill" ELSE "recv_rts")>>, <<"close", "exited">>}

\* Rank r goes on, in the lambda or outside it.
RWGoes(r) ==
    \/ /\ pc[r] \in RWLambda
       /\ IF pc[r] = RWLast(r) THEN EndCall(r, (IF r = 0 THEN "fill" ELSE "recv_rts"))
                                ELSE Advance(r, RWAfter(r, pc[r]))
    \/ \E x : <<pc[r], x>> \in RWOutside(r) /\ Advance(r, x)

\* Where run goes after each statement of the lambda: to RWAfter, or to the
\* end of the call.
LEMMA RWProceeds ==
    ASSUME NEW r \in Ranks, pc[r] \in RWLambda, RW!Proceed(r, RW!Body(r))
    PROVE  RWGoes(r)
<1> DEFINE k == RW!Position(pc[r], RW!Body(r))
<1>n. /\ RW!NextCall(call[r]) = NextCall(call[r])
      /\ RW!Finished(NextCall(call[r])) = Finished(NextCall(call[r]))
  BY DEF RW!NextCall, NextCall, RW!Iterations, Iterations, RW!Finished, Finished,
         RW!max_msg_size, max_msg_size
<1>1. CASE r = 0
  <2> DEFINE s == <<"fill", "post_rts", "poll_rts", "recv_rtr", "handle_rtr", "poll_write",
                    "poll_fin">>
             t == <<"recv_rts", "handle_rts", "poll_rtr", "recv_fin", "handle_fin",
                    "check">>
             b == s \o t
  <2>1. RW!Body(r) = b
    BY <1>1 DEF RW!Body, RW!Halves, RW!Sender, RW!Receiver
  <2>a. s \in Seq(RWLambda) /\ t \in Seq(RWLambda) /\ Len(s) = 7 /\ Len(t) = 6
    BY DEF RWLambda
  <2>b. /\ s[1] = "fill" /\ s[2] = "post_rts" /\ s[3] = "poll_rts" /\ s[4] = "recv_rtr"
        /\ s[5] = "handle_rtr" /\ s[6] = "poll_write" /\ s[7] = "poll_fin" /\ t[1] = "recv_rts"
        /\ t[2] = "handle_rts" /\ t[3] = "poll_rtr" /\ t[4] = "recv_fin" /\ t[5] = "handle_fin"
        /\ t[6] = "check"
    OBVIOUS
  <2> HIDE DEF s, t
  <2>c. /\ b \in Seq(RWLambda) /\ Len(b) = 7 + 6
        /\ \A j \in 1 .. 7 + 6 : b[j] = IF j <= 7 THEN s[j] ELSE t[j - 7]
    <3>1. /\ b \in Seq(RWLambda) /\ Len(b) = Len(s) + Len(t)
          /\ \A j \in 1 .. Len(s) + Len(t) :
                 b[j] = IF j <= Len(s) THEN s[j] ELSE t[j - Len(s)]
      BY <2>a, Concatenated
    <3> HIDE DEF b
    <3> QED  BY <2>a, <3>1
  <2> HIDE DEF b
  <2>2. DOMAIN b = 1 .. 13 /\ Len(b) = 13
    BY <2>c
  <2>3. /\ b[1] = "fill" /\ b[2] = "post_rts" /\ b[3] = "poll_rts" /\ b[4] = "recv_rtr"
        /\ b[5] = "handle_rtr" /\ b[6] = "poll_write" /\ b[7] = "poll_fin" /\ b[8] = "recv_rts"
        /\ b[9] = "handle_rts" /\ b[10] = "poll_rtr" /\ b[11] = "recv_fin" /\ b[12] = "handle_fin"
        /\ b[13] = "check"
    BY <2>b, <2>c
  <2>4. \E j \in 1 .. 13 : b[j] = pc[r]
    BY <2>3 DEF RWLambda
  <2>5. k \in 1 .. 13 /\ b[k] = pc[r]
    BY <2>1, <2>2, <2>4 DEF RW!Position
  <2>6. /\ k < 13 => pc' = [pc EXCEPT ![r] = b[k + 1]] /\ UNCHANGED call
        /\ ~ (k < 13) => /\ pc' = [pc EXCEPT ![r] =
                                   IF Finished(NextCall(call[r])) THEN "close" ELSE b[1]]
                        /\ call' = [call EXCEPT ![r] = NextCall(call[r])]
    BY <2>1, <2>2, <1>n DEF RW!Proceed
  <2> HIDE DEF k
  <2>7. IF pc[r] = RWLast(r) THEN EndCall(r, (IF r = 0 THEN "fill" ELSE "recv_rts"))
                              ELSE Advance(r, RWAfter(r, pc[r]))
    BY <1>1, <2>3, <2>5, <2>6 DEF RWLast, RWAfter, Advance, EndCall
  <2> QED  BY <2>7 DEF RWGoes
<1>2. CASE r = 1
  <2> DEFINE s == <<"recv_rts", "handle_rts", "poll_rtr", "recv_fin", "handle_fin",
                    "check">>
             t == <<"fill", "post_rts", "poll_rts", "recv_rtr", "handle_rtr", "poll_write",
                    "poll_fin">>
             b == s \o t
  <2>1. RW!Body(r) = b
    BY <1>2 DEF RW!Body, RW!Halves, RW!Sender, RW!Receiver
  <2>a. s \in Seq(RWLambda) /\ t \in Seq(RWLambda) /\ Len(s) = 6 /\ Len(t) = 7
    BY DEF RWLambda
  <2>b. /\ s[1] = "recv_rts" /\ s[2] = "handle_rts" /\ s[3] = "poll_rtr" /\ s[4] = "recv_fin"
        /\ s[5] = "handle_fin" /\ s[6] = "check" /\ t[1] = "fill" /\ t[2] = "post_rts"
        /\ t[3] = "poll_rts" /\ t[4] = "recv_rtr" /\ t[5] = "handle_rtr" /\ t[6] = "poll_write"
        /\ t[7] = "poll_fin"
    OBVIOUS
  <2> HIDE DEF s, t
  <2>c. /\ b \in Seq(RWLambda) /\ Len(b) = 6 + 7
        /\ \A j \in 1 .. 6 + 7 : b[j] = IF j <= 6 THEN s[j] ELSE t[j - 6]
    <3>1. /\ b \in Seq(RWLambda) /\ Len(b) = Len(s) + Len(t)
          /\ \A j \in 1 .. Len(s) + Len(t) :
                 b[j] = IF j <= Len(s) THEN s[j] ELSE t[j - Len(s)]
      BY <2>a, Concatenated
    <3> HIDE DEF b
    <3> QED  BY <2>a, <3>1
  <2> HIDE DEF b
  <2>2. DOMAIN b = 1 .. 13 /\ Len(b) = 13
    BY <2>c
  <2>3. /\ b[1] = "recv_rts" /\ b[2] = "handle_rts" /\ b[3] = "poll_rtr" /\ b[4] = "recv_fin"
        /\ b[5] = "handle_fin" /\ b[6] = "check" /\ b[7] = "fill" /\ b[8] = "post_rts"
        /\ b[9] = "poll_rts" /\ b[10] = "recv_rtr" /\ b[11] = "handle_rtr" /\ b[12] = "poll_write"
        /\ b[13] = "poll_fin"
    BY <2>b, <2>c
  <2>4. \E j \in 1 .. 13 : b[j] = pc[r]
    BY <2>3 DEF RWLambda
  <2>5. k \in 1 .. 13 /\ b[k] = pc[r]
    BY <2>1, <2>2, <2>4 DEF RW!Position
  <2>6. /\ k < 13 => pc' = [pc EXCEPT ![r] = b[k + 1]] /\ UNCHANGED call
        /\ ~ (k < 13) => /\ pc' = [pc EXCEPT ![r] =
                                   IF Finished(NextCall(call[r])) THEN "close" ELSE b[1]]
                        /\ call' = [call EXCEPT ![r] = NextCall(call[r])]
    BY <2>1, <2>2, <1>n DEF RW!Proceed
  <2> HIDE DEF k
  <2>7. IF pc[r] = RWLast(r) THEN EndCall(r, (IF r = 0 THEN "fill" ELSE "recv_rts"))
                              ELSE Advance(r, RWAfter(r, pc[r]))
    BY <1>2, <2>3, <2>5, <2>6 DEF RWLast, RWAfter, Advance, EndCall
  <2> QED  BY <2>7 DEF RWGoes
<1> QED  BY <1>1, <1>2 DEF Ranks

\* The labels of the lambda of ibv_pingpong_rdv_write_imm.cpp.
RILambda == {"fill", "post_rts", "poll_rts", "recv_rtr", "handle_rtr", "poll_write",
              "recv_rts", "handle_rts", "poll_rtr", "recv_write", "handle_write", "check"}

\* All labels of ibv_pingpong_rdv_write_imm.cpp.
RILabels == {"setup", "fill", "post_rts", "poll_rts", "recv_rtr", "handle_rtr",
             "poll_write", "recv_rts", "handle_rts", "poll_rtr", "recv_write",
             "handle_write", "check", "close", "exited"}

\* The label after l in the lambda of ibv_pingpong_rdv_write_imm.cpp.
RIAfter(r, l) ==
    IF l = "fill" THEN "post_rts"
    ELSE IF l = "post_rts" THEN "poll_rts"
    ELSE IF l = "poll_rts" THEN "recv_rtr"
    ELSE IF l = "recv_rtr" THEN "handle_rtr"
    ELSE IF l = "handle_rtr" THEN "poll_write"
    ELSE IF l = "poll_write" THEN "recv_rts"
    ELSE IF l = "recv_rts" THEN "handle_rts"
    ELSE IF l = "handle_rts" THEN "poll_rtr"
    ELSE IF l = "poll_rtr" THEN "recv_write"
    ELSE IF l = "recv_write" THEN "handle_write"
    ELSE IF l = "handle_write" THEN "check"
    ELSE "fill"

\* The label at which rank r's lambda of this program ends.
RILast(r) == IF r = 0 THEN "check" ELSE "poll_write"

\* The steps of rank r outside its lambda.
RIOutside(r) ==
    {<<"setup", (IF r = 0 THEN "fill" ELSE "recv_rts")>>, <<"close", "exited">>}

\* Rank r goes on, in the lambda or outside it.
RIGoes(r) ==
    \/ /\ pc[r] \in RILambda
       /\ IF pc[r] = RILast(r) THEN EndCall(r, (IF r = 0 THEN "fill" ELSE "recv_rts"))
                                ELSE Advance(r, RIAfter(r, pc[r]))
    \/ \E x : <<pc[r], x>> \in RIOutside(r) /\ Advance(r, x)

\* Where run goes after each statement of the lambda: to RIAfter, or to the
\* end of the call.
LEMMA RIProceeds ==
    ASSUME NEW r \in Ranks, pc[r] \in RILambda, RWI!Proceed(r, RWI!Body(r))
    PROVE  RIGoes(r)
<1> DEFINE k == RWI!Position(pc[r], RWI!Body(r))
<1>n. /\ RWI!NextCall(call[r]) = NextCall(call[r])
      /\ RWI!Finished(NextCall(call[r])) = Finished(NextCall(call[r]))
  BY DEF RWI!NextCall, NextCall, RWI!Iterations, Iterations, RWI!Finished, Finished,
         RWI!max_msg_size, max_msg_size
<1>1. CASE r = 0
  <2> DEFINE s == <<"fill", "post_rts", "poll_rts", "recv_rtr", "handle_rtr", "poll_write">>
             t == <<"recv_rts", "handle_rts", "poll_rtr", "recv_write", "handle_write",
                    "check">>
             b == s \o t
  <2>1. RWI!Body(r) = b
    BY <1>1 DEF RWI!Body, RWI!Halves, RWI!Sender, RWI!Receiver
  <2>a. s \in Seq(RILambda) /\ t \in Seq(RILambda) /\ Len(s) = 6 /\ Len(t) = 6
    BY DEF RILambda
  <2>b. /\ s[1] = "fill" /\ s[2] = "post_rts" /\ s[3] = "poll_rts" /\ s[4] = "recv_rtr"
        /\ s[5] = "handle_rtr" /\ s[6] = "poll_write" /\ t[1] = "recv_rts" /\ t[2] = "handle_rts"
        /\ t[3] = "poll_rtr" /\ t[4] = "recv_write" /\ t[5] = "handle_write" /\ t[6] = "check"
    OBVIOUS
  <2> HIDE DEF s, t
  <2>c. /\ b \in Seq(RILambda) /\ Len(b) = 6 + 6
        /\ \A j \in 1 .. 6 + 6 : b[j] = IF j <= 6 THEN s[j] ELSE t[j - 6]
    <3>1. /\ b \in Seq(RILambda) /\ Len(b) = Len(s) + Len(t)
          /\ \A j \in 1 .. Len(s) + Len(t) :
                 b[j] = IF j <= Len(s) THEN s[j] ELSE t[j - Len(s)]
      BY <2>a, Concatenated
    <3> HIDE DEF b
    <3> QED  BY <2>a, <3>1
  <2> HIDE DEF b
  <2>2. DOMAIN b = 1 .. 12 /\ Len(b) = 12
    BY <2>c
  <2>3. /\ b[1] = "fill" /\ b[2] = "post_rts" /\ b[3] = "poll_rts" /\ b[4] = "recv_rtr"
        /\ b[5] = "handle_rtr" /\ b[6] = "poll_write" /\ b[7] = "recv_rts" /\ b[8] = "handle_rts"
        /\ b[9] = "poll_rtr" /\ b[10] = "recv_write" /\ b[11] = "handle_write" /\ b[12] = "check"
    BY <2>b, <2>c
  <2>4. \E j \in 1 .. 12 : b[j] = pc[r]
    BY <2>3 DEF RILambda
  <2>5. k \in 1 .. 12 /\ b[k] = pc[r]
    BY <2>1, <2>2, <2>4 DEF RWI!Position
  <2>6. /\ k < 12 => pc' = [pc EXCEPT ![r] = b[k + 1]] /\ UNCHANGED call
        /\ ~ (k < 12) => /\ pc' = [pc EXCEPT ![r] =
                                   IF Finished(NextCall(call[r])) THEN "close" ELSE b[1]]
                        /\ call' = [call EXCEPT ![r] = NextCall(call[r])]
    BY <2>1, <2>2, <1>n DEF RWI!Proceed
  <2> HIDE DEF k
  <2>7. IF pc[r] = RILast(r) THEN EndCall(r, (IF r = 0 THEN "fill" ELSE "recv_rts"))
                              ELSE Advance(r, RIAfter(r, pc[r]))
    BY <1>1, <2>3, <2>5, <2>6 DEF RILast, RIAfter, Advance, EndCall
  <2> QED  BY <2>7 DEF RIGoes
<1>2. CASE r = 1
  <2> DEFINE s == <<"recv_rts", "handle_rts", "poll_rtr", "recv_write", "handle_write",
                    "check">>
             t == <<"fill", "post_rts", "poll_rts", "recv_rtr", "handle_rtr", "poll_write">>
             b == s \o t
  <2>1. RWI!Body(r) = b
    BY <1>2 DEF RWI!Body, RWI!Halves, RWI!Sender, RWI!Receiver
  <2>a. s \in Seq(RILambda) /\ t \in Seq(RILambda) /\ Len(s) = 6 /\ Len(t) = 6
    BY DEF RILambda
  <2>b. /\ s[1] = "recv_rts" /\ s[2] = "handle_rts" /\ s[3] = "poll_rtr" /\ s[4] = "recv_write"
        /\ s[5] = "handle_write" /\ s[6] = "check" /\ t[1] = "fill" /\ t[2] = "post_rts"
        /\ t[3] = "poll_rts" /\ t[4] = "recv_rtr" /\ t[5] = "handle_rtr" /\ t[6] = "poll_write"
    OBVIOUS
  <2> HIDE DEF s, t
  <2>c. /\ b \in Seq(RILambda) /\ Len(b) = 6 + 6
        /\ \A j \in 1 .. 6 + 6 : b[j] = IF j <= 6 THEN s[j] ELSE t[j - 6]
    <3>1. /\ b \in Seq(RILambda) /\ Len(b) = Len(s) + Len(t)
          /\ \A j \in 1 .. Len(s) + Len(t) :
                 b[j] = IF j <= Len(s) THEN s[j] ELSE t[j - Len(s)]
      BY <2>a, Concatenated
    <3> HIDE DEF b
    <3> QED  BY <2>a, <3>1
  <2> HIDE DEF b
  <2>2. DOMAIN b = 1 .. 12 /\ Len(b) = 12
    BY <2>c
  <2>3. /\ b[1] = "recv_rts" /\ b[2] = "handle_rts" /\ b[3] = "poll_rtr" /\ b[4] = "recv_write"
        /\ b[5] = "handle_write" /\ b[6] = "check" /\ b[7] = "fill" /\ b[8] = "post_rts"
        /\ b[9] = "poll_rts" /\ b[10] = "recv_rtr" /\ b[11] = "handle_rtr" /\ b[12] = "poll_write"
    BY <2>b, <2>c
  <2>4. \E j \in 1 .. 12 : b[j] = pc[r]
    BY <2>3 DEF RILambda
  <2>5. k \in 1 .. 12 /\ b[k] = pc[r]
    BY <2>1, <2>2, <2>4 DEF RWI!Position
  <2>6. /\ k < 12 => pc' = [pc EXCEPT ![r] = b[k + 1]] /\ UNCHANGED call
        /\ ~ (k < 12) => /\ pc' = [pc EXCEPT ![r] =
                                   IF Finished(NextCall(call[r])) THEN "close" ELSE b[1]]
                        /\ call' = [call EXCEPT ![r] = NextCall(call[r])]
    BY <2>1, <2>2, <1>n DEF RWI!Proceed
  <2> HIDE DEF k
  <2>7. IF pc[r] = RILast(r) THEN EndCall(r, (IF r = 0 THEN "fill" ELSE "recv_rts"))
                              ELSE Advance(r, RIAfter(r, pc[r]))
    BY <1>2, <2>3, <2>5, <2>6 DEF RILast, RIAfter, Advance, EndCall
  <2> QED  BY <2>7 DEF RIGoes
<1> QED  BY <1>1, <1>2 DEF Ranks

----------------------------------------------------------------------------
\* What the rendezvous programs post, receive and allocate.

\* The receives posted by a rendezvous: all into one cache line.
Receive(line) == [buf |-> line, len |-> 1, wr_id |-> line]

\* The shared receive queue of rank r holds only receives into this line.
Receives(r, line) == srq[r] \in Seq({Receive(line)})

\* A request that is not inline, when it is posted.
Request(op, buf, len, raddr, imm, wr_id) ==
    [op |-> op, buf |-> buf, len |-> len, raddr |-> raddr, imm |-> imm, wr_id |-> wr_id,
     inline |-> FALSE, st |-> "posted", data |-> <<>>, left |-> 1 .. len]

\* Its fields.
LEMMA RequestFields ==
    ASSUME NEW op, NEW buf, NEW len, NEW raddr, NEW imm, NEW wr_id
    PROVE  /\ Request(op, buf, len, raddr, imm, wr_id).op = op
           /\ Request(op, buf, len, raddr, imm, wr_id).buf = buf
           /\ Request(op, buf, len, raddr, imm, wr_id).len = len
           /\ Request(op, buf, len, raddr, imm, wr_id).raddr = raddr
           /\ Request(op, buf, len, raddr, imm, wr_id).imm = imm
           /\ Request(op, buf, len, raddr, imm, wr_id).wr_id = wr_id
           /\ Request(op, buf, len, raddr, imm, wr_id).st = "posted"
           /\ Request(op, buf, len, raddr, imm, wr_id).left = 1 .. len
  BY DEF Request

\* It is a request, and its data is fetched from memory.
LEMMA RequestNotInline ==
    ASSUME NEW op, NEW buf, NEW len, NEW raddr, NEW imm, NEW wr_id
    PROVE  /\ IsRequest(Request(op, buf, len, raddr, imm, wr_id))
           /\ Request(op, buf, len, raddr, imm, wr_id).inline = FALSE
<1>0. PICK w : w = Request(op, buf, len, raddr, imm, wr_id)
  OBVIOUS
<1>1. w = [op |-> op, buf |-> buf, len |-> len, raddr |-> raddr, imm |-> imm, wr_id |-> wr_id,
           inline |-> FALSE, st |-> "posted", data |-> <<>>, left |-> 1 .. len]
  BY <1>0 DEF Request
<1>2. /\ w.op = op /\ w.buf = buf /\ w.len = len /\ w.raddr = raddr
      /\ w.imm = imm /\ w.wr_id = wr_id /\ w.st = "posted" /\ w.left = 1 .. len
      /\ w.data = <<>>
  BY <1>1
<1>3. w.inline = FALSE
  <2>1. PICK x : x = FALSE
    OBVIOUS
  <2>2. w = [op |-> op, buf |-> buf, len |-> len, raddr |-> raddr, imm |-> imm,
             wr_id |-> wr_id, inline |-> x, st |-> "posted", data |-> <<>>, left |-> 1 .. len]
    BY <1>1, <2>1, Zenon
  <2>3. w.inline = x
    BY <2>2
  <2> QED  BY <2>1, <2>3, Zenon
<1>4. IsRequest(w)
  BY <1>1, <1>2, <1>3, Zenon DEF IsRequest
<1> QED  BY <1>0, <1>3, <1>4, Zenon

\* Without -i nothing is sent inline.
LEMMA NothingInline ==
    ASSUME config.inline_size = 0, NEW op, NEW buf, NEW len \in Nat \ {0}, NEW raddr, NEW imm,
           NEW wr_id, NEW r
    PROVE  WorkRequest(r, op, buf, len, raddr, imm, wr_id) =
               Request(op, buf, len, raddr, imm, wr_id)
<1> DEFINE inline == op # "READ" /\ len <= config.inline_size
<1>1. inline = FALSE
  OBVIOUS
<1> HIDE DEF inline
<1>2. (IF inline THEN Load(mem'[r], buf, len) ELSE <<>>) = <<>>
  BY <1>1
<1>3. WorkRequest(r, op, buf, len, raddr, imm, wr_id) =
        [op |-> op, buf |-> buf, len |-> len, raddr |-> raddr, imm |-> imm,
         wr_id |-> wr_id, inline |-> inline, st |-> "posted",
         data |-> IF inline THEN Load(mem'[r], buf, len) ELSE <<>>,
         left |-> 1 .. len]
  BY DEF WorkRequest, inline
<1> QED  BY <1>1, <1>2, <1>3, Zenon DEF Request

\* What is rank r's, after a step of a rendezvous, when nothing of its peer's changed.
Becomes(r, m, s, sc, rc, h, c) ==
    LET q == Peer(r)
    IN /\ AreFuns' /\ IsFun(heap') /\ IsFun(wc')
       /\ mem'[r] = m /\ sq'[r] = s /\ send_cq'[r] = sc /\ recv_cq'[r] = rc
       /\ heap'[r] = h /\ wc'[r] = c
       /\ mem'[q] = mem[q] /\ sq'[q] = sq[q] /\ srq'[q] = srq[q] /\ send_cq'[q] = send_cq[q]
       /\ recv_cq'[q] = recv_cq[q] /\ heap'[q] = heap[q] /\ wc'[q] = wc[q]

\* Functions of the ranks.
RdvFuns == AreFuns /\ IsFun(heap) /\ IsFun(wc)

\* A rank that ends changes nothing else.
LEMMA RdvHalts ==
    ASSUME RdvFuns, NEW r \in Ranks, UNCHANGED <<mem, sq, srq, send_cq, recv_cq, heap, wc>>
    PROVE  Becomes(r, mem[r], sq[r], send_cq[r], recv_cq[r], heap[r], wc[r])
  BY DEF RdvFuns, AreFuns, Becomes, IsFun

\* checkAndPostRecvs posts receives into the one line.
LEMMA ReceivesPosted ==
    ASSUME NEW r \in Ranks, IsFun(srq), NEW line, Receives(r, line), NEW n,
           Refill(n) \in Nat, checkAndPostRecvs(r, n, line, 1)
    PROVE  Receives(r, line)' /\ srq'[Peer(r)] = srq[Peer(r)] /\ IsFun(srq')
<1> DEFINE s == [k \in 1 .. Refill(n) |-> [buf |-> line, len |-> 1, wr_id |-> line]]
<1>1. srq' = [srq EXCEPT ![r] = srq[r] \o s]
  BY DEF checkAndPostRecvs
<1>2. s \in Seq({Receive(line)})
  <2>1. PICK m \in Nat : m = Refill(n)
    OBVIOUS
  <2>2. s \in [1 .. m -> {Receive(line)}]
    BY <2>1 DEF Receive
  <2> QED  BY <2>2
<1> HIDE DEF s
<1>3. srq[r] \o s \in Seq({Receive(line)})
  <2>1. srq[r] \in Seq({Receive(line)})
    BY DEF Receives
  <2>2. \A S : \A x, y \in Seq(S) : x \o y \in Seq(S)
    BY Concatenated
  <2> QED  BY <1>2, <2>1, <2>2, Zenon
<1>4. srq'[r] = srq[r] \o s /\ srq'[Peer(r)] = srq[Peer(r)] /\ IsFun(srq')
  BY <1>1, PeerFacts DEF IsFun
<1> QED  BY <1>3, <1>4 DEF Receives

\* A context is added to a heap.
Grown(h, c, fields) == [x \in DOMAIN h \cup {c} |-> IF x = c THEN fields ELSE h[x]]

\* A context is taken from a heap.
Shrunk(h, c) == [x \in DOMAIN h \ {c} |-> h[x]]

\* The number checkAndPostRecvs posts.
LEMMA RefillNat ==
    ASSUME NEW n \in 0 .. MaxRecv
    PROVE  Refill(n) \in Nat /\ Refill(n - 1) \in Nat
  BY FabricAssumption, DeviceAssumption DEF Refill

----------------------------------------------------------------------------
\* Contexts of ibv_pingpong_rdv_write.cpp and ibv_pingpong_rdv_read.cpp.

\* Rank r has one context on its heap when it is at one of these labels, none
\* when it is at another.
Holds(r, labels) ==
    IF pc[r] \in labels THEN \E c : DOMAIN heap[r] = {c} ELSE DOMAIN heap[r] = {}

\* What a step of rank r does to its heap: nothing, or it allocates a context,
\* sets a field of one, or frees one.
HeapStep(r, grow, note, shrink) ==
    \/ pc[r] \notin grow \cup shrink /\ UNCHANGED heap
    \/ /\ pc[r] \in grow
       /\ \E c, fields : heap' = [heap EXCEPT ![r] = Grown(heap[r], c, fields)]
    \/ /\ pc[r] \in note
       /\ \E c \in DOMAIN heap[r] : \E x : heap' = [heap EXCEPT ![r][c].recv_ctx = x]
    \/ /\ pc[r] \in shrink
       /\ \E c \in DOMAIN heap[r] : heap' = [heap EXCEPT ![r] = Shrunk(heap[r], c)]

\* The heap follows the label when the step goes to a label it should go to.
LEMMA HeapFollows ==
    ASSUME NEW r \in Ranks, IsFun(heap), NEW labels, NEW grow, NEW note, NEW shrink,
           HeapStep(r, grow, note, shrink), \A p \in Ranks : Holds(p, labels),
           pc'[Peer(r)] = pc[Peer(r)],
           grow \cap labels = {}, shrink \subseteq labels, note \cap shrink = {},
           grow \cap shrink = {}, note \cap grow = {},
           pc'[r] \in labels <=> pc[r] \in grow \cup (labels \ shrink)
    PROVE  IsFun(heap') /\ \A p \in Ranks : Holds(p, labels)'
<1> DEFINE q == Peer(r)
<1>q. q \in Ranks /\ q # r /\ Ranks = {r, q}
  BY PeerFacts DEF Ranks, Peer
<1>h. /\ pc[r] \in labels => \E c : DOMAIN heap[r] = {c}
      /\ pc[r] \notin labels => DOMAIN heap[r] = {}
  BY DEF Holds
<1>1. IsFun(heap') /\ heap'[q] = heap[q] /\ Holds(r, labels)'
  <2>1. CASE pc[r] \notin grow \cup shrink /\ UNCHANGED heap
    BY <2>1, <1>h DEF Holds
  <2>2. CASE /\ pc[r] \in grow
             /\ \E c, fields : heap' = [heap EXCEPT ![r] = Grown(heap[r], c, fields)]
    <3>1. PICK c, fields : heap' = [heap EXCEPT ![r] = Grown(heap[r], c, fields)]
      BY <2>2
    <3>2. DOMAIN heap[r] = {} /\ DOMAIN Grown(heap[r], c, fields) = DOMAIN heap[r] \cup {c}
      BY <2>2, <1>h DEF Grown
    <3>3. IsFun(heap') /\ heap'[q] = heap[q] /\ heap'[r] = Grown(heap[r], c, fields)
      BY <3>1, <1>q DEF IsFun
    <3>4. DOMAIN heap'[r] = {c}
      BY <3>2, <3>3
    <3> QED  BY <2>2, <3>3, <3>4 DEF Holds
  <2>3. CASE /\ pc[r] \in note
             /\ \E c \in DOMAIN heap[r] : \E x : heap' = [heap EXCEPT ![r][c].recv_ctx = x]
    <3>1. PICK c \in DOMAIN heap[r] : \E x : heap' = [heap EXCEPT ![r][c].recv_ctx = x]
      BY <2>3
    <3>2. IsFun(heap') /\ heap'[q] = heap[q] /\ DOMAIN heap'[r] = DOMAIN heap[r]
      BY <3>1, <1>q DEF IsFun
    <3> QED  BY <2>3, <3>2, <1>h DEF Holds
  <2>4. CASE /\ pc[r] \in shrink
             /\ \E c \in DOMAIN heap[r] : heap' = [heap EXCEPT ![r] = Shrunk(heap[r], c)]
    <3>1. PICK c \in DOMAIN heap[r] : heap' = [heap EXCEPT ![r] = Shrunk(heap[r], c)]
      BY <2>4
    <3>2. DOMAIN Shrunk(heap[r], c) = DOMAIN heap[r] \ {c} /\ \E x : DOMAIN heap[r] = {x}
      BY <2>4, <1>h DEF Shrunk
    <3>3. IsFun(heap') /\ heap'[q] = heap[q] /\ heap'[r] = Shrunk(heap[r], c)
      BY <3>1, <1>q DEF IsFun
    <3>4. DOMAIN heap'[r] = {}
      BY <3>2, <3>3
    <3> QED  BY <2>4, <3>3, <3>4 DEF Holds
  <2> QED  BY <2>1, <2>2, <2>3, <2>4 DEF HeapStep
<1>2. Holds(q, labels)'
  BY <1>1, <1>q DEF Holds
<1> QED  BY <1>1, <1>2, <1>q

\* The labels of ibv_pingpong_rdv_write.cpp at which a rank has a context.
RWHeld == {"poll_rts", "recv_rtr", "handle_rtr", "poll_write", "poll_rtr", "recv_fin",
            "handle_fin"}

\* A rank of ibv_pingpong_rdv_write.cpp has a context exactly from the moment
\* a message is announced to the moment it is told that the message arrived.
RWContexts ==
    /\ pc \in [Ranks -> RWLabels] /\ IsFun(heap)
    /\ \A r \in Ranks : Holds(r, RWHeld)

\* Which steps lead to a label where the rank has a context.
LEMMA RWMoves ==
    ASSUME NEW r \in Ranks, pc \in [Ranks -> RWLabels], RWGoes(r)
    PROVE  /\ pc' \in [Ranks -> RWLabels] /\ pc'[Peer(r)] = pc[Peer(r)]
           /\ pc'[r] \in RWHeld <=>
                  pc[r] \in {"post_rts", "handle_rts"} \cup (RWHeld \ {"poll_write", "handle_fin"})
<1>q. Peer(r) \in Ranks /\ Peer(r) # r /\ pc[r] \in RWLabels
  BY PeerFacts
<1>1. PICK x : /\ pc' = [pc EXCEPT ![r] = x]
               /\ \/ pc[r] \in RWLambda /\ pc[r] # RWLast(r) /\ x = RWAfter(r, pc[r])
                  \/ pc[r] = RWLast(r) /\ x \in {"fill", "recv_rts", "close"}
                  \/ <<pc[r], x>> \in RWOutside(r)
  <2>1. CASE pc[r] \in RWLambda /\ pc[r] # RWLast(r)
    <3>1. \A y : <<pc[r], y>> \notin RWOutside(r)
      BY <2>1 DEF RWLambda, RWOutside
    <3> QED  BY <2>1, <3>1 DEF RWGoes, Advance
  <2>2. CASE pc[r] = RWLast(r)
    <3>1. pc[r] \in RWLambda /\ \A y : <<pc[r], y>> \notin RWOutside(r)
      BY <2>2 DEF RWLambda, RWOutside, RWLast
    <3> QED  BY <2>2, <3>1 DEF RWGoes, EndCall
  <2>3. CASE pc[r] \notin RWLambda
    BY <2>3 DEF RWGoes, Advance
  <2> QED  BY <2>1, <2>2, <2>3
<1>2. x \in RWLabels /\ pc'[r] = x
  BY <1>1, <1>q DEF RWLabels, RWLambda, RWAfter, RWOutside, RWLast
<1>3. x \in RWHeld <=> pc[r] \in {"post_rts", "handle_rts"} \cup (RWHeld \ {"poll_write", "handle_fin"})
  BY <1>1, <1>q DEF RWLabels, RWLambda, RWAfter, RWOutside, RWLast, RWHeld
<1>4. pc' \in [Ranks -> RWLabels] /\ pc'[Peer(r)] = pc[Peer(r)]
  BY <1>1, <1>2, <1>q
<1> QED  BY <1>2, <1>3, <1>4

\* What the steps of ibv_pingpong_rdv_write.cpp do to the heap.
LEMMA RWHeapSteps ==
    ASSUME NEW r \in Ranks, RW!RankStep(r), IsFun(heap)
    PROVE  \/ UNCHANGED <<pc, heap>>
           \/ RWGoes(r) /\ HeapStep(r, {"post_rts", "handle_rts"}, {"handle_rtr"}, {"poll_write", "handle_fin"})
<1>p. ASSUME pc[r] \in RWLambda, RW!Proceed(r, RW!Body(r))  PROVE RWGoes(r)
  BY <1>p, RWProceeds
<1>a. ASSUME RW!RdvAbort(r)  PROVE UNCHANGED <<pc, heap>>
  BY <1>a DEF RW!RdvAbort, RW!Abort, RW!benchVars, RW!rdvVars
<1>1. CASE RW!Setup(r)
  <2>1. CASE RW!Abort(r)
    BY <1>1, <2>1 DEF RW!Setup, RW!Abort, RW!benchVars, RW!rdvVars
  <2>2. CASE ~ RW!Abort(r)
    <3>1. pc[r] = "setup" /\ RW!Goto(r, RW!Body(r)[1]) /\ UNCHANGED heap
      BY <1>1, <2>2 DEF RW!Setup, RW!PostRecvs, RW!At, RW!rdvVars
    <3>2. RW!Body(r)[1] = IF r = 0 THEN "fill" ELSE "recv_rts"
      <4>1. /\ RW!Sender[1] = "fill" /\ RW!Receiver[1] = "recv_rts"
            /\ Len(RW!Sender) \in Nat \ {0} /\ Len(RW!Receiver) \in Nat \ {0}
            /\ RW!Sender \in Seq(RWLambda) /\ RW!Receiver \in Seq(RWLambda)
        BY DEF RW!Sender, RW!Receiver, RWLambda
      <4>2. /\ (RW!Sender \o RW!Receiver)[1] = "fill"
            /\ (RW!Receiver \o RW!Sender)[1] = "recv_rts"
        BY <4>1, Concatenated
      <4> QED  BY <4>2 DEF RW!Body, RW!Halves
    <3>3. <<pc[r], RW!Body(r)[1]>> \in RWOutside(r)
      BY <3>1, <3>2 DEF RWOutside
    <3>4. RWGoes(r)
      BY <3>1, <3>3 DEF RW!Goto, Advance, RWGoes
    <3> QED  BY <3>1, <3>4 DEF HeapStep
  <2> QED  BY <2>1, <2>2
<1>2. CASE RW!FillPayload(r)
  <2>1. pc[r] = "fill" /\ RW!Proceed(r, RW!Body(r)) /\ UNCHANGED heap
    BY <1>2 DEF RW!FillPayload, RW!FillSendBuf, RW!At, RW!rdvVars
  <2> QED  BY <2>1, <1>p DEF RWLambda, HeapStep
<1>3. CASE RW!PostRTS(r)
  <2>1. CASE RW!RdvAbort(r)
    BY <2>1, <1>a
  <2>2. CASE ~ RW!RdvAbort(r)
    <3>1. PICK c, fields : /\ pc[r] = "post_rts" /\ RW!Proceed(r, RW!Body(r))
                           /\ RW!Malloc(r, c, fields)
      BY <1>3, <2>2 DEF RW!PostRTS, RW!At
    <3>2. heap' = [heap EXCEPT ![r] = Grown(heap[r], c, fields)]
      BY <3>1 DEF RW!Malloc, Grown
    <3>3. RWGoes(r)
      BY <3>1, <1>p DEF RWLambda
    <3>4. HeapStep(r, {"post_rts", "handle_rts"}, {"handle_rtr"}, {"poll_write", "handle_fin"})
      BY <3>1, <3>2 DEF HeapStep
    <3> QED  BY <3>3, <3>4
  <2> QED  BY <2>1, <2>2
<1>4. CASE RW!PollControl(r)
  <2>2. CASE RW!Abort(r)
    BY <1>4, <2>2 DEF RW!PollControl, RW!Abort, RW!benchVars, RW!rdvVars
  <2>3. CASE ~ RW!Abort(r)
    <3>1. /\ pc[r] \in {"poll_rts", "poll_rtr", "poll_fin"} /\ RW!Proceed(r, RW!Body(r))
          /\ UNCHANGED heap
      BY <1>4, <2>3 DEF RW!PollControl, RW!AwaitSend, RW!AtAny, RW!rdvVars
    <3> QED  BY <3>1, <1>p DEF RWLambda, HeapStep
  <2> QED  BY <2>2, <2>3
<1>5. CASE RW!PollRecv(r)
  <2>2. CASE RW!RdvAbort(r)
    BY <2>2, <1>a
  <2>3. CASE ~ RW!RdvAbort(r)
    <3>1. /\ pc[r] \in {"recv_rts", "recv_rtr", "recv_fin"} /\ RW!Proceed(r, RW!Body(r))
          /\ UNCHANGED heap
      BY <1>5, <2>3 DEF RW!PollRecv, RW!TakeRecv, RW!AtAny, RW!rdvVars
    <3> QED  BY <3>1, <1>p DEF RWLambda, HeapStep
  <2> QED  BY <2>2, <2>3
<1>6. CASE RW!HandleRTS(r)
  <2>1. CASE RW!RdvAbort(r)
    BY <2>1, <1>a
  <2>2. CASE ~ RW!RdvAbort(r)
    <3>1. PICK c, fields : /\ pc[r] = "handle_rts" /\ RW!Proceed(r, RW!Body(r))
                           /\ RW!Malloc(r, c, fields)
      BY <1>6, <2>2 DEF RW!HandleRTS, RW!At
    <3>2. heap' = [heap EXCEPT ![r] = Grown(heap[r], c, fields)]
      BY <3>1 DEF RW!Malloc, Grown
    <3>3. RWGoes(r)
      BY <3>1, <1>p DEF RWLambda
    <3>4. HeapStep(r, {"post_rts", "handle_rts"}, {"handle_rtr"}, {"poll_write", "handle_fin"})
      BY <3>1, <3>2 DEF HeapStep
    <3> QED  BY <3>3, <3>4
  <2> QED  BY <2>1, <2>2
<1>7. CASE RW!HandleRTR(r)
  <2>1. CASE RW!RdvAbort(r)
    BY <2>1, <1>a
  <2>2. CASE ~ RW!RdvAbort(r)
    <3>1. /\ pc[r] = "handle_rtr" /\ RW!Proceed(r, RW!Body(r))
          /\ \E c, x : c \in DOMAIN heap[r] /\ heap' = [heap EXCEPT ![r][c].recv_ctx = x]
      BY <1>7, <2>2 DEF RW!HandleRTR, RW!At, RW!Live
    <3>3. RWGoes(r)
      BY <3>1, <1>p DEF RWLambda
    <3>4. HeapStep(r, {"post_rts", "handle_rts"}, {"handle_rtr"}, {"poll_write", "handle_fin"})
      BY <3>1 DEF HeapStep
    <3> QED  BY <3>3, <3>4
  <2> QED  BY <2>1, <2>2
<1>8. CASE RW!HandleWriteCompletion(r)
  <2>1. CASE RW!RdvAbort(r)
    BY <2>1, <1>a
  <2>2. CASE ~ RW!RdvAbort(r)
    <3>1. /\ pc[r] = "poll_write" /\ RW!Proceed(r, RW!Body(r))
          /\ \E c : c \in DOMAIN heap[r] /\ RW!Free(r, c)
      BY <1>8, <2>2 DEF RW!HandleWriteCompletion, RW!At, RW!Live
    <3>2. \E c \in DOMAIN heap[r] : heap' = [heap EXCEPT ![r] = Shrunk(heap[r], c)]
      BY <3>1 DEF RW!Free, Shrunk
    <3>3. RWGoes(r)
      BY <3>1, <1>p DEF RWLambda
    <3>4. HeapStep(r, {"post_rts", "handle_rts"}, {"handle_rtr"}, {"poll_write", "handle_fin"})
      BY <3>1, <3>2 DEF HeapStep
    <3> QED  BY <3>3, <3>4
  <2> QED  BY <2>1, <2>2
<1>9. CASE RW!HandleFIN(r)
  <2>1. CASE RW!RdvAbort(r)
    BY <2>1, <1>a
  <2>2. CASE ~ RW!RdvAbort(r)
    <3>1. /\ pc[r] = "handle_fin" /\ RW!Proceed(r, RW!Body(r))
          /\ \E c : c \in DOMAIN heap[r] /\ RW!Free(r, c)
      BY <1>9, <2>2 DEF RW!HandleFIN, RW!At, RW!Live
    <3>2. \E c \in DOMAIN heap[r] : heap' = [heap EXCEPT ![r] = Shrunk(heap[r], c)]
      BY <3>1 DEF RW!Free, Shrunk
    <3>3. RWGoes(r)
      BY <3>1, <1>p DEF RWLambda
    <3>4. HeapStep(r, {"post_rts", "handle_rts"}, {"handle_rtr"}, {"poll_write", "handle_fin"})
      BY <3>1, <3>2 DEF HeapStep
    <3> QED  BY <3>3, <3>4
  <2> QED  BY <2>1, <2>2
<1>10. CASE RW!Check(r)
  <2>2. CASE RW!Abort(r)
    BY <1>10, <2>2 DEF RW!Check, RW!Abort, RW!benchVars, RW!rdvVars
  <2>3. CASE ~ RW!Abort(r)
    <3>1. pc[r] = "check" /\ RW!Proceed(r, RW!Body(r)) /\ UNCHANGED heap
      BY <1>10, <2>3 DEF RW!Check, RW!CheckData, RW!At, RW!rdvVars
    <3> QED  BY <3>1, <1>p DEF RWLambda, HeapStep
  <2> QED  BY <2>2, <2>3
<1>11. CASE RW!Finalize(r)
  <2>1. pc[r] = "close" /\ Advance(r, "exited") /\ UNCHANGED heap
    BY <1>11 DEF RW!Finalize, RW!Exit, RW!Goto, RW!At, RW!rdvVars, Advance
  <2>2. RWGoes(r)
    BY <2>1 DEF RWGoes, RWOutside
  <2> QED  BY <2>1, <2>2 DEF HeapStep
<1> QED  BY <1>1, <1>2, <1>3, <1>4, <1>5, <1>6, <1>7, <1>8, <1>9, <1>10, <1>11 DEF RW!RankStep

\* The labels of ibv_pingpong_rdv_read.cpp at which a rank has a context.
RRHeld == {"poll_rts", "recv_fin", "handle_fin", "poll_read"}

\* A rank of ibv_pingpong_rdv_read.cpp has a context exactly from the moment
\* a message is announced to the moment it is told that the message arrived.
RRContexts ==
    /\ pc \in [Ranks -> RRLabels] /\ IsFun(heap)
    /\ \A r \in Ranks : Holds(r, RRHeld)

\* Which steps lead to a label where the rank has a context.
LEMMA RRMoves ==
    ASSUME NEW r \in Ranks, pc \in [Ranks -> RRLabels], RRGoes(r)
    PROVE  /\ pc' \in [Ranks -> RRLabels] /\ pc'[Peer(r)] = pc[Peer(r)]
           /\ pc'[r] \in RRHeld <=>
                  pc[r] \in {"post_rts", "handle_rts"} \cup (RRHeld \ {"poll_read", "handle_fin"})
<1>q. Peer(r) \in Ranks /\ Peer(r) # r /\ pc[r] \in RRLabels
  BY PeerFacts
<1>1. PICK x : /\ pc' = [pc EXCEPT ![r] = x]
               /\ \/ pc[r] \in RRLambda /\ pc[r] # RRLast(r) /\ x = RRAfter(r, pc[r])
                  \/ pc[r] = RRLast(r) /\ x \in {"fill", "recv_rts", "close"}
                  \/ <<pc[r], x>> \in RROutside(r)
  <2>1. CASE pc[r] \in RRLambda /\ pc[r] # RRLast(r)
    <3>1. \A y : <<pc[r], y>> \notin RROutside(r)
      BY <2>1 DEF RRLambda, RROutside
    <3> QED  BY <2>1, <3>1 DEF RRGoes, Advance
  <2>2. CASE pc[r] = RRLast(r)
    <3>1. pc[r] \in RRLambda /\ \A y : <<pc[r], y>> \notin RROutside(r)
      BY <2>2 DEF RRLambda, RROutside, RRLast
    <3> QED  BY <2>2, <3>1 DEF RRGoes, EndCall
  <2>3. CASE pc[r] \notin RRLambda
    BY <2>3 DEF RRGoes, Advance
  <2> QED  BY <2>1, <2>2, <2>3
<1>2. x \in RRLabels /\ pc'[r] = x
  BY <1>1, <1>q DEF RRLabels, RRLambda, RRAfter, RROutside, RRLast
<1>3. x \in RRHeld <=> pc[r] \in {"post_rts", "handle_rts"} \cup (RRHeld \ {"poll_read", "handle_fin"})
  BY <1>1, <1>q DEF RRLabels, RRLambda, RRAfter, RROutside, RRLast, RRHeld
<1>4. pc' \in [Ranks -> RRLabels] /\ pc'[Peer(r)] = pc[Peer(r)]
  BY <1>1, <1>2, <1>q
<1> QED  BY <1>2, <1>3, <1>4

\* What the steps of ibv_pingpong_rdv_read.cpp do to the heap.
LEMMA RRHeapSteps ==
    ASSUME NEW r \in Ranks, RR!RankStep(r), IsFun(heap)
    PROVE  \/ UNCHANGED <<pc, heap>>
           \/ RRGoes(r) /\ HeapStep(r, {"post_rts", "handle_rts"}, {}, {"poll_read", "handle_fin"})
<1>p. ASSUME pc[r] \in RRLambda, RR!Proceed(r, RR!Body(r))  PROVE RRGoes(r)
  BY <1>p, RRProceeds
<1>a. ASSUME RR!RdvAbort(r)  PROVE UNCHANGED <<pc, heap>>
  BY <1>a DEF RR!RdvAbort, RR!Abort, RR!benchVars, RR!rdvVars
<1>1. CASE RR!Setup(r)
  <2>1. CASE RR!Abort(r)
    BY <1>1, <2>1 DEF RR!Setup, RR!Abort, RR!benchVars, RR!rdvVars
  <2>2. CASE ~ RR!Abort(r)
    <3>1. pc[r] = "setup" /\ RR!Goto(r, RR!Body(r)[1]) /\ UNCHANGED heap
      BY <1>1, <2>2 DEF RR!Setup, RR!PostRecvs, RR!At, RR!rdvVars
    <3>2. RR!Body(r)[1] = IF r = 0 THEN "fill" ELSE "recv_rts"
      <4>1. /\ RR!Sender[1] = "fill" /\ RR!Receiver[1] = "recv_rts"
            /\ Len(RR!Sender) \in Nat \ {0} /\ Len(RR!Receiver) \in Nat \ {0}
            /\ RR!Sender \in Seq(RRLambda) /\ RR!Receiver \in Seq(RRLambda)
        BY DEF RR!Sender, RR!Receiver, RRLambda
      <4>2. /\ (RR!Sender \o RR!Receiver)[1] = "fill"
            /\ (RR!Receiver \o RR!Sender)[1] = "recv_rts"
        BY <4>1, Concatenated
      <4> QED  BY <4>2 DEF RR!Body, RR!Halves
    <3>3. <<pc[r], RR!Body(r)[1]>> \in RROutside(r)
      BY <3>1, <3>2 DEF RROutside
    <3>4. RRGoes(r)
      BY <3>1, <3>3 DEF RR!Goto, Advance, RRGoes
    <3> QED  BY <3>1, <3>4 DEF HeapStep
  <2> QED  BY <2>1, <2>2
<1>2. CASE RR!FillPayload(r)
  <2>1. pc[r] = "fill" /\ RR!Proceed(r, RR!Body(r)) /\ UNCHANGED heap
    BY <1>2 DEF RR!FillPayload, RR!FillSendBuf, RR!At, RR!rdvVars
  <2> QED  BY <2>1, <1>p DEF RRLambda, HeapStep
<1>3. CASE RR!PostRTS(r)
  <2>1. CASE RR!RdvAbort(r)
    BY <2>1, <1>a
  <2>2. CASE ~ RR!RdvAbort(r)
    <3>1. PICK c, fields : /\ pc[r] = "post_rts" /\ RR!Proceed(r, RR!Body(r))
                           /\ RR!Malloc(r, c, fields)
      BY <1>3, <2>2 DEF RR!PostRTS, RR!At
    <3>2. heap' = [heap EXCEPT ![r] = Grown(heap[r], c, fields)]
      BY <3>1 DEF RR!Malloc, Grown
    <3>3. RRGoes(r)
      BY <3>1, <1>p DEF RRLambda
    <3>4. HeapStep(r, {"post_rts", "handle_rts"}, {}, {"poll_read", "handle_fin"})
      BY <3>1, <3>2 DEF HeapStep
    <3> QED  BY <3>3, <3>4
  <2> QED  BY <2>1, <2>2
<1>4. CASE RR!PollControl(r)
  <2>2. CASE RR!Abort(r)
    BY <1>4, <2>2 DEF RR!PollControl, RR!Abort, RR!benchVars, RR!rdvVars
  <2>3. CASE ~ RR!Abort(r)
    <3>1. /\ pc[r] \in {"poll_rts", "poll_fin"} /\ RR!Proceed(r, RR!Body(r))
          /\ UNCHANGED heap
      BY <1>4, <2>3 DEF RR!PollControl, RR!AwaitSend, RR!AtAny, RR!rdvVars
    <3> QED  BY <3>1, <1>p DEF RRLambda, HeapStep
  <2> QED  BY <2>2, <2>3
<1>5. CASE RR!PollRecv(r)
  <2>2. CASE RR!RdvAbort(r)
    BY <2>2, <1>a
  <2>3. CASE ~ RR!RdvAbort(r)
    <3>1. /\ pc[r] \in {"recv_rts", "recv_fin"} /\ RR!Proceed(r, RR!Body(r))
          /\ UNCHANGED heap
      BY <1>5, <2>3 DEF RR!PollRecv, RR!TakeRecv, RR!AtAny, RR!rdvVars
    <3> QED  BY <3>1, <1>p DEF RRLambda, HeapStep
  <2> QED  BY <2>2, <2>3
<1>6. CASE RR!HandleRTS(r)
  <2>1. CASE RR!RdvAbort(r)
    BY <2>1, <1>a
  <2>2. CASE ~ RR!RdvAbort(r)
    <3>1. PICK c, fields : /\ pc[r] = "handle_rts" /\ RR!Proceed(r, RR!Body(r))
                           /\ RR!Malloc(r, c, fields)
      BY <1>6, <2>2 DEF RR!HandleRTS, RR!At
    <3>2. heap' = [heap EXCEPT ![r] = Grown(heap[r], c, fields)]
      BY <3>1 DEF RR!Malloc, Grown
    <3>3. RRGoes(r)
      BY <3>1, <1>p DEF RRLambda
    <3>4. HeapStep(r, {"post_rts", "handle_rts"}, {}, {"poll_read", "handle_fin"})
      BY <3>1, <3>2 DEF HeapStep
    <3> QED  BY <3>3, <3>4
  <2> QED  BY <2>1, <2>2
<1>7. CASE RR!HandleReadCompletion(r)
  <2>1. CASE RR!RdvAbort(r)
    BY <2>1, <1>a
  <2>2. CASE ~ RR!RdvAbort(r)
    <3>1. /\ pc[r] = "poll_read" /\ RR!Proceed(r, RR!Body(r))
          /\ \E c : c \in DOMAIN heap[r] /\ RR!Free(r, c)
      BY <1>7, <2>2 DEF RR!HandleReadCompletion, RR!At, RR!Live
    <3>2. \E c \in DOMAIN heap[r] : heap' = [heap EXCEPT ![r] = Shrunk(heap[r], c)]
      BY <3>1 DEF RR!Free, Shrunk
    <3>3. RRGoes(r)
      BY <3>1, <1>p DEF RRLambda
    <3>4. HeapStep(r, {"post_rts", "handle_rts"}, {}, {"poll_read", "handle_fin"})
      BY <3>1, <3>2 DEF HeapStep
    <3> QED  BY <3>3, <3>4
  <2> QED  BY <2>1, <2>2
<1>8. CASE RR!HandleFIN(r)
  <2>1. CASE RR!RdvAbort(r)
    BY <2>1, <1>a
  <2>2. CASE ~ RR!RdvAbort(r)
    <3>1. /\ pc[r] = "handle_fin" /\ RR!Proceed(r, RR!Body(r))
          /\ \E c : c \in DOMAIN heap[r] /\ RR!Free(r, c)
      BY <1>8, <2>2 DEF RR!HandleFIN, RR!At, RR!Live
    <3>2. \E c \in DOMAIN heap[r] : heap' = [heap EXCEPT ![r] = Shrunk(heap[r], c)]
      BY <3>1 DEF RR!Free, Shrunk
    <3>3. RRGoes(r)
      BY <3>1, <1>p DEF RRLambda
    <3>4. HeapStep(r, {"post_rts", "handle_rts"}, {}, {"poll_read", "handle_fin"})
      BY <3>1, <3>2 DEF HeapStep
    <3> QED  BY <3>3, <3>4
  <2> QED  BY <2>1, <2>2
<1>9. CASE RR!Check(r)
  <2>2. CASE RR!Abort(r)
    BY <1>9, <2>2 DEF RR!Check, RR!Abort, RR!benchVars, RR!rdvVars
  <2>3. CASE ~ RR!Abort(r)
    <3>1. pc[r] = "check" /\ RR!Proceed(r, RR!Body(r)) /\ UNCHANGED heap
      BY <1>9, <2>3 DEF RR!Check, RR!CheckData, RR!At, RR!rdvVars
    <3> QED  BY <3>1, <1>p DEF RRLambda, HeapStep
  <2> QED  BY <2>2, <2>3
<1>10. CASE RR!Finalize(r)
  <2>1. pc[r] = "close" /\ Advance(r, "exited") /\ UNCHANGED heap
    BY <1>10 DEF RR!Finalize, RR!Exit, RR!Goto, RR!At, RR!rdvVars, Advance
  <2>2. RRGoes(r)
    BY <2>1 DEF RRGoes, RROutside
  <2> QED  BY <2>1, <2>2 DEF HeapStep
<1> QED  BY <1>1, <1>2, <1>3, <1>4, <1>5, <1>6, <1>7, <1>8, <1>9, <1>10 DEF RR!RankStep

----------------------------------------------------------------------------
\* What each step of ibv_pingpong_rdv_write_imm.cpp does.

\* What a step of rank r leaves in its archive.
ArchiveBecomes(r, t) ==
    /\ IsFun(recv_ctx_archive') /\ recv_ctx_archive'[r] = t
    /\ recv_ctx_archive'[Peer(r)] = recv_ctx_archive[Peer(r)]

\* What a step of rank r of ibv_pingpong_rdv_write_imm.cpp does, if it is not its end.
RIEffect(r) ==
    LET size == call[r].size
        got == mem[r][wc[r].wr_id]
        table == recv_ctx_archive[r]
    IN \/ /\ pc[r] \in {"setup", "check", "close"}
          /\ Becomes(r, mem[r], sq[r], send_cq[r], recv_cq[r], heap[r], wc[r])
          /\ ArchiveBecomes(r, table)
       \/ /\ pc[r] = "fill"
          /\ Becomes(r, IF touch_data THEN Store(mem[r], 3, Fill(r, size)) ELSE mem[r],
                     sq[r], send_cq[r], recv_cq[r], heap[r], wc[r])
          /\ ArchiveBecomes(r, table)
       \/ /\ pc[r] = "post_rts"
          /\ \E c \in Ctx :
                 Becomes(r, [mem[r] EXCEPT ![0] = [v |-> "RTS", t |-> call[r].n,
                                                   send_ctx |-> c, size |-> size]],
                         Append(sq[r], Request("SEND_IMM", 0, 1, 0, "RTS", 0)),
                         send_cq[r], recv_cq[r],
                         Grown(heap[r], c, [kind |-> "send", buf |-> 3, size |-> size]), wc[r])
          /\ ArchiveBecomes(r, table)
       \/ /\ pc[r] \in {"poll_rts", "poll_rtr", "poll_write"} /\ send_cq[r] # <<>>
          /\ Head(send_cq[r]).status = "SUCCESS"
          /\ Becomes(r, mem[r], sq[r], Tail(send_cq[r]), recv_cq[r], heap[r], wc[r])
          /\ ArchiveBecomes(r, table)
       \/ /\ pc[r] \in {"recv_rts", "recv_rtr", "recv_write"} /\ recv_cq[r] # <<>>
          /\ Becomes(r, mem[r], sq[r], send_cq[r], Tail(recv_cq[r]), heap[r], Head(recv_cq[r]))
          /\ ArchiveBecomes(r, table)
       \/ /\ pc[r] = "handle_rts"
          /\ \E c \in Ctx :
                 /\ RWI!PutKey(table, c) # -1
                 /\ Becomes(r, [mem[r] EXCEPT ![1] =
                                    [v |-> "RTR", t |-> call[r].n, send_ctx |-> got.send_ctx,
                                     remote_addr |-> 3 + max_msg_size,
                                     recv_ctx_key |-> RWI!PutKey(table, c)]],
                            Append(sq[r], Request("SEND_IMM", 1, 1, 0, "RTR", 0)),
                            send_cq[r], recv_cq[r],
                            Grown(heap[r], c, [kind |-> "recv", buf |-> 3 + max_msg_size,
                                               size |-> size]), wc[r])
                 /\ ArchiveBecomes(r, [table EXCEPT ![RWI!PutKey(table, c)] = c])
       \/ /\ pc[r] = "handle_rtr" /\ wc[r].opcode = "RECV" /\ got.v = "RTR"
          /\ got.send_ctx \in DOMAIN heap[r]
          /\ Becomes(r, mem[r],
                     Append(sq[r], Request("WRITE_IMM", heap[r][got.send_ctx].buf,
                                           heap[r][got.send_ctx].size, got.remote_addr,
                                           got.recv_ctx_key, 0)),
                     send_cq[r], recv_cq[r], Shrunk(heap[r], got.send_ctx), wc[r])
          /\ ArchiveBecomes(r, table)
       \/ /\ pc[r] = "handle_write" /\ wc[r].opcode = "RECV_RDMA_WITH_IMM"
          /\ table[wc[r].imm] \in DOMAIN heap[r]
          /\ Becomes(r, mem[r], sq[r], send_cq[r], recv_cq[r],
                     Shrunk(heap[r], table[wc[r].imm]), wc[r])
          /\ ArchiveBecomes(r, [table EXCEPT ![wc[r].imm] = LCM_ARCHIVE_EMPTY])

\* The steps of ibv_pingpong_rdv_write_imm.cpp have these effects.
LEMMA RISteps ==
    ASSUME NEW r \in Ranks, RdvFuns, IsFun(recv_ctx_archive), Receives(r, 2),
           posted_recv_num[r] \in 0 .. MaxRecv, config.inline_size = 0,
           call[r].size \in Nat \ {0},
           \A c \in DOMAIN heap[r] : heap[r][c].size \in Nat \ {0},
           RWI!RankStep(r)
    PROVE  /\ Receives(r, 2)' /\ UNCHANGED config
           /\ \/ /\ UNCHANGED <<pc, call, recv_ctx_archive>>
                 /\ Becomes(r, mem[r], sq[r], send_cq[r], recv_cq[r], heap[r], wc[r])
              \/ RIGoes(r) /\ RIEffect(r)
<1> DEFINE size == call[r].size
<1>f. RdvFuns /\ AreFuns /\ IsFun(mem) /\ IsFun(sq) /\ IsFun(srq) /\ IsFun(send_cq) /\ IsFun(recv_cq)
      /\ IsFun(heap) /\ IsFun(wc) /\ Peer(r) \in Ranks /\ Peer(r) # r
  BY PeerFacts DEF RdvFuns, AreFuns
<1>w. \A op, buf, raddr, imm, wr_id : \A len \in Nat \ {0} :
          RWI!WorkRequest(r, op, buf, len, raddr, imm, wr_id) =
              Request(op, buf, len, raddr, imm, wr_id)
  <2> TAKE op, buf, raddr, imm, wr_id
  <2> TAKE len \in Nat \ {0}
  <2>1. RWI!WorkRequest(r, op, buf, len, raddr, imm, wr_id) =
        WorkRequest(r, op, buf, len, raddr, imm, wr_id)
    BY DEF RWI!WorkRequest, WorkRequest, RWI!Load, Load
  <2> QED  BY <2>1, NothingInline
<1>m. RWI!max_msg_size = max_msg_size /\ RWI!touch_data = touch_data
  BY DEF RWI!max_msg_size, max_msg_size, RWI!touch_data, touch_data
<1>s. ASSUME UNCHANGED recv_ctx_archive  PROVE ArchiveBecomes(r, recv_ctx_archive[r])
  BY <1>s DEF ArchiveBecomes, IsFun
<1>a. ASSUME RWI!Abort(r), UNCHANGED <<heap, wc, recv_ctx_archive>>
      PROVE  /\ Receives(r, 2)' /\ UNCHANGED config
             /\ UNCHANGED <<pc, call, recv_ctx_archive>>
             /\ Becomes(r, mem[r], sq[r], send_cq[r], recv_cq[r], heap[r], wc[r])
  <2>1. UNCHANGED <<mem, sq, srq, send_cq, recv_cq, heap, wc, config, pc, call>>
    BY <1>a DEF RWI!Abort, RWI!benchVars
  <2>2. Becomes(r, mem[r], sq[r], send_cq[r], recv_cq[r], heap[r], wc[r])
    BY <2>1, RdvHalts
  <2> QED  BY <1>a, <2>1, <2>2 DEF Receives
<1>i. ASSUME RWI!ImmAbort(r)
      PROVE  RWI!Abort(r) /\ UNCHANGED <<heap, wc, recv_ctx_archive>>
  BY <1>i DEF RWI!ImmAbort, RWI!RdvAbort, RWI!rdvVars
<1>p. ASSUME pc[r] \in RILambda, RWI!Proceed(r, RWI!Body(r))  PROVE RIGoes(r)
  BY <1>p, RIProceeds
<1>1. CASE RWI!Setup(r)
  <2>1. CASE RWI!Abort(r) /\ UNCHANGED <<heap, wc, recv_ctx_archive>>
    BY <2>1, <1>a
  <2>2. CASE ~ RWI!Abort(r)
    <3>1. /\ pc[r] = "setup" /\ RWI!Goto(r, RWI!Body(r)[1])
          /\ RWI!checkAndPostRecvs(r, posted_recv_num[r], 2, 1)
          /\ UNCHANGED <<mem, sq, send_cq, recv_cq, config, heap, wc, recv_ctx_archive>>
      BY <1>1, <2>2 DEF RWI!Setup, RWI!PostRecvs, RWI!At, RWI!control_recv_buf, RWI!rdvVars
    <3>2. checkAndPostRecvs(r, posted_recv_num[r], 2, 1)
      BY <3>1 DEF RWI!checkAndPostRecvs, checkAndPostRecvs, RWI!Refill, Refill
    <3>3. Receives(r, 2)' /\ srq'[Peer(r)] = srq[Peer(r)] /\ IsFun(srq')
      BY <3>2, <1>f, RefillNat, ReceivesPosted
    <3>4. Becomes(r, mem[r], sq[r], send_cq[r], recv_cq[r], heap[r], wc[r])
      BY <3>1, <3>3, <1>f DEF Becomes, AreFuns
    <3>5. RWI!Body(r)[1] = IF r = 0 THEN "fill" ELSE "recv_rts"
      <4>1. RWI!Sender[1] = "fill" /\ RWI!Receiver[1] = "recv_rts"
            /\ Len(RWI!Sender) = 6 /\ Len(RWI!Receiver) = 6
            /\ RWI!Sender \in Seq(RILambda) /\ RWI!Receiver \in Seq(RILambda)
        BY DEF RWI!Sender, RWI!Receiver, RILambda
      <4>2. (RWI!Sender \o RWI!Receiver)[1] = "fill" /\ (RWI!Receiver \o RWI!Sender)[1] = "recv_rts"
        BY <4>1, Concatenated
      <4> QED  BY <4>2 DEF RWI!Body, RWI!Halves
    <3>6. RIGoes(r)
      <4>1. <<pc[r], RWI!Body(r)[1]>> \in RIOutside(r)
        BY <3>1, <3>5 DEF RIOutside
      <4>2. Advance(r, RWI!Body(r)[1])
        BY <3>1 DEF RWI!Goto, Advance
      <4> QED  BY <4>1, <4>2 DEF RIGoes
    <3>7. ArchiveBecomes(r, recv_ctx_archive[r])
      BY <3>1, <1>s
    <3> QED  BY <3>1, <3>3, <3>4, <3>6, <3>7 DEF RIEffect
  <2> QED  BY <1>1, <2>1, <2>2 DEF RWI!Setup, RWI!rdvVars
<1>2. CASE RWI!FillPayload(r)
  <2>1. /\ pc[r] = "fill" /\ RWI!Proceed(r, RWI!Body(r))
        /\ mem' = IF touch_data THEN [mem EXCEPT ![r] = Store(mem[r], 3, Fill(r, size))] ELSE mem
        /\ UNCHANGED <<sq, srq, send_cq, recv_cq, config, heap, wc, recv_ctx_archive>>
    BY <1>2, <1>m DEF RWI!FillPayload, RWI!FillSendBuf, RWI!At, RWI!write_buffer, RWI!send_buf,
         RWI!Store, Store, RWI!Fill, Fill, RWI!Value, Value, RWI!UnchangedByPost, RWI!rdvVars
  <2>2. /\ IsFun(mem') /\ mem'[Peer(r)] = mem[Peer(r)]
        /\ mem'[r] = IF touch_data THEN Store(mem[r], 3, Fill(r, size)) ELSE mem[r]
    BY <2>1, <1>f DEF IsFun
  <2>3. Becomes(r, IF touch_data THEN Store(mem[r], 3, Fill(r, size)) ELSE mem[r],
                     sq[r], send_cq[r], recv_cq[r], heap[r], wc[r])
    BY <2>1, <2>2, <1>f DEF Becomes, AreFuns
  <2>4. RIGoes(r)
    BY <2>1, <1>p DEF RILambda
  <2>5. ArchiveBecomes(r, recv_ctx_archive[r])
    BY <2>1, <1>s
  <2> QED  BY <2>1, <2>3, <2>4, <2>5 DEF RIEffect, Receives
<1>3. CASE RWI!PostRTS(r)
  <2>1. CASE RWI!ImmAbort(r)
    BY <2>1, <1>a, <1>i
  <2>2. CASE ~ RWI!ImmAbort(r)
    <3> DEFINE msg(c) == [v |-> "RTS", t |-> call[r].n, send_ctx |-> c, size |-> size]
               fields == [kind |-> "send", buf |-> 3, size |-> size]
               w == Request("SEND_IMM", 0, 1, 0, "RTS", 0)
    <3>1. PICK c \in Ctx : /\ pc[r] = "post_rts" /\ RWI!Proceed(r, RWI!Body(r))
                   /\ RWI!Malloc(r, c, fields)
                   /\ RWI!PostControl(r, 0, msg(c), "RTS", 0)
                   /\ UNCHANGED <<srq, send_cq, recv_cq, config, wc, recv_ctx_archive>>
      BY <1>3, <2>2 DEF RWI!PostRTS, RWI!At, RWI!rtsMsg, RWI!send_buf, RWI!UnchangedByHandler
    <3>2. sq' = [sq EXCEPT ![r] = Append(sq[r], w)]
      <4>1. RWI!WorkRequest(r, "SEND_IMM", 0, 1, 0, "RTS", 0) = w
        BY <1>w
      <4> QED  BY <3>1, <4>1 DEF RWI!PostControl, RWI!postSendImm, RWI!Post
    <3>3. heap' = [heap EXCEPT ![r] = Grown(heap[r], c, fields)]
      BY <3>1 DEF RWI!Malloc, Grown
    <3>4. mem' = [mem EXCEPT ![r] = [mem[r] EXCEPT ![0] = msg(c)]]
      BY <3>1, <1>f DEF RWI!PostControl
    <3>5. Becomes(r, [mem[r] EXCEPT ![0] = msg(c)], Append(sq[r], w), send_cq[r], recv_cq[r],
                  Grown(heap[r], c, fields), wc[r])
      <4> HIDE DEF msg, fields, w
      <4>1. IsFun(mem') /\ mem'[r] = [mem[r] EXCEPT ![0] = msg(c)] /\ mem'[Peer(r)] = mem[Peer(r)]
        BY <3>4, <1>f DEF IsFun
      <4>2. IsFun(sq') /\ sq'[r] = Append(sq[r], w) /\ sq'[Peer(r)] = sq[Peer(r)]
        BY <3>2, <1>f DEF IsFun
      <4>3. /\ IsFun(heap') /\ heap'[r] = Grown(heap[r], c, fields)
            /\ heap'[Peer(r)] = heap[Peer(r)]
        BY <3>3, <1>f DEF IsFun
      <4> QED  BY <3>1, <4>1, <4>2, <4>3, <1>f DEF Becomes, AreFuns
    <3>6. RIGoes(r)
      BY <3>1, <1>p DEF RILambda
    <3>7. ArchiveBecomes(r, recv_ctx_archive[r])
      BY <3>1, <1>s
    <3> QED  BY <3>1, <3>5, <3>6, <3>7 DEF RIEffect, Receives
  <2> QED  BY <2>1, <2>2
<1>4. CASE RWI!PollSend(r)
  <2>1. CASE RWI!Abort(r)
    BY <1>4, <2>1, <1>a DEF RWI!PollSend, RWI!rdvVars
  <2>2. CASE ~ RWI!Abort(r)
    <3>1. /\ pc[r] \in {"poll_rts", "poll_rtr", "poll_write"} /\ RWI!Proceed(r, RWI!Body(r))
          /\ send_cq[r] # <<>> /\ Head(send_cq[r]).status = "SUCCESS"
          /\ send_cq' = [send_cq EXCEPT ![r] = Tail(send_cq[r])]
          /\ UNCHANGED <<mem, sq, srq, recv_cq, config, heap, wc, recv_ctx_archive>>
      BY <1>4, <2>2 DEF RWI!PollSend, RWI!AwaitSend, RWI!At, RWI!AtAny, RWI!Succeeded,
                        RWI!pollSendCQ, RWI!rdvVars
    <3>2. /\ IsFun(send_cq') /\ send_cq'[r] = Tail(send_cq[r])
          /\ send_cq'[Peer(r)] = send_cq[Peer(r)]
      BY <3>1, <1>f DEF IsFun
    <3>3. Becomes(r, mem[r], sq[r], Tail(send_cq[r]), recv_cq[r], heap[r], wc[r])
      BY <3>1, <3>2, <1>f DEF Becomes, AreFuns
    <3>4. RIGoes(r)
      BY <3>1, <1>p DEF RILambda
    <3>5. ArchiveBecomes(r, recv_ctx_archive[r])
      BY <3>1, <1>s
    <3> QED  BY <3>1, <3>3, <3>4, <3>5 DEF RIEffect, Receives
  <2> QED  BY <2>1, <2>2
<1>5. CASE RWI!PollRecv(r)
  <2>1. CASE RWI!RdvAbort(r)
    BY <1>5, <2>1, <1>a DEF RWI!PollRecv, RWI!RdvAbort, RWI!rdvVars
  <2>2. CASE ~ RWI!RdvAbort(r)
    <3>1. /\ pc[r] \in {"recv_rts", "recv_rtr", "recv_write"} /\ RWI!Proceed(r, RWI!Body(r))
          /\ recv_cq[r] # <<>>
          /\ recv_cq' = [recv_cq EXCEPT ![r] = Tail(recv_cq[r])]
          /\ wc' = [wc EXCEPT ![r] = Head(recv_cq[r])]
          /\ RWI!checkAndPostRecvs(r, posted_recv_num[r] - 1, 2, 1)
          /\ UNCHANGED <<mem, sq, send_cq, config, heap, recv_ctx_archive>>
      BY <1>5, <2>2 DEF RWI!PollRecv, RWI!TakeRecv, RWI!AtAny, RWI!pollRecvCQ,
                        RWI!control_recv_buf
    <3>2. checkAndPostRecvs(r, posted_recv_num[r] - 1, 2, 1)
      BY <3>1 DEF RWI!checkAndPostRecvs, checkAndPostRecvs, RWI!Refill, Refill
    <3>3. Receives(r, 2)' /\ srq'[Peer(r)] = srq[Peer(r)] /\ IsFun(srq')
      BY <3>2, <1>f, RefillNat, ReceivesPosted
    <3>4. /\ IsFun(recv_cq') /\ recv_cq'[r] = Tail(recv_cq[r])
          /\ recv_cq'[Peer(r)] = recv_cq[Peer(r)]
      BY <3>1, <1>f DEF IsFun
    <3>5. IsFun(wc') /\ wc'[r] = Head(recv_cq[r]) /\ wc'[Peer(r)] = wc[Peer(r)]
      BY <3>1, <1>f DEF IsFun
    <3>6. Becomes(r, mem[r], sq[r], send_cq[r], Tail(recv_cq[r]), heap[r], Head(recv_cq[r]))
      BY <3>1, <3>3, <3>4, <3>5, <1>f DEF Becomes, AreFuns
    <3>7. RIGoes(r)
      BY <3>1, <1>p DEF RILambda
    <3>8. ArchiveBecomes(r, recv_ctx_archive[r])
      BY <3>1, <1>s
    <3> QED  BY <3>1, <3>3, <3>6, <3>7, <3>8 DEF RIEffect
  <2> QED  BY <2>1, <2>2
<1>6. CASE RWI!HandleRTS(r)
  <2>1. CASE RWI!ImmAbort(r)
    BY <2>1, <1>a, <1>i
  <2>2. CASE ~ RWI!ImmAbort(r)
    <3> DEFINE m == mem[r][wc[r].wr_id]
               fields == [kind |-> "recv", buf |-> 3 + max_msg_size, size |-> size]
               key(c) == RWI!PutKey(recv_ctx_archive[r], c)
               msg(c) == [v |-> "RTR", t |-> call[r].n, send_ctx |-> m.send_ctx,
                          remote_addr |-> 3 + max_msg_size, recv_ctx_key |-> key(c)]
               w == Request("SEND_IMM", 1, 1, 0, "RTR", 0)
    <3>1. PICK c \in Ctx : /\ pc[r] = "handle_rts" /\ RWI!Proceed(r, RWI!Body(r))
                   /\ key(c) # -1
                   /\ RWI!Malloc(r, c, fields)
                   /\ recv_ctx_archive' = [recv_ctx_archive EXCEPT ![r][key(c)] = c]
                   /\ RWI!PostControl(r, 1, msg(c), "RTR", 0)
                   /\ UNCHANGED <<srq, send_cq, recv_cq, config, wc>>
      BY <1>6, <2>2, <1>m DEF RWI!HandleRTS, RWI!At, RWI!rtrMsg, RWI!recv_buf, RWI!Received,
                        RWI!UnchangedByHandler
    <3>2. sq' = [sq EXCEPT ![r] = Append(sq[r], w)]
      <4>1. RWI!WorkRequest(r, "SEND_IMM", 1, 1, 0, "RTR", 0) = w
        BY <1>w
      <4> QED  BY <3>1, <4>1 DEF RWI!PostControl, RWI!postSendImm, RWI!Post
    <3>3. heap' = [heap EXCEPT ![r] = Grown(heap[r], c, fields)]
      BY <3>1 DEF RWI!Malloc, Grown
    <3>4. mem' = [mem EXCEPT ![r] = [mem[r] EXCEPT ![1] = msg(c)]]
      BY <3>1, <1>f DEF RWI!PostControl
    <3>5. Becomes(r, [mem[r] EXCEPT ![1] = msg(c)], Append(sq[r], w), send_cq[r], recv_cq[r],
                  Grown(heap[r], c, fields), wc[r])
      <4> HIDE DEF msg, fields, w
      <4>1. IsFun(mem') /\ mem'[r] = [mem[r] EXCEPT ![1] = msg(c)] /\ mem'[Peer(r)] = mem[Peer(r)]
        BY <3>4, <1>f DEF IsFun
      <4>2. IsFun(sq') /\ sq'[r] = Append(sq[r], w) /\ sq'[Peer(r)] = sq[Peer(r)]
        BY <3>2, <1>f DEF IsFun
      <4>3. /\ IsFun(heap') /\ heap'[r] = Grown(heap[r], c, fields)
            /\ heap'[Peer(r)] = heap[Peer(r)]
        BY <3>3, <1>f DEF IsFun
      <4> QED  BY <3>1, <4>1, <4>2, <4>3, <1>f DEF Becomes, AreFuns
    <3>6. RIGoes(r)
      BY <3>1, <1>p DEF RILambda
    <3>7. ArchiveBecomes(r, [recv_ctx_archive[r] EXCEPT ![key(c)] = c])
      <4> HIDE DEF key
      <4>1. recv_ctx_archive' = [recv_ctx_archive EXCEPT ![r] =
                                    [recv_ctx_archive[r] EXCEPT ![key(c)] = c]]
        BY <3>1, <1>f
      <4> QED  BY <4>1, <1>f DEF IsFun, ArchiveBecomes
    <3>8. UNCHANGED config /\ Receives(r, 2)'
      BY <3>1 DEF Receives
    <3>9. RIEffect(r)
      BY <3>1, <3>5, <3>7 DEF RIEffect
    <3> QED  BY <3>6, <3>8, <3>9
  <2> QED  BY <1>6, <2>1, <2>2 DEF RWI!HandleRTS
<1>7. CASE RWI!HandleRTR(r)
  <2>1. CASE RWI!ImmAbort(r)
    BY <2>1, <1>a, <1>i
  <2>2. CASE ~ RWI!ImmAbort(r)
    <3> DEFINE m == mem[r][wc[r].wr_id]
               ctx == heap[r][m.send_ctx]
               w == Request("WRITE_IMM", ctx.buf, ctx.size, m.remote_addr, m.recv_ctx_key, 0)
    <3>1. /\ pc[r] = "handle_rtr" /\ RWI!Proceed(r, RWI!Body(r))
          /\ wc[r].opcode = "RECV" /\ m.v = "RTR" /\ m.send_ctx \in DOMAIN heap[r]
          /\ RWI!postWriteImm(r, ctx.buf, ctx.size, m.remote_addr, m.recv_ctx_key, 0)
          /\ RWI!Free(r, m.send_ctx)
          /\ UNCHANGED <<mem, srq, send_cq, recv_cq, config, wc, recv_ctx_archive>>
      BY <1>7, <2>2 DEF RWI!HandleRTR, RWI!At, RWI!Live, RWI!Received, RWI!UnchangedByHandler
    <3>2. sq' = [sq EXCEPT ![r] = Append(sq[r], w)]
      <4>0. ctx.size \in Nat \ {0}
        BY <3>1
      <4>1. RWI!WorkRequest(r, "WRITE_IMM", ctx.buf, ctx.size, m.remote_addr, m.recv_ctx_key, 0) = w
        <5> HIDE DEF m, ctx
        <5> QED  BY <4>0, <1>w
      <4> QED  BY <3>1, <4>1 DEF RWI!postWriteImm, RWI!Post
    <3>3. heap' = [heap EXCEPT ![r] = Shrunk(heap[r], m.send_ctx)]
      BY <3>1 DEF RWI!Free, Shrunk
    <3>5. Becomes(r, mem[r], Append(sq[r], w), send_cq[r], recv_cq[r],
                  Shrunk(heap[r], m.send_ctx), wc[r])
      <4> HIDE DEF w, m
      <4>2. IsFun(sq') /\ sq'[r] = Append(sq[r], w) /\ sq'[Peer(r)] = sq[Peer(r)]
        BY <3>2, <1>f DEF IsFun
      <4>3. /\ IsFun(heap') /\ heap'[r] = Shrunk(heap[r], m.send_ctx)
            /\ heap'[Peer(r)] = heap[Peer(r)]
        BY <3>3, <1>f DEF IsFun
      <4> QED  BY <3>1, <4>2, <4>3, <1>f DEF Becomes, AreFuns
    <3>6. RIGoes(r)
      BY <3>1, <1>p DEF RILambda
    <3>7. ArchiveBecomes(r, recv_ctx_archive[r])
      BY <3>1, <1>s
    <3> QED  BY <3>1, <3>5, <3>6, <3>7 DEF RIEffect, Receives
  <2> QED  BY <2>1, <2>2
<1>8. CASE RWI!HandleWriteImm(r)
  <2>1. CASE RWI!ImmAbort(r)
    BY <2>1, <1>a, <1>i
  <2>2. CASE ~ RWI!ImmAbort(r)
    <3> DEFINE k == wc[r].imm
               ctx == recv_ctx_archive[r][k]
    <3>1. /\ pc[r] = "handle_write" /\ RWI!Proceed(r, RWI!Body(r))
          /\ wc[r].opcode = "RECV_RDMA_WITH_IMM" /\ ctx \in DOMAIN heap[r]
          /\ recv_ctx_archive' = [recv_ctx_archive EXCEPT ![r] =
                                      [recv_ctx_archive[r] EXCEPT ![k] = LCM_ARCHIVE_EMPTY]]
          /\ RWI!Free(r, ctx)
          /\ UNCHANGED <<mem, sq, srq, send_cq, recv_cq, config, wc>>
      BY <1>8, <2>2 DEF RWI!HandleWriteImm, RWI!At, RWI!Live, RWI!RemoveFromArchive,
                        RWI!LCM_ARCHIVE_EMPTY, LCM_ARCHIVE_EMPTY, RWI!UnchangedByHandler
    <3>3. heap' = [heap EXCEPT ![r] = Shrunk(heap[r], ctx)]
      BY <3>1 DEF RWI!Free, Shrunk
    <3>5. Becomes(r, mem[r], sq[r], send_cq[r], recv_cq[r], Shrunk(heap[r], ctx), wc[r])
      <4> HIDE DEF ctx
      <4>3. /\ IsFun(heap') /\ heap'[r] = Shrunk(heap[r], ctx)
            /\ heap'[Peer(r)] = heap[Peer(r)]
        BY <3>3, <1>f DEF IsFun
      <4> QED  BY <3>1, <4>3, <1>f DEF Becomes, AreFuns
    <3>6. RIGoes(r)
      BY <3>1, <1>p DEF RILambda
    <3>7. ArchiveBecomes(r, [recv_ctx_archive[r] EXCEPT ![k] = LCM_ARCHIVE_EMPTY])
      BY <3>1, <1>f DEF IsFun, ArchiveBecomes
    <3> QED  BY <3>1, <3>5, <3>6, <3>7 DEF RIEffect, Receives
  <2> QED  BY <2>1, <2>2
<1>9. CASE RWI!Check(r)
  <2>1. CASE RWI!Abort(r) /\ UNCHANGED <<heap, wc, recv_ctx_archive>>
    BY <2>1, <1>a
  <2>2. CASE ~ RWI!Abort(r)
    <3>1. /\ pc[r] = "check" /\ RWI!Proceed(r, RWI!Body(r))
          /\ UNCHANGED <<mem, sq, srq, send_cq, recv_cq, config, heap, wc, recv_ctx_archive>>
      BY <1>9, <2>2 DEF RWI!Check, RWI!CheckData, RWI!At, RWI!rdvVars, RWI!deviceVars, RWI!fabricVars
    <3>2. Becomes(r, mem[r], sq[r], send_cq[r], recv_cq[r], heap[r], wc[r])
      BY <3>1, RdvHalts
    <3>3. RIGoes(r)
      BY <3>1, <1>p DEF RILambda
    <3>4. ArchiveBecomes(r, recv_ctx_archive[r])
      BY <3>1, <1>s
    <3> QED  BY <3>1, <3>2, <3>3, <3>4 DEF RIEffect, Receives
  <2> QED  BY <1>9, <2>1, <2>2 DEF RWI!Check, RWI!CheckData, RWI!rdvVars
<1>10. CASE RWI!Finalize(r)
  <2>1. /\ pc[r] = "close" /\ RWI!Goto(r, "exited")
        /\ UNCHANGED <<mem, sq, srq, send_cq, recv_cq, config, heap, wc, recv_ctx_archive>>
    BY <1>10 DEF RWI!Finalize, RWI!Exit, RWI!At, RWI!rdvVars
  <2>2. Becomes(r, mem[r], sq[r], send_cq[r], recv_cq[r], heap[r], wc[r])
    BY <2>1, RdvHalts
  <2>3. RIGoes(r)
    <3>1. <<pc[r], "exited">> \in RIOutside(r)
      BY <2>1 DEF RIOutside
    <3>2. Advance(r, "exited")
      BY <2>1 DEF RWI!Goto, Advance
    <3> QED  BY <3>1, <3>2 DEF RIGoes
  <2>4. ArchiveBecomes(r, recv_ctx_archive[r])
    BY <2>1, <1>s
  <2> QED  BY <2>1, <2>2, <2>3, <2>4 DEF RIEffect, Receives
<1> QED  BY <1>1, <1>2, <1>3, <1>4, <1>5, <1>6, <1>7, <1>8, <1>9, <1>10 DEF RWI!RankStep

----------------------------------------------------------------------------
\* The invariant of ibv_pingpong_rdv_write_imm.cpp.

\* The number of cells of the region of ibv_pingpong_rdv_write_imm.cpp.
RISize == 3 + 2 * max_msg_size

\* The keys of an archive.
RIKeys == 0 .. Cap - 1

\* An archive with nothing in it.
EmptyArchive == [k \in RIKeys |-> LCM_ARCHIVE_EMPTY]

\* An RTR, wherever a copy of it is, carries a key of the receiver's archive.
RICell(x) == x.v = "RTR" => x.recv_ctx_key \in RIKeys /\ x.remote_addr \in Nat

\* The completions a rank can find in its recv_cq: of a control message, or of
\* a write whose immediate is a key.
RIArrivals ==
    [status : {"SUCCESS"}, opcode : {"RECV"}, imm : {"RTS", "RTR"}, wr_id : {2}]
    \cup [status : {"SUCCESS"}, opcode : {"RECV_RDMA_WITH_IMM"}, imm : RIKeys, wr_id : {2}]

\* The requests a rank posts.
RIRequest(w) ==
    /\ IsRequest(w) /\ w.inline = FALSE /\ w.buf \in Nat /\ w.len \in Nat \ {0} /\ w.raddr \in Nat
    /\ \/ w.op = "SEND_IMM" /\ w.imm \in {"RTS", "RTR"}
       \/ w.op = "WRITE_IMM" /\ w.imm \in RIKeys

\* Every cell of the region of rank r keeps to RICell.
RIMemory(r) == HasDomain(mem[r], RISize) /\ \A a \in 0 .. RISize - 1 : RICell(mem[r][a])

\* A rank has one request outstanding while it waits for its completion.
RIQueue(r) ==
    IF pc[r] \in {"poll_rts", "poll_rtr", "poll_write"}
      THEN \/ send_cq[r] = <<>> /\ \E w : sq[r] = <<w>> /\ RIRequest(w)
           \/ sq[r] = <<>> /\ \E x : send_cq[r] = <<x>>
      ELSE sq[r] = <<>> /\ send_cq[r] = <<>>

\* What rank r can receive, and what it handles.
RIReceived(r) ==
    /\ Receives(r, 2) /\ recv_cq[r] \in Seq(RIArrivals)
    /\ pc[r] \in {"handle_rts", "handle_rtr", "handle_write"} => wc[r] \in RIArrivals

\* Rank r has this one context.
HasContext(r, c, kind) ==
    /\ DOMAIN heap[r] = {c} /\ heap[r][c].kind = kind
    /\ heap[r][c].buf \in Nat /\ heap[r][c].size \in Nat \ {0}

\* The context of a send lives from the RTS to the write, that of a receive
\* from the RTR to the arrival of the write; the archive holds the latter.
RIContexts(r) ==
    IF pc[r] \in {"poll_rts", "recv_rtr", "handle_rtr"}
      THEN recv_ctx_archive[r] = EmptyArchive /\ \E c : HasContext(r, c, "send")
    ELSE IF pc[r] \in {"poll_rtr", "recv_write", "handle_write"}
      THEN \E c \in Ctx, k \in RIKeys :
               /\ HasContext(r, c, "recv")
               /\ recv_ctx_archive[r] = [EmptyArchive EXCEPT ![k] = c]
    ELSE recv_ctx_archive[r] = EmptyArchive /\ DOMAIN heap[r] = {}

\* What the state of ibv_pingpong_rdv_write_imm.cpp is made of.
RITypes ==
    /\ RdvFuns /\ IsFun(recv_ctx_archive) /\ config.inline_size = 0 /\ max_msg_size \in Nat
    /\ pc \in [Ranks -> RILabels] /\ call \in [Ranks -> Calls]

\* The invariant of ibv_pingpong_rdv_write_imm.cpp.
RIInv ==
    /\ RITypes
    /\ \A r \in Ranks : RIMemory(r) /\ RIQueue(r) /\ RIReceived(r) /\ RIContexts(r)

\* Where a step of the program goes.
LEMMA RIMoves ==
    ASSUME NEW r \in Ranks, pc \in [Ranks -> RILabels], call \in [Ranks -> Calls], RIGoes(r)
    PROVE  /\ pc' \in [Ranks -> RILabels] /\ pc'[Peer(r)] = pc[Peer(r)]
           /\ call' \in [Ranks -> Calls]
           /\ pc[r] = "fill" => pc'[r] = "post_rts"
           /\ pc[r] = "post_rts" => pc'[r] = "poll_rts"
           /\ pc[r] = "poll_rts" => pc'[r] = "recv_rtr"
           /\ pc[r] = "recv_rtr" => pc'[r] = "handle_rtr"
           /\ pc[r] = "handle_rtr" => pc'[r] = "poll_write"
           /\ pc[r] = "recv_rts" => pc'[r] = "handle_rts"
           /\ pc[r] = "handle_rts" => pc'[r] = "poll_rtr"
           /\ pc[r] = "poll_rtr" => pc'[r] = "recv_write"
           /\ pc[r] = "recv_write" => pc'[r] = "handle_write"
           /\ pc[r] = "handle_write" => pc'[r] = "check"
           /\ pc[r] \in {"setup", "poll_write", "check", "close"} =>
                  pc'[r] \in {"fill", "recv_rts", "close", "exited"}
<1>q. Peer(r) \in Ranks /\ Peer(r) # r /\ pc[r] \in RILabels /\ call[r] \in Calls
  BY PeerFacts
<1>1. PICK x : /\ pc' = [pc EXCEPT ![r] = x]
               /\ \/ pc[r] \in RILambda /\ pc[r] # RILast(r) /\ x = RIAfter(r, pc[r])
                  \/ pc[r] = RILast(r) /\ x \in {"fill", "recv_rts", "close"}
                  \/ <<pc[r], x>> \in RIOutside(r)
               /\ call' = call \/ call' = [call EXCEPT ![r] = NextCall(call[r])]
  <2>1. CASE pc[r] \in RILambda /\ pc[r] # RILast(r)
    <3>1. \A y : <<pc[r], y>> \notin RIOutside(r)
      BY <2>1 DEF RILambda, RIOutside
    <3> QED  BY <2>1, <3>1 DEF RIGoes, Advance
  <2>2. CASE pc[r] = RILast(r)
    <3>1. pc[r] \in RILambda /\ \A y : <<pc[r], y>> \notin RIOutside(r)
      BY <2>2 DEF RILambda, RIOutside, RILast
    <3> QED  BY <2>2, <3>1 DEF RIGoes, EndCall
  <2>3. CASE pc[r] \notin RILambda
    BY <2>3 DEF RIGoes, Advance
  <2> QED  BY <2>1, <2>2, <2>3
<1>2. x \in RILabels /\ pc'[r] = x
  BY <1>1, <1>q DEF RILabels, RILambda, RIAfter, RIOutside, RILast
<1>3. /\ pc[r] = "fill" => x = "post_rts"
      /\ pc[r] = "post_rts" => x = "poll_rts"
      /\ pc[r] = "poll_rts" => x = "recv_rtr"
      /\ pc[r] = "recv_rtr" => x = "handle_rtr"
      /\ pc[r] = "handle_rtr" => x = "poll_write"
      /\ pc[r] = "recv_rts" => x = "handle_rts"
      /\ pc[r] = "handle_rts" => x = "poll_rtr"
      /\ pc[r] = "poll_rtr" => x = "recv_write"
      /\ pc[r] = "recv_write" => x = "handle_write"
      /\ pc[r] = "handle_write" => x = "check"
      /\ pc[r] \in {"setup", "poll_write", "check", "close"} =>
             x \in {"fill", "recv_rts", "close", "exited"}
  BY <1>1, <1>q DEF RILambda, RIAfter, RIOutside, RILast
<1>4. pc' \in [Ranks -> RILabels] /\ pc'[Peer(r)] = pc[Peer(r)]
  BY <1>1, <1>2, <1>q
<1>5. call' \in [Ranks -> Calls]
  <2>1. NextCall(call[r]) \in Calls
    BY <1>q, NextCallGrows, BenchAssumption
  <2> QED  BY <1>1, <2>1
<1> QED  BY <1>2, <1>3, <1>4, <1>5

\* A cell is set.
LEMMA CellSet ==
    ASSUME NEW m, NEW n \in Nat, HasDomain(m, n), NEW b \in 0 .. n - 1, NEW x
    PROVE  /\ HasDomain([m EXCEPT ![b] = x], n) /\ [m EXCEPT ![b] = x][b] = x
           /\ \A a \in 0 .. n - 1 : a # b => [m EXCEPT ![b] = x][a] = m[a]
<1>1. DOMAIN m = 0 .. n - 1
  BY DEF HasDomain
<1>2. /\ [m EXCEPT ![b] = x][b] = x
      /\ \A a \in 0 .. n - 1 : a # b => [m EXCEPT ![b] = x][a] = m[a]
  BY <1>1
<1>3. PICK o : o = [m EXCEPT ![b] = x]
  OBVIOUS
<1>4. DOMAIN o = 0 .. n - 1 /\ o = [a \in 0 .. n - 1 |-> o[a]]
  BY <1>1, <1>3
<1> QED  BY <1>2, <1>3, <1>4 DEF HasDomain

\* A key LCM_archive_put returns is a key of the table.
LEMMA PutKeyInside ==
    ASSUME NEW t, NEW c, RWI!PutKey(t, c) # -1
    PROVE  RWI!PutKey(t, c) \in DOMAIN t
  BY DEF RWI!PutKey

\* Storing good cells, or cells a rank fills, leaves good cells.
LEMMA GoodCellsStored ==
    ASSUME NEW m, NEW n \in Nat, HasDomain(m, n), \A a \in 0 .. n - 1 : RICell(m[a]),
           NEW buf \in Nat, NEW data, Len(data) \in Nat,
           \A k \in 1 .. Len(data) : RICell(data[k])
    PROVE  /\ HasDomain(Store(m, buf, data), n)
           /\ \A a \in 0 .. n - 1 : RICell(Store(m, buf, data)[a])
<1>1. HasDomain(Store(m, buf, data), n) /\ DOMAIN m = 0 .. n - 1
  BY StoreKeeps DEF HasDomain
<1>2. ASSUME NEW a \in 0 .. n - 1  PROVE RICell(Store(m, buf, data)[a])
  <2>1. Store(m, buf, data)[a] = IF a \in buf .. buf + Len(data) - 1 THEN data[a - buf + 1] ELSE m[a]
    BY <1>1 DEF Store
  <2>2. CASE a \in buf .. buf + Len(data) - 1
    <3>1. a - buf + 1 \in 1 .. Len(data)
      BY <2>2
    <3> QED  BY <2>1, <2>2, <3>1
  <2>3. CASE a \notin buf .. buf + Len(data) - 1
    BY <2>1, <2>3
  <2> QED  BY <2>2, <2>3
<1> QED  BY <1>1, <1>2

----------------------------------------------------------------------------
\* The steps of a rank keep it.

\* What is true of a rank stays true when nothing of it changes.
LEMMA RIFrame ==
    ASSUME NEW q \in Ranks, UNCHANGED config,
           RIMemory(q), RIQueue(q), RIReceived(q), RIContexts(q),
           mem'[q] = mem[q], sq'[q] = sq[q], srq'[q] = srq[q], send_cq'[q] = send_cq[q],
           recv_cq'[q] = recv_cq[q], heap'[q] = heap[q], wc'[q] = wc[q], pc'[q] = pc[q],
           recv_ctx_archive'[q] = recv_ctx_archive[q]
    PROVE  RIMemory(q)' /\ RIQueue(q)' /\ RIReceived(q)' /\ RIContexts(q)'
<1>1. RIMemory(q)'
  BY DEF RIMemory, RISize, max_msg_size
<1>2. RIQueue(q)'
  BY DEF RIQueue
<1>3. RIReceived(q)'
  BY DEF RIReceived, Receives
<1>4. RIContexts(q)'
  BY DEF RIContexts, HasContext
<1> QED  BY <1>1, <1>2, <1>3, <1>4

\* A request the program posts is one of the kinds above.
LEMMA RIMakes ==
    ASSUME NEW op, NEW buf \in Nat, NEW len \in Nat \ {0}, NEW raddr \in Nat, NEW imm,
           \/ op = "SEND_IMM" /\ imm \in {"RTS", "RTR"}
           \/ op = "WRITE_IMM" /\ imm \in RIKeys
    PROVE  RIRequest(Request(op, buf, len, raddr, imm, 0))
<1>1. PICK w : w = Request(op, buf, len, raddr, imm, 0)
  OBVIOUS
<1>2. IsRequest(w) /\ w.inline = FALSE
  BY <1>1, RequestNotInline, ZenonT(40)
<1>3. w.op = op /\ w.buf = buf /\ w.len = len /\ w.raddr = raddr /\ w.imm = imm
  BY <1>1, RequestFields
<1>4. /\ w.buf \in Nat /\ w.len \in Nat \ {0} /\ w.raddr \in Nat
      /\ \/ w.op = "SEND_IMM" /\ w.imm \in {"RTS", "RTR"}
         \/ w.op = "WRITE_IMM" /\ w.imm \in RIKeys
  BY <1>3
<1>5. RIRequest(w)
  BY <1>2, <1>4, Zenon DEF RIRequest
<1> QED  BY <1>1, <1>5

\* It becomes the only request of the rank.
LEMMA RIPosted ==
    ASSUME NEW r \in Ranks, sq[r] = <<>>, send_cq[r] = <<>>,
           NEW w, RIRequest(w), sq'[r] = Append(sq[r], w), send_cq'[r] = send_cq[r],
           pc'[r] \in {"poll_rts", "poll_rtr", "poll_write"}
    PROVE  RIQueue(r)'
<1>3. sq'[r] = <<w>>
  <2>1. Append(<<>>, w) = <<w>>
    OBVIOUS
  <2> QED  BY <2>1
<1>4. RIRequest(w)'
  BY DEF RIRequest, IsRequest, RIKeys
<1> QED  BY <1>3, <1>4 DEF RIQueue

\* The only context is freed.
LEMMA ShrunkToEmpty ==
    ASSUME NEW h, NEW x, DOMAIN h = {x}, NEW c \in DOMAIN h
    PROVE  DOMAIN Shrunk(h, c) = {}
  BY DEF Shrunk

\* A step of a rank.
LEMMA RIRankKept ==
    ASSUME RIInv, NEW r \in Ranks, RWI!RankStep(r), posted_recv_num[r] \in 0 .. MaxRecv
    PROVE  RIInv'
<1> DEFINE q == Peer(r)
           size == call[r].size
           got == mem[r][wc[r].wr_id]
           table == recv_ctx_archive[r]
           Good(p) == RIMemory(p)' /\ RIQueue(p)' /\ RIReceived(p)' /\ RIContexts(p)'
<1>q. q \in Ranks /\ q # r /\ Ranks = {r, q}
  BY PeerFacts DEF Ranks, Peer
<1>t. /\ RdvFuns /\ IsFun(recv_ctx_archive) /\ config.inline_size = 0 /\ max_msg_size \in Nat
      /\ pc \in [Ranks -> RILabels] /\ call \in [Ranks -> Calls]
  BY DEF RIInv, RITypes
<1>l. /\ RIMemory(r) /\ RIQueue(r) /\ RIReceived(r) /\ RIContexts(r)
      /\ RIMemory(q) /\ RIQueue(q) /\ RIReceived(q) /\ RIContexts(q)
  BY <1>q DEF RIInv
<1>z. size \in Nat \ {0} /\ pc[r] \in RILabels
  <2>1. call[r] \in Calls
    BY <1>t
  <2> QED  BY <2>1, <1>t DEF Calls
<1>h. \A c \in DOMAIN heap[r] : heap[r][c].size \in Nat \ {0} /\ heap[r][c].buf \in Nat
  BY <1>l DEF RIContexts, HasContext
<1>1. /\ Receives(r, 2)' /\ UNCHANGED config
      /\ \/ /\ UNCHANGED <<pc, call, recv_ctx_archive>>
            /\ Becomes(r, mem[r], sq[r], send_cq[r], recv_cq[r], heap[r], wc[r])
         \/ RIGoes(r) /\ RIEffect(r)
  BY <1>t, <1>l, <1>z, <1>h, RISteps DEF RIReceived
<1>m. max_msg_size' = max_msg_size /\ RISize' = RISize /\ RISize \in Nat /\ {0, 1, 2} \subseteq 0 .. RISize - 1
  BY <1>1, <1>t DEF max_msg_size, RISize
<1>2. CASE /\ UNCHANGED <<pc, call, recv_ctx_archive>>
           /\ Becomes(r, mem[r], sq[r], send_cq[r], recv_cq[r], heap[r], wc[r])
  <2>1. RITypes'
    <3>1. RdvFuns'
      BY <1>2 DEF Becomes, RdvFuns
    <3> QED  BY <1>2, <3>1, <1>t, <1>1, <1>m DEF RITypes, IsFun
  <2>2. Good(q)
    BY <1>2, <1>1, <1>l, <1>q, RIFrame DEF Becomes
  <2>3. /\ mem'[r] = mem[r] /\ sq'[r] = sq[r] /\ send_cq'[r] = send_cq[r] /\ recv_cq'[r] = recv_cq[r]
        /\ heap'[r] = heap[r] /\ wc'[r] = wc[r] /\ pc'[r] = pc[r] /\ recv_ctx_archive'[r] = table
    BY <1>2 DEF Becomes
  <2>4. RIMemory(r)' /\ RIQueue(r)'
    BY <2>3, <1>m, <1>l DEF RIMemory, RIQueue
  <2>5. RIReceived(r)'
    BY <2>3, <1>1, <1>l DEF RIReceived
  <2>6. RIContexts(r)'
    <3>1. RIContexts(r)
      BY <1>l
    <3>2. /\ EmptyArchive' = EmptyArchive /\ RIKeys' = RIKeys
          /\ \A c, kind : HasContext(r, c, kind)' <=> HasContext(r, c, kind)
      BY <2>3 DEF EmptyArchive, RIKeys, HasContext
    <3> QED  BY <2>3, <3>1, <3>2 DEF RIContexts
  <2> QED  BY <2>1, <2>2, <2>4, <2>5, <2>6, <1>q DEF RIInv
<1>3. CASE RIGoes(r) /\ RIEffect(r)
  <2>p. /\ pc' \in [Ranks -> RILabels] /\ pc'[q] = pc[q] /\ call' \in [Ranks -> Calls]
    BY <1>3, <1>t, RIMoves
  <2>m. /\ pc[r] = "fill" => pc'[r] = "post_rts"
        /\ pc[r] = "post_rts" => pc'[r] = "poll_rts"
        /\ pc[r] = "poll_rts" => pc'[r] = "recv_rtr"
        /\ pc[r] = "recv_rtr" => pc'[r] = "handle_rtr"
        /\ pc[r] = "handle_rtr" => pc'[r] = "poll_write"
        /\ pc[r] = "recv_rts" => pc'[r] = "handle_rts"
        /\ pc[r] = "handle_rts" => pc'[r] = "poll_rtr"
        /\ pc[r] = "poll_rtr" => pc'[r] = "recv_write"
        /\ pc[r] = "recv_write" => pc'[r] = "handle_write"
        /\ pc[r] = "handle_write" => pc'[r] = "check"
        /\ pc[r] \in {"setup", "poll_write", "check", "close"} =>
               pc'[r] \in {"fill", "recv_rts", "close", "exited"}
    BY <1>3, <1>t, RIMoves
  <2>a. ASSUME NEW m, NEW s, NEW sc, NEW rc, NEW h, NEW c, NEW t,
               Becomes(r, m, s, sc, rc, h, c), ArchiveBecomes(r, t)
        PROVE  /\ RITypes' /\ Good(q)
               /\ mem'[r] = m /\ sq'[r] = s /\ send_cq'[r] = sc /\ recv_cq'[r] = rc
               /\ heap'[r] = h /\ wc'[r] = c /\ recv_ctx_archive'[r] = t
    <3>1. RdvFuns' /\ IsFun(recv_ctx_archive')
      BY <2>a DEF Becomes, RdvFuns, ArchiveBecomes
    <3>2. RITypes'
      BY <3>1, <1>t, <1>1, <1>m, <2>p DEF RITypes
    <3>3. Good(q)
      BY <2>a, <2>p, <1>1, <1>l, <1>q, RIFrame DEF Becomes, ArchiveBecomes
    <3> QED  BY <2>a, <3>2, <3>3 DEF Becomes, ArchiveBecomes
  <2>g. ASSUME RITypes', Good(q), Good(r)  PROVE RIInv'
    BY <2>g, <1>q DEF RIInv
  <2>1. CASE pc[r] \in {"setup", "check", "close", "fill"}
    <3>1. PICK m : /\ m = mem[r] \/ m = Store(mem[r], 3, Fill(r, size))
                   /\ Becomes(r, m, sq[r], send_cq[r], recv_cq[r], heap[r], wc[r])
                   /\ ArchiveBecomes(r, table)
      BY <1>3, <2>1 DEF RIEffect
    <3>2. /\ RITypes' /\ Good(q)
          /\ mem'[r] = m /\ sq'[r] = sq[r] /\ send_cq'[r] = send_cq[r] /\ recv_cq'[r] = recv_cq[r]
          /\ heap'[r] = heap[r] /\ wc'[r] = wc[r] /\ recv_ctx_archive'[r] = table
      BY <3>1, <2>a
    <3>3. RIMemory(r)'
      <4>1. HasDomain(mem[r], RISize) /\ \A a \in 0 .. RISize - 1 : RICell(mem[r][a])
        BY <1>l DEF RIMemory
      <4>2. Len(Fill(r, size)) = size
        BY <1>z, FillLen
      <4>3. \A k \in 1 .. size : RICell(Fill(r, size)[k])
        BY DEF RICell, Fill, Value
      <4>4. /\ HasDomain(Store(mem[r], 3, Fill(r, size)), RISize)
            /\ \A a \in 0 .. RISize - 1 : RICell(Store(mem[r], 3, Fill(r, size))[a])
        <5>1. Len(Fill(r, size)) \in Nat /\ \A k \in 1 .. Len(Fill(r, size)) : RICell(Fill(r, size)[k])
          BY <4>2, <4>3, <1>z
        <5> HIDE DEF size
        <5> QED  BY <4>1, <5>1, <1>m, GoodCellsStored
      <4>5. HasDomain(m, RISize) /\ \A a \in 0 .. RISize - 1 : RICell(m[a])
        BY <3>1, <4>1, <4>4
      <4> QED  BY <3>2, <4>5, <1>m DEF RIMemory
    <3>4. RIQueue(r)'
      BY <3>2, <2>1, <2>m, <1>l DEF RIQueue
    <3>5. RIReceived(r)'
      BY <3>2, <2>1, <2>m, <1>1, <1>l DEF RIReceived
    <3>6. RIContexts(r)'
      BY <3>2, <2>1, <2>m, <1>l DEF RIContexts
    <3> QED  BY <3>2, <3>3, <3>4, <3>5, <3>6, <2>g
  <2>2. CASE pc[r] = "post_rts"
    <3> DEFINE msg(c) == [v |-> "RTS", t |-> call[r].n, send_ctx |-> c, size |-> size]
               fields == [kind |-> "send", buf |-> 3, size |-> size]
               w == Request("SEND_IMM", 0, 1, 0, "RTS", 0)
    <3>1. PICK c \in Ctx :
                 /\ Becomes(r, [mem[r] EXCEPT ![0] = msg(c)], Append(sq[r], w),
                            send_cq[r], recv_cq[r], Grown(heap[r], c, fields), wc[r])
                 /\ ArchiveBecomes(r, table)
      BY <1>3, <2>2 DEF RIEffect
    <3>2. /\ RITypes' /\ Good(q)
          /\ mem'[r] = [mem[r] EXCEPT ![0] = msg(c)] /\ sq'[r] = Append(sq[r], w)
          /\ send_cq'[r] = send_cq[r] /\ recv_cq'[r] = recv_cq[r]
          /\ heap'[r] = Grown(heap[r], c, fields) /\ wc'[r] = wc[r] /\ recv_ctx_archive'[r] = table
      <4> HIDE DEF msg, fields, w
      <4>1. PICK m1, s1, h1, t1 : /\ m1 = [mem[r] EXCEPT ![0] = msg(c)] /\ s1 = Append(sq[r], w)
                                  /\ h1 = Grown(heap[r], c, fields) /\ t1 = table
        OBVIOUS
      <4>2. /\ Becomes(r, m1, s1, send_cq[r], recv_cq[r], h1, wc[r])
            /\ ArchiveBecomes(r, t1)
        BY <3>1, <4>1
      <4>3. /\ RITypes' /\ Good(q)
            /\ mem'[r] = m1 /\ sq'[r] = s1 /\ send_cq'[r] = send_cq[r] /\ recv_cq'[r] = recv_cq[r]
            /\ heap'[r] = h1 /\ wc'[r] = wc[r] /\ recv_ctx_archive'[r] = t1
        BY <4>2, <2>a
      <4> QED  BY <4>1, <4>3
    <3>3. RIMemory(r)'
      <4>1. HasDomain(mem[r], RISize) /\ \A a \in 0 .. RISize - 1 : RICell(mem[r][a])
        BY <1>l DEF RIMemory
      <4>2. RICell(msg(c))
        BY DEF RICell
      <4> HIDE DEF msg
      <4>3. /\ HasDomain([mem[r] EXCEPT ![0] = msg(c)], RISize)
            /\ [mem[r] EXCEPT ![0] = msg(c)][0] = msg(c)
            /\ \A a \in 0 .. RISize - 1 : a # 0 => [mem[r] EXCEPT ![0] = msg(c)][a] = mem[r][a]
        BY <4>1, <1>m, CellSet
      <4>4. \A a \in 0 .. RISize - 1 : RICell([mem[r] EXCEPT ![0] = msg(c)][a])
        BY <4>1, <4>2, <4>3, Zenon
      <4> QED  BY <3>2, <4>3, <4>4, <1>m DEF RIMemory
    <3>4. RIQueue(r)'
      <4>1. sq[r] = <<>> /\ send_cq[r] = <<>> /\ pc'[r] = "poll_rts"
        BY <2>2, <2>m, <1>l DEF RIQueue
      <4>2. 0 \in Nat /\ 1 \in Nat \ {0}
        OBVIOUS
      <4>3. RIRequest(w)
        BY <4>2, RIMakes
      <4> HIDE DEF w, msg, fields
      <4> QED  BY <3>2, <4>1, <4>3, RIPosted
    <3>5. RIReceived(r)'
      BY <3>2, <2>2, <2>m, <1>1, <1>l DEF RIReceived
    <3>6. RIContexts(r)'
      <4>1. DOMAIN heap[r] = {} /\ table = EmptyArchive /\ pc'[r] = "poll_rts"
        BY <2>2, <2>m, <1>l DEF RIContexts
      <4>2. DOMAIN heap'[r] = {c} /\ heap'[r][c] = fields
        <5> HIDE DEF fields, msg, w
        <5>1. DOMAIN Grown(heap[r], c, fields) = {c} /\ Grown(heap[r], c, fields)[c] = fields
          BY <4>1 DEF Grown
        <5> QED  BY <3>2, <5>1
      <4>3. HasContext(r, c, "send")'
        BY <4>2, <1>z DEF HasContext
      <4> QED  BY <3>2, <4>1, <4>3 DEF RIContexts, EmptyArchive, RIKeys
    <3> QED  BY <3>2, <3>3, <3>4, <3>5, <3>6, <2>g
  <2>3. CASE pc[r] \in {"poll_rts", "poll_rtr", "poll_write"}
    <3>1. /\ Becomes(r, mem[r], sq[r], Tail(send_cq[r]), recv_cq[r], heap[r], wc[r])
          /\ ArchiveBecomes(r, table) /\ send_cq[r] # <<>>
      BY <1>3, <2>3 DEF RIEffect
    <3>2. /\ RITypes' /\ Good(q)
          /\ mem'[r] = mem[r] /\ sq'[r] = sq[r] /\ send_cq'[r] = Tail(send_cq[r])
          /\ recv_cq'[r] = recv_cq[r]
          /\ heap'[r] = heap[r] /\ wc'[r] = wc[r] /\ recv_ctx_archive'[r] = table
      BY <3>1, <2>a
    <3>3. RIMemory(r)'
      BY <3>2, <1>m, <1>l DEF RIMemory
    <3>4. RIQueue(r)'
      <4>1. sq[r] = <<>> /\ \E x : send_cq[r] = <<x>>
        BY <2>3, <3>1, <1>l DEF RIQueue
      <4>2. Tail(send_cq[r]) = <<>>
        BY <4>1
      <4> QED  BY <3>2, <4>1, <4>2, <2>3, <2>m DEF RIQueue
    <3>5. RIReceived(r)'
      BY <3>2, <2>3, <2>m, <1>1, <1>l DEF RIReceived
    <3>6. RIContexts(r)'
      BY <3>2, <2>3, <2>m, <1>l DEF RIContexts, HasContext
    <3> QED  BY <3>2, <3>3, <3>4, <3>5, <3>6, <2>g
  <2>4. CASE pc[r] \in {"recv_rts", "recv_rtr", "recv_write"}
    <3>1. /\ Becomes(r, mem[r], sq[r], send_cq[r], Tail(recv_cq[r]), heap[r], Head(recv_cq[r]))
          /\ ArchiveBecomes(r, table) /\ recv_cq[r] # <<>>
      BY <1>3, <2>4 DEF RIEffect
    <3>2. /\ RITypes' /\ Good(q)
          /\ mem'[r] = mem[r] /\ sq'[r] = sq[r] /\ send_cq'[r] = send_cq[r]
          /\ recv_cq'[r] = Tail(recv_cq[r])
          /\ heap'[r] = heap[r] /\ wc'[r] = Head(recv_cq[r]) /\ recv_ctx_archive'[r] = table
      BY <3>1, <2>a
    <3>3. RIMemory(r)'
      BY <3>2, <1>m, <1>l DEF RIMemory
    <3>4. RIQueue(r)'
      BY <3>2, <2>4, <2>m, <1>l DEF RIQueue
    <3>5. RIReceived(r)'
      <4>1. recv_cq[r] \in Seq(RIArrivals)
        BY <1>l DEF RIReceived
      <4>2. Tail(recv_cq[r]) \in Seq(RIArrivals) /\ Head(recv_cq[r]) \in RIArrivals
        BY <4>1, <3>1
      <4> QED  BY <3>2, <4>2, <1>1 DEF RIReceived, RIArrivals, RIKeys
    <3>6. RIContexts(r)'
      <4>0. heap'[r] = heap[r] /\ recv_ctx_archive'[r] = recv_ctx_archive[r] /\ RIContexts(r)
        BY <3>2, <1>l
      <4>1. CASE pc[r] = "recv_rts"
        BY <4>0, <4>1, <2>m DEF RIContexts, EmptyArchive, RIKeys
      <4>2. CASE pc[r] = "recv_rtr"
        BY <4>0, <4>2, <2>m DEF RIContexts, HasContext, EmptyArchive, RIKeys
      <4>3. CASE pc[r] = "recv_write"
        BY <4>0, <4>3, <2>m DEF RIContexts, HasContext, EmptyArchive, RIKeys
      <4> QED  BY <2>4, <4>1, <4>2, <4>3
    <3> QED  BY <3>2, <3>3, <3>4, <3>5, <3>6, <2>g
  <2>5. CASE pc[r] = "handle_rts"
    <3> DEFINE key(c) == RWI!PutKey(table, c)
               msg(c) == [v |-> "RTR", t |-> call[r].n, send_ctx |-> got.send_ctx,
                          remote_addr |-> 3 + max_msg_size, recv_ctx_key |-> key(c)]
               fields == [kind |-> "recv", buf |-> 3 + max_msg_size, size |-> size]
               w == Request("SEND_IMM", 1, 1, 0, "RTR", 0)
    <3>1. PICK c \in Ctx :
                 /\ key(c) # -1
                 /\ Becomes(r, [mem[r] EXCEPT ![1] = msg(c)], Append(sq[r], w),
                            send_cq[r], recv_cq[r], Grown(heap[r], c, fields), wc[r])
                 /\ ArchiveBecomes(r, [table EXCEPT ![key(c)] = c])
      BY <1>3, <2>5 DEF RIEffect
    <3>2. /\ RITypes' /\ Good(q)
          /\ mem'[r] = [mem[r] EXCEPT ![1] = msg(c)] /\ sq'[r] = Append(sq[r], w)
          /\ send_cq'[r] = send_cq[r] /\ recv_cq'[r] = recv_cq[r]
          /\ heap'[r] = Grown(heap[r], c, fields) /\ wc'[r] = wc[r]
          /\ recv_ctx_archive'[r] = [table EXCEPT ![key(c)] = c]
      <4> HIDE DEF key, msg, fields, w
      <4>1. PICK m1, s1, h1, t1 : /\ m1 = [mem[r] EXCEPT ![1] = msg(c)] /\ s1 = Append(sq[r], w)
                                  /\ h1 = Grown(heap[r], c, fields) /\ t1 = [table EXCEPT ![key(c)] = c]
        OBVIOUS
      <4>2. /\ Becomes(r, m1, s1, send_cq[r], recv_cq[r], h1, wc[r])
            /\ ArchiveBecomes(r, t1)
        BY <3>1, <4>1
      <4>3. /\ RITypes' /\ Good(q)
            /\ mem'[r] = m1 /\ sq'[r] = s1 /\ send_cq'[r] = send_cq[r] /\ recv_cq'[r] = recv_cq[r]
            /\ heap'[r] = h1 /\ wc'[r] = wc[r] /\ recv_ctx_archive'[r] = t1
        BY <4>2, <2>a
      <4> QED  BY <4>1, <4>3
    <3>e. DOMAIN heap[r] = {} /\ table = EmptyArchive /\ pc'[r] = "poll_rtr"
      BY <2>5, <2>m, <1>l DEF RIContexts
    <3>k. key(c) \in RIKeys
      <4>1. DOMAIN table = RIKeys
        BY <3>e DEF EmptyArchive
      <4> QED  BY <3>1, <4>1, PutKeyInside
    <3> HIDE DEF key
    <3>3. RIMemory(r)'
      <4>1. HasDomain(mem[r], RISize) /\ \A a \in 0 .. RISize - 1 : RICell(mem[r][a])
        BY <1>l DEF RIMemory
      <4>2. RICell(msg(c))
        <5>1. msg(c).recv_ctx_key = key(c) /\ msg(c).remote_addr = 3 + max_msg_size
          OBVIOUS
        <5> QED  BY <5>1, <3>k, <1>t DEF RICell
      <4> HIDE DEF msg
      <4>3. /\ HasDomain([mem[r] EXCEPT ![1] = msg(c)], RISize)
            /\ [mem[r] EXCEPT ![1] = msg(c)][1] = msg(c)
            /\ \A a \in 0 .. RISize - 1 : a # 1 => [mem[r] EXCEPT ![1] = msg(c)][a] = mem[r][a]
        BY <4>1, <1>m, CellSet
      <4>4. \A a \in 0 .. RISize - 1 : RICell([mem[r] EXCEPT ![1] = msg(c)][a])
        BY <4>1, <4>2, <4>3, Zenon
      <4> QED  BY <3>2, <4>3, <4>4, <1>m DEF RIMemory
    <3>4. RIQueue(r)'
      <4>1. sq[r] = <<>> /\ send_cq[r] = <<>> /\ pc'[r] = "poll_rtr"
        BY <2>5, <2>m, <1>l DEF RIQueue
      <4>2. 0 \in Nat /\ 1 \in Nat \ {0}
        OBVIOUS
      <4>3. RIRequest(w)
        BY <4>2, RIMakes
      <4> HIDE DEF w, msg, fields
      <4> QED  BY <3>2, <4>1, <4>3, RIPosted
    <3>5. RIReceived(r)'
      BY <3>2, <2>5, <2>m, <1>1, <1>l DEF RIReceived
    <3>6. RIContexts(r)'
      <4>2. DOMAIN heap'[r] = {c} /\ heap'[r][c] = fields
        <5> HIDE DEF fields, msg, w
        <5>1. DOMAIN Grown(heap[r], c, fields) = {c} /\ Grown(heap[r], c, fields)[c] = fields
          BY <3>e DEF Grown
        <5> QED  BY <3>2, <5>1
      <4>3. HasContext(r, c, "recv")'
        BY <4>2, <1>z, <1>t DEF HasContext
      <4>4. recv_ctx_archive'[r] = [EmptyArchive EXCEPT ![key(c)] = c]
        BY <3>2, <3>e
      <4> QED  BY <3>e, <3>k, <4>3, <4>4 DEF RIContexts, EmptyArchive, RIKeys
    <3> QED  BY <3>2, <3>3, <3>4, <3>5, <3>6, <2>g
  <2>6. CASE pc[r] = "handle_rtr"
    <3> DEFINE ctx == heap[r][got.send_ctx]
               w == Request("WRITE_IMM", ctx.buf, ctx.size, got.remote_addr, got.recv_ctx_key, 0)
    <3>1. /\ wc[r].opcode = "RECV" /\ got.v = "RTR" /\ got.send_ctx \in DOMAIN heap[r]
          /\ Becomes(r, mem[r], Append(sq[r], w), send_cq[r], recv_cq[r],
                     Shrunk(heap[r], got.send_ctx), wc[r])
          /\ ArchiveBecomes(r, table)
      BY <1>3, <2>6 DEF RIEffect
    <3>2. /\ RITypes' /\ Good(q)
          /\ mem'[r] = mem[r] /\ sq'[r] = Append(sq[r], w)
          /\ send_cq'[r] = send_cq[r] /\ recv_cq'[r] = recv_cq[r]
          /\ heap'[r] = Shrunk(heap[r], got.send_ctx) /\ wc'[r] = wc[r]
          /\ recv_ctx_archive'[r] = table
      <4> HIDE DEF ctx, w
      <4>1. PICK m1, s1, h1, t1 : /\ m1 = mem[r] /\ s1 = Append(sq[r], w)
                                  /\ h1 = Shrunk(heap[r], got.send_ctx) /\ t1 = table
        OBVIOUS
      <4>2. /\ Becomes(r, m1, s1, send_cq[r], recv_cq[r], h1, wc[r])
            /\ ArchiveBecomes(r, t1)
        BY <3>1, <4>1
      <4>3. /\ RITypes' /\ Good(q)
            /\ mem'[r] = m1 /\ sq'[r] = s1 /\ send_cq'[r] = send_cq[r] /\ recv_cq'[r] = recv_cq[r]
            /\ heap'[r] = h1 /\ wc'[r] = wc[r] /\ recv_ctx_archive'[r] = t1
        BY <4>2, <2>a
      <4> QED  BY <4>1, <4>3
    <3>3. RIMemory(r)'
      BY <3>2, <1>m, <1>l DEF RIMemory
    <3>4. RIQueue(r)'
      <4>1. sq[r] = <<>> /\ send_cq[r] = <<>> /\ pc'[r] = "poll_write"
        BY <2>6, <2>m, <1>l DEF RIQueue
      <4>2. ctx.buf \in Nat /\ ctx.size \in Nat \ {0}
        BY <3>1, <1>h
      <4>3. wc[r].wr_id = 2
        BY <2>6, <1>l DEF RIReceived, RIArrivals
      <4>4. RICell(got)
        BY <4>3, <1>m, <1>l DEF RIMemory
      <4>5. got.recv_ctx_key \in RIKeys /\ got.remote_addr \in Nat
        BY <3>1, <4>4 DEF RICell
      <4>6. RIRequest(w)
        <5> HIDE DEF ctx, got
        <5> QED  BY <4>2, <4>5, RIMakes
      <4> HIDE DEF w
      <4> QED  BY <3>2, <4>1, <4>6, RIPosted
    <3>5. RIReceived(r)'
      BY <3>2, <2>6, <2>m, <1>1, <1>l DEF RIReceived
    <3>6. RIContexts(r)'
      <4>1. (\E x : DOMAIN heap[r] = {x}) /\ table = EmptyArchive /\ pc'[r] = "poll_write"
        BY <2>6, <2>m, <1>l DEF RIContexts, HasContext
      <4>2. DOMAIN heap'[r] = {}
        BY <4>1, <3>1, <3>2, ShrunkToEmpty
      <4> QED  BY <3>2, <4>1, <4>2 DEF RIContexts, EmptyArchive, RIKeys
    <3> QED  BY <3>2, <3>3, <3>4, <3>5, <3>6, <2>g
  <2>7. CASE pc[r] = "handle_write"
    <3> DEFINE i == wc[r].imm
    <3>1. /\ wc[r].opcode = "RECV_RDMA_WITH_IMM" /\ table[i] \in DOMAIN heap[r]
          /\ Becomes(r, mem[r], sq[r], send_cq[r], recv_cq[r], Shrunk(heap[r], table[i]), wc[r])
          /\ ArchiveBecomes(r, [table EXCEPT ![i] = LCM_ARCHIVE_EMPTY])
      BY <1>3, <2>7 DEF RIEffect
    <3>2. /\ RITypes' /\ Good(q)
          /\ mem'[r] = mem[r] /\ sq'[r] = sq[r]
          /\ send_cq'[r] = send_cq[r] /\ recv_cq'[r] = recv_cq[r]
          /\ heap'[r] = Shrunk(heap[r], table[i]) /\ wc'[r] = wc[r]
          /\ recv_ctx_archive'[r] = [table EXCEPT ![i] = LCM_ARCHIVE_EMPTY]
      BY <3>1, <2>a
    <3>3. RIMemory(r)'
      BY <3>2, <1>m, <1>l DEF RIMemory
    <3>4. RIQueue(r)'
      BY <3>2, <2>7, <2>m, <1>l DEF RIQueue
    <3>5. RIReceived(r)'
      BY <3>2, <2>7, <2>m, <1>1, <1>l DEF RIReceived
    <3>6. RIContexts(r)'
      <4>1. PICK c \in Ctx, k \in RIKeys : HasContext(r, c, "recv") /\ table = [EmptyArchive EXCEPT ![k] = c]
        BY <2>7, <1>l DEF RIContexts
      <4>2. i \in RIKeys
        BY <2>7, <3>1, <1>l DEF RIReceived, RIArrivals
      <4>3. DOMAIN heap[r] = {c} /\ c # LCM_ARCHIVE_EMPTY
        BY <4>1, CtxAssumption DEF HasContext
      <4>4. i = k
        BY <4>1, <4>2, <4>3, <3>1 DEF EmptyArchive
      <4>5. [table EXCEPT ![i] = LCM_ARCHIVE_EMPTY] = EmptyArchive
        BY <4>1, <4>4 DEF EmptyArchive
      <4>6. DOMAIN heap'[r] = {}
        <5>1. DOMAIN Shrunk(heap[r], table[i]) = {}
          BY <4>3, <3>1, ShrunkToEmpty
        <5> QED  BY <3>2, <5>1
      <4> QED  BY <3>2, <4>5, <4>6, <2>7, <2>m DEF RIContexts, EmptyArchive, RIKeys
    <3> QED  BY <3>2, <3>3, <3>4, <3>5, <3>6, <2>g
  <2>8. pc[r] # "exited"
    BY <1>3 DEF RIEffect
  <2> QED  BY <1>z, <2>1, <2>2, <2>3, <2>4, <2>5, <2>6, <2>7, <2>8 DEF RILabels
<1> QED  BY <1>1, <1>2, <1>3

----------------------------------------------------------------------------
\* The steps of the adapters keep it.

\* A request is the same in another state.
LEMMA RISame ==
    ASSUME NEW w, RIRequest(w), NEW s
    PROVE  RIRequest(InState(w, s))
<1>1. IsRequest(w) /\ w.inline = FALSE
  BY DEF RIRequest
<1>2. /\ w.buf \in Nat /\ w.len \in Nat \ {0} /\ w.raddr \in Nat
      /\ \/ w.op = "SEND_IMM" /\ w.imm \in {"RTS", "RTR"}
         \/ w.op = "WRITE_IMM" /\ w.imm \in RIKeys
  BY DEF RIRequest
<1>3. PICK x : x = InState(w, s)
  OBVIOUS
<1>4. IsRequest(x) /\ x.inline = w.inline
  BY <1>1, <1>3, RequestInState, ZenonT(40)
<1>5. x.op = w.op /\ x.buf = w.buf /\ x.len = w.len /\ x.raddr = w.raddr /\ x.imm = w.imm
  BY <1>1, <1>3, RequestInState
<1>6. /\ x.buf \in Nat /\ x.len \in Nat \ {0} /\ x.raddr \in Nat
      /\ \/ x.op = "SEND_IMM" /\ x.imm \in {"RTS", "RTR"}
         \/ x.op = "WRITE_IMM" /\ x.imm \in RIKeys
  BY <1>2, <1>5
<1>7. RIRequest(x)
  BY <1>1, <1>4, <1>6, Zenon DEF RIRequest
<1> QED  BY <1>3, <1>7

\* A step of the adapters.
LEMMA RIAdapterKept ==
    ASSUME RIInv, NEW r \in Ranks, Adapter(r) \/ LoseAck(r),
           UNCHANGED <<config, pc, call, heap, wc, recv_ctx_archive>>
    PROVE  RIInv'
<1> DEFINE q == Peer(r)
           Good(p) == RIMemory(p)' /\ RIQueue(p)' /\ RIReceived(p)' /\ RIContexts(p)'
<1>q. q \in Ranks /\ q # r /\ Ranks = {r, q}
  BY PeerFacts DEF Ranks, Peer
<1>t. /\ RdvFuns /\ IsFun(recv_ctx_archive) /\ config.inline_size = 0 /\ max_msg_size \in Nat
      /\ pc \in [Ranks -> RILabels] /\ call \in [Ranks -> Calls]
  BY DEF RIInv, RITypes
<1>l. /\ RIMemory(r) /\ RIQueue(r) /\ RIReceived(r) /\ RIContexts(r)
      /\ RIMemory(q) /\ RIQueue(q) /\ RIReceived(q) /\ RIContexts(q)
  BY <1>q DEF RIInv
<1>m. /\ max_msg_size' = max_msg_size /\ RISize' = RISize /\ RISize \in Nat
      /\ 2 \in 0 .. RISize - 1
  BY <1>t DEF max_msg_size, RISize
<1>w. PICK w : /\ sq[r] = <<w>> /\ RIRequest(w) /\ send_cq[r] = <<>>
               /\ pc[r] \in {"poll_rts", "poll_rtr", "poll_write"}
  <2>1. sq[r] # <<>>
    BY AdapterNeedsRequest
  <2> QED  BY <2>1, <1>l DEF RIQueue
<1>o. w.op \in {"SEND_IMM", "WRITE_IMM"}
  BY <1>w DEF RIRequest
<1>1. /\ AreFuns'
      /\ sq'[q] = sq[q] /\ send_cq'[q] = send_cq[q]
      /\ srq'[r] = srq[r] /\ recv_cq'[r] = recv_cq[r]
      /\ \/ DoDeliver(r, w) \/ DoPlace(r, w) \/ DoRespond(r, w)
         \/ DoChange(r, w) \/ DoFinish(r, w)
  BY <1>t, <1>w, AdapterDoes DEF RdvFuns
<1>2. RITypes'
  <2>1. RdvFuns' /\ IsFun(recv_ctx_archive')
    BY <1>1, <1>t DEF RdvFuns, IsFun
  <2> QED  BY <2>1, <1>t, <1>m DEF RITypes
<1>3. mem'[r] = mem[r]
  BY <1>1, <1>o DEF DoDeliver, DoPlace, DoRespond, DoChange, DoFinish
<1>4. RIMemory(r)'
  BY <1>3, <1>m, <1>l DEF RIMemory
<1>5. RIReceived(r)' /\ RIContexts(r)' /\ RIContexts(q)'
  <2>1. RIReceived(r)'
    BY <1>1, <1>l DEF RIReceived, Receives
  <2>2. RIContexts(r)' /\ RIContexts(q)'
    BY <1>l DEF RIContexts, HasContext
  <2> QED  BY <2>1, <2>2
<1>6. RIQueue(q)'
  BY <1>1, <1>l DEF RIQueue
<1>7. RIQueue(r)'
  <2>1. \/ send_cq'[r] = <<>> /\ \E s : sq'[r] = <<InState(w, s)>>
        \/ sq'[r] = <<>> /\ \E x : send_cq'[r] = <<x>>
    BY <1>1, <1>o DEF DoDeliver, DoPlace, DoRespond, DoChange, DoFinish
  <2>2. \/ send_cq'[r] = <<>> /\ \E x : sq'[r] = <<x>> /\ RIRequest(x)
        \/ sq'[r] = <<>> /\ \E x : send_cq'[r] = <<x>>
    BY <2>1, <1>w, RISame
  <2> QED  BY <2>2, <1>w DEF RIQueue, RIRequest, IsRequest, RIKeys
<1>8. RIMemory(q)' /\ RIReceived(q)'
  <2>1. CASE DoDeliver(r, w)
    <3> DEFINE s == Head(srq[q])
               b == IF w.op = "WRITE_IMM" THEN w.raddr ELSE s.buf
               p == Payload(r, w)
               c == [status |-> "SUCCESS",
                     opcode |-> IF w.op = "WRITE_IMM" THEN "RECV_RDMA_WITH_IMM" ELSE "RECV",
                     imm |-> w.imm, wr_id |-> s.wr_id]
    <3>1. /\ ~ Refused(r, w) /\ srq[q] # <<>> /\ mem'[q] = Store(mem[q], b, p)
          /\ srq'[q] = Tail(srq[q]) /\ recv_cq'[q] = Append(recv_cq[q], c)
      BY <2>1 DEF DoDeliver
    <3>2. srq[q] \in Seq({Receive(2)}) /\ recv_cq[q] \in Seq(RIArrivals)
      BY <1>l DEF RIReceived, Receives
    <3>3. s = Receive(2) /\ Tail(srq[q]) \in Seq({Receive(2)})
      BY <3>1, <3>2
    <3>4. s.buf = 2 /\ s.wr_id = 2
      BY <3>3 DEF Receive
    <3>5. c \in RIArrivals
      <4>1. \/ w.op = "SEND_IMM" /\ w.imm \in {"RTS", "RTR"}
            \/ w.op = "WRITE_IMM" /\ w.imm \in RIKeys
        BY <1>w DEF RIRequest
      <4> HIDE DEF s
      <4>2. CASE w.op = "SEND_IMM"
        BY <4>1, <4>2, <3>4 DEF RIArrivals
      <4>3. CASE w.op = "WRITE_IMM"
        BY <4>1, <4>3, <3>4 DEF RIArrivals
      <4> QED  BY <4>1, <4>2, <4>3
    <3> HIDE DEF c
    <3>6. Append(recv_cq[q], c) \in Seq(RIArrivals)
      BY <3>2, <3>5
    <3>7. RIReceived(q)'
      <4>1. Receives(q, 2)'
        BY <3>1, <3>3 DEF Receives
      <4>2. recv_cq'[q] \in Seq(RIArrivals)
        BY <3>1, <3>6
      <4> QED  BY <4>1, <4>2, <1>l DEF RIReceived, RIArrivals, RIKeys
    <3>8. b \in Nat
      BY <3>4, <1>w DEF RIRequest
    <3>9. w.inline = FALSE /\ w.buf \in Nat /\ w.len \in Nat \ {0}
      BY <1>w DEF RIRequest
    <3>10. p = Load(mem[r], w.buf, w.len)
      BY <3>9, Zenon DEF Payload
    <3>11. Len(p) = w.len /\ \A k \in 1 .. w.len : p[k] = mem[r][w.buf + k - 1]
      BY <3>9, <3>10 DEF Load
    <3>12. \A k \in 1 .. w.len : RICell(p[k])
      <4>1. w.buf .. w.buf + w.len - 1 \subseteq DOMAIN mem[r]
        BY <3>1 DEF Refused, InRegion
      <4>2. DOMAIN mem[r] = 0 .. RISize - 1 /\ \A a \in 0 .. RISize - 1 : RICell(mem[r][a])
        BY <1>l DEF RIMemory, HasDomain
      <4>3. \A k \in 1 .. w.len : w.buf + k - 1 \in w.buf .. w.buf + w.len - 1
        BY <3>9
      <4> QED  BY <3>11, <4>1, <4>2, <4>3
    <3> HIDE DEF b, p
    <3>13. /\ HasDomain(Store(mem[q], b, p), RISize)
           /\ \A a \in 0 .. RISize - 1 : RICell(Store(mem[q], b, p)[a])
      <4>1. HasDomain(mem[q], RISize) /\ \A a \in 0 .. RISize - 1 : RICell(mem[q][a])
        BY <1>l DEF RIMemory
      <4>2. Len(p) \in Nat /\ \A k \in 1 .. Len(p) : RICell(p[k])
        BY <3>9, <3>11, <3>12
      <4> QED  BY <3>8, <4>1, <4>2, <1>m, GoodCellsStored
    <3>14. RIMemory(q)'
      BY <3>1, <3>13, <1>m DEF RIMemory
    <3> QED  BY <3>7, <3>14
  <2>2. CASE ~ DoDeliver(r, w)
    <3>1. mem'[q] = mem[q] /\ srq'[q] = srq[q] /\ recv_cq'[q] = recv_cq[q]
      BY <2>2, <1>1, <1>o DEF DoPlace, DoRespond, DoChange, DoFinish
    <3>2. RIMemory(q)'
      BY <3>1, <1>m, <1>l DEF RIMemory
    <3>3. RIReceived(q)'
      BY <3>1, <1>l DEF RIReceived, Receives
    <3> QED  BY <3>2, <3>3
  <2> QED  BY <2>1, <2>2
<1> QED  BY <1>2, <1>4, <1>5, <1>6, <1>7, <1>8, <1>q DEF RIInv

\* posted_recv_num, in the state before a step.
LEMMA PostedInRange ==
    ASSUME Pool!PoolExact, NEW r \in Ranks
    PROVE  posted_recv_num[r] \in 0 .. MaxRecv
<1>1. posted_recv_num[r] \in Nat /\ (posted_recv_num[r] = 0 \/ posted_recv_num[r] \in MinRecv .. MaxRecv)
  BY DEF Pool!PoolExact
<1> QED  BY <1>1, FabricAssumption, DeviceAssumption

----------------------------------------------------------------------------
\* The control messages between two ranks: the k-th message a rank receives is
\* the k-th its peer posted.

\* The requests that consume a receive of the peer.
Messages == {"SEND_IMM", "WRITE_IMM"}

\* The receive completion of request w; receives name their line.
Arrival(w, line) ==
    [status |-> "SUCCESS",
     opcode |-> IF w.op = "WRITE_IMM" THEN "RECV_RDMA_WITH_IMM" ELSE "RECV",
     imm |-> w.imm, wr_id |-> line]

\* Cell m and completion e are what message number k to rank q of
\* ibv_pingpong_rdv_write.cpp leaves: three messages in each call.
RWFits(q, k, e, m) ==
    /\ e.opcode = "RECV" /\ e.wr_id = 3 /\ m.v = e.imm
    /\ m.t \in Nat /\ 3 * (m.t - 1) < k /\ k <= 3 * m.t
    /\ m.v = "RTR" => m.remote_addr \in Nat /\ m.remote_addr > 3

\* The same of ibv_pingpong_rdv_write_imm.cpp, where one of the three is a
\* write that leaves the line alone.
RIFits(q, k, e, m) ==
    \E n \in Nat :
        /\ 3 * (n - 1) < k /\ k <= 3 * n
        /\ k # 3 * n - q => e.opcode = "RECV"
        /\ e.opcode = "RECV" =>
               /\ e.wr_id = 2 /\ m.v = e.imm /\ m.t = n
               /\ m.v = "RTR" => m.remote_addr \in Nat /\ m.remote_addr > 2

\* The same of ibv_pingpong_rdv_read.cpp: an RTS and a FIN in each call.
RRFits(q, k, e, m) ==
    /\ e.wr_id = 2 /\ m.v = e.imm
    /\ m.t \in Nat /\ 2 * (m.t - 1) < k /\ k <= 2 * m.t
    /\ k = 2 * m.t - q => e.imm = "RTS"

\* The same of the program p.
Fits(p, q, k, e, m) ==
    /\ p = "rdv_write" => RWFits(q, k, e, m)
    /\ p = "rdv_write_imm" => RIFits(q, k, e, m)
    /\ p = "rdv_read" => RRFits(q, k, e, m)

\* Request w of rank r, with memory m, after o messages were posted: a
\* message is the o-th, and nothing else it does reaches the line.
Sound(p, r, line, o, w, m) ==
    /\ IsRequest(w) /\ w.inline = FALSE
    /\ \/ /\ w.op = "SEND_IMM" /\ w.len = 1 /\ w.buf \in 0 .. line - 1
          /\ w.st = "posted" => Fits(p, Peer(r), o, Arrival(w, line), m[w.buf])
       \/ /\ w.op = "WRITE_IMM" /\ w.raddr \in Nat /\ w.raddr > line
          /\ w.st = "posted" => \A x : Fits(p, Peer(r), o, Arrival(w, line), x)
       \/ /\ w.op = "WRITE" /\ w.raddr \in Nat /\ w.raddr > line
          /\ w.st = "posted" => \E j, k \in Nat \ {0} : j <= k /\ w.left = j .. k
       \/ w.op = "READ" /\ w.buf \in Nat /\ w.buf > line

\* The send queue s and the completions sc of rank r: one request at a time.
Outstanding(p, r, line, o, s, sc, m) ==
    \/ s = <<>> /\ (sc = <<>> \/ \E x : sc = <<x>>)
    \/ sc = <<>> /\ \E w : s = <<w>> /\ Sound(p, r, line, o, w, m)

\* The messages that are in a send queue and not delivered yet.
Flying(s) == IF s # <<>> /\ s[1].st = "posted" /\ s[1].op \in Messages THEN 1 ELSE 0

\* A request has failed; its rank is about to abort.
Broken(sc) == sc # <<>> /\ sc[1].status = "ERROR"

\* The completion of the message that arrived last: in the queue rc, or taken.
Latest(rc, c) == IF rc = <<>> THEN c ELSE rc[Len(rc)]

\* Rank q has taken i messages, its peer, with the queues s and sc, has posted
\* o: none is lost or duplicated, and the last one is in the line.
Link(p, q, i, o, rc, c, cell, s, sc) ==
    LET k == i + Len(rc)
    IN /\ k + Flying(s) <= o
       /\ k + Flying(s) = o \/ Broken(sc)
       /\ k > 0 => Fits(p, q, k, Latest(rc, c), cell)

\* Rank r has taken in[r] messages and has posted out[r].
Channels(p, line, size, in, out) ==
    /\ RdvFuns
    /\ \A r \in Ranks :
         /\ HasDomain(mem[r], size) /\ Receives(r, line) /\ IsSeq(recv_cq[r])
         /\ Outstanding(p, r, line, out[r], sq[r], send_cq[r], mem[r])
         /\ Link(p, r, in[r], out[Peer(r)], recv_cq[r], wc[r], mem[r][line],
                 sq[Peer(r)], send_cq[Peer(r)])

\* A count that is n times h in earlier calls, and 1, 2 or 3 more at labels of
\* these sets.
Counted(h, n, l, one, two, three) ==
    h * (n - 1) + (IF l \in one THEN 1 ELSE IF l \in two THEN 2 ELSE IF l \in three THEN 3 ELSE 0)

\* What the operations on a queue do to its length.
LEMMA QueueSteps ==
    ASSUME NEW s, IsSeq(s)
    PROVE  /\ Len(s) \in Nat
           /\ \A x : IsSeq(Append(s, x)) /\ Len(Append(s, x)) = Len(s) + 1
           /\ s # <<>> => IsSeq(Tail(s)) /\ Len(Tail(s)) = Len(s) - 1 /\ Len(s) > 0
           /\ \A n \in Nat : \A x :
                LET t == [k \in 1 .. n |-> x]
                IN  IsSeq(s \o t) /\ Len(s \o t) = Len(s) + n
<1>1. ASSUME NEW S, NEW t \in Seq(S)  PROVE IsSeq(t)
  BY <1>1 DEF IsSeq
<1> DEFINE S == {s[k] : k \in DOMAIN s}
<1>2. s \in Seq(S)
  BY DEF IsSeq
<1>3. ASSUME NEW x  PROVE IsSeq(Append(s, x)) /\ Len(Append(s, x)) = Len(s) + 1
  <2>1. s \in Seq(S \cup {x})
    BY <1>2
  <2>2. Append(s, x) \in Seq(S \cup {x}) /\ Len(Append(s, x)) = Len(s) + 1
    BY <2>1
  <2> QED  BY <2>2, <1>1
<1>4. ASSUME s # <<>>  PROVE IsSeq(Tail(s)) /\ Len(Tail(s)) = Len(s) - 1 /\ Len(s) > 0
  <2>1. Tail(s) \in Seq(S) /\ Len(Tail(s)) = Len(s) - 1 /\ Len(s) > 0
    BY <1>2, <1>4
  <2> QED  BY <2>1, <1>1
<1>5. ASSUME NEW n \in Nat, NEW x
      PROVE  LET t == [k \in 1 .. n |-> x] IN IsSeq(s \o t) /\ Len(s \o t) = Len(s) + n
  <2> DEFINE t == [k \in 1 .. n |-> x]
  <2>1. s \in Seq(S \cup {x})
    BY <1>2
  <2>2. t \in Seq(S \cup {x}) /\ Len(t) = n
    OBVIOUS
  <2>3. s \o t \in Seq(S \cup {x}) /\ Len(s \o t) = Len(s) + n
    BY <2>1, <2>2
  <2> QED  BY <2>3, <1>1
<1> QED  BY <1>2, <1>3, <1>4, <1>5

\* Placing a cell changes only what is left and the state of the request.
LEMMA RequestPlaced ==
    ASSUME NEW w, IsRequest(w), NEW l, NEW s
    PROVE  /\ IsRequest(Placed(w, l, s))
           /\ Placed(w, l, s).st = s /\ Placed(w, l, s).op = w.op
           /\ Placed(w, l, s).raddr = w.raddr /\ Placed(w, l, s).len = w.len
           /\ Placed(w, l, s).left = l /\ Placed(w, l, s).buf = w.buf
<1>0. PICK x : x = Placed(w, l, s)
  OBVIOUS
<1>1. x = [op |-> w.op, buf |-> w.buf, len |-> w.len, raddr |-> w.raddr, imm |-> w.imm,
           wr_id |-> w.wr_id, inline |-> w.inline, st |-> s, data |-> w.data,
           left |-> l]
  BY <1>0 DEF IsRequest, Placed
<1>2. /\ x.st = s /\ x.op = w.op /\ x.raddr = w.raddr /\ x.len = w.len /\ x.left = l
      /\ x.buf = w.buf /\ x.imm = w.imm /\ x.wr_id = w.wr_id /\ x.inline = w.inline
      /\ x.data = w.data
  BY <1>1
<1>3. IsRequest(x)
  BY <1>1, <1>2 DEF IsRequest
<1> QED  BY <1>0, <1>2, <1>3

\* The smallest and the largest number of an interval.
LEMMA IntervalEnds ==
    ASSUME NEW j \in Nat, NEW k \in Nat, j <= k
    PROVE  Min(j .. k) = j /\ Max(j .. k) = k
<1>1. /\ j \in j .. k /\ \A y \in j .. k : j <= y
      /\ k \in j .. k /\ \A y \in j .. k : k >= y
  OBVIOUS
<1>2. ASSUME NEW x \in j .. k, \A y \in j .. k : x <= y  PROVE x = j
  BY <1>1, <1>2
<1>3. ASSUME NEW x \in j .. k, \A y \in j .. k : x >= y  PROVE x = k
  BY <1>1, <1>3
<1>4. Min(j .. k) \in j .. k /\ \A y \in j .. k : Min(j .. k) <= y
  BY <1>1 DEF Min
<1>5. Max(j .. k) \in j .. k /\ \A y \in j .. k : Max(j .. k) >= y
  BY <1>1 DEF Max
<1> QED  BY <1>2, <1>3, <1>4, <1>5

\* Placing a cell leaves it to be fetched from memory.
LEMMA PlacedInline ==
    ASSUME NEW w, IsRequest(w), w.inline = FALSE, NEW l, NEW s
    PROVE  Placed(w, l, s).inline = FALSE
<1>0. PICK x : x = Placed(w, l, s)
  OBVIOUS
<1>1. x = [op |-> w.op, buf |-> w.buf, len |-> w.len, raddr |-> w.raddr, imm |-> w.imm,
           wr_id |-> w.wr_id, inline |-> w.inline, st |-> s, data |-> w.data,
           left |-> l]
  BY <1>0 DEF IsRequest, Placed
<1>2. x.inline = w.inline
  BY <1>1
<1> QED  BY <1>0, <1>2

\* An answered read is the same request otherwise.
LEMMA RequestAnswered ==
    ASSUME NEW w, IsRequest(w), NEW d
    PROVE  /\ IsRequest(Answered(w, d)) /\ Answered(w, d).op = w.op
           /\ Answered(w, d).buf = w.buf /\ Answered(w, d).inline = w.inline
           /\ Answered(w, d).st = "acked"
<1>0. PICK x : x = Answered(w, d)
  OBVIOUS
<1>1. x = [op |-> w.op, buf |-> w.buf, len |-> w.len, raddr |-> w.raddr, imm |-> w.imm,
           wr_id |-> w.wr_id, inline |-> w.inline, st |-> "acked", data |-> d,
           left |-> w.left]
  BY <1>0 DEF IsRequest, Answered
<1>2. /\ x.st = "acked" /\ x.op = w.op /\ x.raddr = w.raddr /\ x.len = w.len /\ x.left = w.left
      /\ x.buf = w.buf /\ x.imm = w.imm /\ x.wr_id = w.wr_id /\ x.inline = w.inline
      /\ x.data = d
  BY <1>1
<1>3. IsRequest(x)
  BY <1>1, <1>2 DEF IsRequest
<1> QED  BY <1>0, <1>2, <1>3

\* What is outstanding does not depend on cells from the line on.
LEMMA OutstandingKept ==
    ASSUME NEW p, NEW r, NEW line \in Nat, NEW o, NEW s, NEW sc, NEW m, NEW m2,
           Outstanding(p, r, line, o, s, sc, m), \A a \in 0 .. line - 1 : m2[a] = m[a]
    PROVE  Outstanding(p, r, line, o, s, sc, m2)
<1>1. CASE sc = <<>> /\ \E w : s = <<w>> /\ Sound(p, r, line, o, w, m)
  <2>1. PICK w : s = <<w>> /\ Sound(p, r, line, o, w, m)
    BY <1>1
  <2>2. w.op = "SEND_IMM" => m2[w.buf] = m[w.buf]
    BY <2>1 DEF Sound
  <2>3. Sound(p, r, line, o, w, m2)
    BY <2>1, <2>2 DEF Sound
  <2> QED  BY <1>1, <2>1, <2>3 DEF Outstanding
<1> QED  BY <1>1 DEF Outstanding

\* A request that is not posted any more stays sound in another such state.
LEMMA SoundAfter ==
    ASSUME NEW p, NEW r, NEW line, NEW o, NEW w, NEW m, Sound(p, r, line, o, w, m), NEW s,
           s # "posted" \/ w.op = "READ"
    PROVE  Sound(p, r, line, o, InState(w, s), m)
<1>0. IsRequest(w)
  BY DEF Sound
<1>1. PICK x : x = InState(w, s)
  OBVIOUS
<1>2. /\ IsRequest(x) /\ x.st = s /\ x.op = w.op /\ x.buf = w.buf /\ x.len = w.len
      /\ x.raddr = w.raddr /\ x.inline = w.inline
  BY <1>0, <1>1, RequestInState
<1>3. Sound(p, r, line, o, x, m)
  <2>1. x.inline = FALSE
    BY <1>2, Zenon DEF Sound
  <2> QED  BY <2>1, <1>2 DEF Sound
<1> QED  BY <1>1, <1>3

\* A step of the adapters for rank r.
LEMMA ChannelsCarried ==
    ASSUME NEW p, NEW line \in Nat, NEW size \in Nat, line < size,
           NEW in \in [Ranks -> Int], NEW out \in [Ranks -> Int],
           Channels(p, line, size, in, out),
           NEW r \in Ranks, Adapter(r) \/ LoseAck(r), UNCHANGED <<heap, wc>>
    PROVE  /\ Channels(p, line, size, in, out)'
           /\ \A x \in Ranks :
                  /\ \A a \in 0 .. line - 1 : mem'[x][a] = mem[x][a]
                  /\ sq[x] = <<>> => sq'[x] = sq[x] /\ send_cq'[x] = send_cq[x]
<1> DEFINE d == Peer(r)
           i == in[d]
           o == out[r]
<1>q. d \in Ranks /\ d # r /\ Peer(d) = r /\ Ranks = {r, d}
  BY PeerFacts DEF Ranks, Peer
<1>n. i \in Int /\ o \in Int
  BY <1>q
<1> HIDE DEF d, i, o
<1>a. /\ RdvFuns /\ HasDomain(mem[r], size) /\ Receives(r, line) /\ IsSeq(recv_cq[r])
      /\ HasDomain(mem[d], size) /\ Receives(d, line) /\ IsSeq(recv_cq[d])
      /\ Outstanding(p, r, line, o, sq[r], send_cq[r], mem[r])
      /\ Outstanding(p, d, line, out[d], sq[d], send_cq[d], mem[d])
      /\ Link(p, r, in[r], out[d], recv_cq[r], wc[r], mem[r][line], sq[d], send_cq[d])
      /\ Link(p, d, i, o, recv_cq[d], wc[d], mem[d][line], sq[r], send_cq[r])
  BY <1>q DEF Channels, d, i, o
<1>b. SUFFICES
      /\ RdvFuns' /\ HasDomain(mem'[r], size) /\ Receives(r, line)' /\ IsSeq(recv_cq'[r])
      /\ HasDomain(mem'[d], size) /\ Receives(d, line)' /\ IsSeq(recv_cq'[d])
      /\ Outstanding(p, r, line, o, sq'[r], send_cq'[r], mem'[r])
      /\ Outstanding(p, d, line, out[d], sq'[d], send_cq'[d], mem'[d])
      /\ Link(p, r, in[r], out[d], recv_cq'[r], wc'[r], mem'[r][line], sq'[d], send_cq'[d])
      /\ Link(p, d, i, o, recv_cq'[d], wc'[d], mem'[d][line], sq'[r], send_cq'[r])
      /\ \A a \in 0 .. line - 1 : mem'[r][a] = mem[r][a] /\ mem'[d][a] = mem[d][a]
      /\ sq[r] = <<>> => sq'[r] = sq[r] /\ send_cq'[r] = send_cq[r]
      /\ sq[d] = <<>> => sq'[d] = sq[d] /\ send_cq'[d] = send_cq[d]
  <2>1. Channels(p, line, size, in, out)'
    BY <1>b, <1>q DEF Channels, d, i, o
  <2>2. ASSUME NEW x \in Ranks
        PROVE  /\ \A a \in 0 .. line - 1 : mem'[x][a] = mem[x][a]
               /\ sq[x] = <<>> => sq'[x] = sq[x] /\ send_cq'[x] = send_cq[x]
    <3>1. x = r \/ x = d
      BY <1>q
    <3> QED  BY <3>1, <1>b
  <2> QED  BY <2>1, <2>2
<1>w. PICK w : sq[r] = <<w>> /\ send_cq[r] = <<>> /\ Sound(p, r, line, o, w, mem[r])
  <2>1. sq[r] # <<>>
    BY AdapterNeedsRequest
  <2> QED  BY <2>1, <1>a DEF Outstanding
<1>o. IsRequest(w) /\ w.op \in {"SEND_IMM", "WRITE_IMM", "WRITE", "READ"}
  BY <1>w DEF Sound
<1>1. /\ AreFuns'
      /\ sq'[d] = sq[d] /\ send_cq'[d] = send_cq[d]
      /\ srq'[r] = srq[r] /\ recv_cq'[r] = recv_cq[r]
      /\ \/ DoDeliver(r, w) \/ DoPlace(r, w) \/ DoRespond(r, w)
         \/ DoChange(r, w) \/ DoFinish(r, w)
  BY <1>a, <1>w, AdapterDoes DEF RdvFuns, d
<1>x. /\ sq[r] = <<>> => sq'[r] = sq[r] /\ send_cq'[r] = send_cq[r]
      /\ sq[d] = <<>> => sq'[d] = sq[d] /\ send_cq'[d] = send_cq[d]
  BY <1>1, <1>w
<1>2. RdvFuns' /\ Receives(r, line)' /\ IsSeq(recv_cq'[r]) /\ wc'[r] = wc[r] /\ wc'[d] = wc[d]
  BY <1>1, <1>a DEF RdvFuns, IsFun, Receives
<1>3. ASSUME NEW m, HasDomain(m, size), NEW b, b \in Nat, b > line, NEW data
      PROVE  HasDomain(Store(m, b, data), size) /\ \A a \in 0 .. line : Store(m, b, data)[a] = m[a]
  <2>1. \A a \in 0 .. line : a \in 0 .. size - 1 /\ a \notin b .. b + Len(data) - 1
    BY <1>3
  <2> QED  BY <1>3, <2>1, StoreKeeps
<1>4. /\ HasDomain(mem'[r], size) /\ \A a \in 0 .. line : mem'[r][a] = mem[r][a]
      /\ \A a \in 0 .. line - 1 : mem'[r][a] = mem[r][a]
  <2>1. \/ mem'[r] = mem[r]
        \/ w.op = "READ" /\ mem'[r] = Store(mem[r], w.buf, w.data)
    BY <1>1 DEF DoDeliver, DoPlace, DoRespond, DoChange, DoFinish
  <2>2. w.op = "READ" => w.buf \in Nat /\ w.buf > line
    BY <1>w DEF Sound
  <2>3. HasDomain(mem'[r], size) /\ \A a \in 0 .. line : mem'[r][a] = mem[r][a]
    BY <2>1, <2>2, <1>3, <1>a
  <2> QED  BY <2>3
<1>5. Link(p, r, in[r], out[d], recv_cq'[r], wc'[r], mem'[r][line], sq'[d], send_cq'[d])
  <2>1. mem'[r][line] = mem[r][line]
    BY <1>4
  <2> QED  BY <2>1, <1>1, <1>2, <1>a
<1>6. ASSUME Outstanding(p, r, line, o, sq'[r], send_cq'[r], mem[r])
      PROVE  Outstanding(p, r, line, o, sq'[r], send_cq'[r], mem'[r])
  <2>1. \A a \in 0 .. line - 1 : mem'[r][a] = mem[r][a]
    BY <1>4
  <2> QED  BY <2>1, <1>6, OutstandingKept
<1>7. ASSUME \A a \in 0 .. line - 1 : mem'[d][a] = mem[d][a]
      PROVE  Outstanding(p, d, line, out[d], sq'[d], send_cq'[d], mem'[d])
  BY <1>7, <1>1, <1>a, OutstandingKept
<1>8. ASSUME HasDomain(mem'[d], size), \A a \in 0 .. line : mem'[d][a] = mem[d][a],
             srq'[d] = srq[d], recv_cq'[d] = recv_cq[d],
             Outstanding(p, r, line, o, sq'[r], send_cq'[r], mem[r]),
             Flying(sq'[r]) = Flying(sq[r]) \/ (Broken(send_cq'[r]) /\ sq'[r] = <<>>),
             w.op \in Messages /\ w.st = "posted" => Flying(sq[r]) = 1
      PROVE  /\ HasDomain(mem'[d], size) /\ Receives(d, line)' /\ IsSeq(recv_cq'[d])
             /\ Outstanding(p, r, line, o, sq'[r], send_cq'[r], mem'[r])
             /\ Outstanding(p, d, line, out[d], sq'[d], send_cq'[d], mem'[d])
             /\ Link(p, d, i, o, recv_cq'[d], wc'[d], mem'[d][line], sq'[r], send_cq'[r])
             /\ \A a \in 0 .. line - 1 : mem'[d][a] = mem[d][a]
  <2>1. mem'[d][line] = mem[d][line] /\ \A a \in 0 .. line - 1 : mem'[d][a] = mem[d][a]
    BY <1>8
  <2>2. Receives(d, line)' /\ IsSeq(recv_cq'[d])
    BY <1>8, <1>a DEF Receives
  <2>3. Link(p, d, i, o, recv_cq'[d], wc'[d], mem'[d][line], sq'[r], send_cq'[r])
    <3> DEFINE k == i + Len(recv_cq[d])
    <3>1. /\ k + Flying(sq[r]) <= o
          /\ k + Flying(sq[r]) = o \/ Broken(send_cq[r])
          /\ k > 0 => Fits(p, d, k, Latest(recv_cq[d], wc[d]), mem[d][line])
      BY <1>a DEF Link
    <3>2. ~ Broken(send_cq[r])
      BY <1>w DEF Broken
    <3>3. k \in Int
      BY <1>n, <1>a, QueueSteps
    <3> HIDE DEF k
    <3>4. Flying(sq[r]) \in {0, 1} /\ (sq'[r] = <<>> => Flying(sq'[r]) = 0)
      BY DEF Flying
    <3>5. /\ k + Flying(sq'[r]) <= o
          /\ k + Flying(sq'[r]) = o \/ Broken(send_cq'[r])
      BY <3>1, <3>2, <3>3, <3>4, <1>8, <1>n
    <3>6. k > 0 => Fits(p, d, k, Latest(recv_cq'[d], wc'[d]), mem'[d][line])
      BY <3>1, <2>1, <1>2, <1>8
    <3> QED  BY <3>5, <3>6, <1>8 DEF Link, k
  <2> QED  BY <1>6, <1>7, <1>8, <2>1, <2>2, <2>3
<1>9. Flying(sq[r]) = IF w.st = "posted" /\ w.op \in Messages THEN 1 ELSE 0
  BY <1>w DEF Flying
<1>10. CASE DoDeliver(r, w)
  <2> DEFINE e == Arrival(w, line)
             b == IF w.op = "WRITE_IMM" THEN w.raddr ELSE line
             data == Payload(r, w)
             k == i + Len(recv_cq[d])
  <2>1. srq[d] # <<>> /\ srq[d] \in Seq({Receive(line)})
    BY <1>10, <1>a DEF DoDeliver, Receives, d
  <2>2. Head(srq[d]) = Receive(line) /\ Tail(srq[d]) \in Seq({Receive(line)})
    BY <2>1
  <2>3. Head(srq[d]).buf = line /\ Head(srq[d]).wr_id = line
    BY <2>2 DEF Receive
  <2>4. /\ w.st = "posted" /\ w.op \in Messages
        /\ mem'[d] = Store(mem[d], b, data) /\ srq'[d] = Tail(srq[d])
        /\ recv_cq'[d] = Append(recv_cq[d], e)
        /\ send_cq'[r] = <<>> /\ sq'[r] = <<InState(w, "acked")>>
    BY <1>10, <1>o, <2>3 DEF DoDeliver, Messages, Arrival, d
  <2>5. /\ HasDomain(mem'[d], size) /\ \A a \in 0 .. line - 1 : mem'[d][a] = mem[d][a]
        /\ Fits(p, d, o, e, mem'[d][line])
    <3>1. CASE w.op = "WRITE_IMM"
      <4>1. w.raddr \in Nat /\ w.raddr > line /\ \A x : Fits(p, d, o, e, x)
        BY <3>1, <2>4, <1>w DEF Sound, d
      <4> HIDE DEF data, e
      <4>2. mem'[d] = Store(mem[d], w.raddr, data)
        BY <3>1, <2>4
      <4>3. HasDomain(mem'[d], size) /\ \A a \in 0 .. line : mem'[d][a] = mem[d][a]
        BY <4>1, <4>2, <1>3, <1>a
      <4> QED  BY <4>1, <4>3
    <3>2. CASE w.op = "SEND_IMM"
      <4>1. /\ w.len = 1 /\ w.buf \in 0 .. line - 1 /\ w.inline = FALSE
            /\ Fits(p, d, o, e, mem[r][w.buf])
        BY <3>2, <2>4, <1>w DEF Sound, d
      <4>2. data = Load(mem[r], w.buf, 1)
        BY <4>1, Zenon DEF Payload
      <4>3. Len(data) = 1 /\ data[1] = mem[r][w.buf]
        BY <4>1, <4>2 DEF Load
      <4> HIDE DEF data, e
      <4>4. mem'[d] = Store(mem[d], line, data)
        BY <2>4, <3>2
      <4>5. HasDomain(mem'[d], size) /\ \A a \in 0 .. line - 1 : mem'[d][a] = mem[d][a]
        <5>1. \A a \in 0 .. line - 1 : a \in 0 .. size - 1 /\ a \notin line .. line + Len(data) - 1
          BY <4>3
        <5> QED  BY <5>1, <4>4, <1>a, StoreKeeps
      <4>6. mem'[d][line] = data[1]
        <5>1. DOMAIN mem[d] = 0 .. size - 1 /\ line \in 0 .. size - 1
          BY <1>a DEF HasDomain
        <5>2. line \in line .. line + Len(data) - 1 /\ line - line + 1 = 1
          BY <4>3
        <5> QED  BY <4>4, <5>1, <5>2 DEF Store
      <4> QED  BY <4>1, <4>3, <4>5, <4>6
    <3> QED  BY <3>1, <3>2, <2>4 DEF Messages
  <2>6. Receives(d, line)'
    BY <2>2, <2>4 DEF Receives
  <2>7. Outstanding(p, r, line, o, sq'[r], send_cq'[r], mem[r])
    <3>1. Sound(p, r, line, o, InState(w, "acked"), mem[r])
      BY <1>w, SoundAfter
    <3> QED  BY <3>1, <2>4 DEF Outstanding
  <2>8. Link(p, d, i, o, recv_cq'[d], wc'[d], mem'[d][line], sq'[r], send_cq'[r])
        /\ IsSeq(recv_cq'[d])
    <3>1. k + Flying(sq[r]) = o
      BY <1>a, <1>w DEF Link, Broken
    <3>2. Flying(sq[r]) = 1
      BY <1>9, <2>4
    <3>3. Flying(sq'[r]) = 0
      <4>1. InState(w, "acked").st = "acked"
        BY <1>o, RequestInState
      <4> QED  BY <4>1, <2>4 DEF Flying
    <3>4. Len(recv_cq[d]) \in Nat /\ Len(recv_cq'[d]) = Len(recv_cq[d]) + 1 /\ IsSeq(recv_cq'[d])
      BY <2>4, <1>a, QueueSteps
    <3>5. recv_cq'[d] # <<>> /\ recv_cq'[d][Len(recv_cq'[d])] = e
      <4> HIDE DEF e
      <4>1. PICK S : recv_cq[d] \in Seq(S)
        BY <1>a DEF IsSeq
      <4>2. recv_cq[d] \in Seq(S \cup {e})
        BY <4>1
      <4> QED  BY <4>2, <2>4
    <3>6. i + Len(recv_cq'[d]) = o
      BY <3>1, <3>2, <3>4, <1>n
    <3>7. Latest(recv_cq'[d], wc'[d]) = e
      BY <3>5 DEF Latest
    <3> HIDE DEF e
    <3> QED  BY <3>3, <3>4, <3>6, <3>7, <2>5, <1>n DEF Link
  <2> QED  BY <1>x, <1>2, <1>4, <1>5, <1>6, <1>7, <2>5, <2>6, <2>7, <2>8
<1>11. CASE DoPlace(r, w)
  <2> DEFINE k == IF order = "ascending" THEN Min(w.left) ELSE Max(w.left)
             s == IF w.left = {k} THEN "acked" ELSE "posted"
             x == Placed(w, w.left \ {k}, s)
             data == <<Payload(r, w)[k]>>
  <2>1. /\ w.st = "posted" /\ w.op = "WRITE"
        /\ mem'[d] = Store(mem[d], w.raddr + k - 1, data)
        /\ sq'[r] = <<x>> /\ send_cq'[r] = <<>>
        /\ srq'[d] = srq[d] /\ recv_cq'[d] = recv_cq[d]
    BY <1>11 DEF DoPlace, d
  <2>2. PICK j \in Nat \ {0}, h \in Nat \ {0} : j <= h /\ w.left = j .. h
    BY <2>1, <1>w DEF Sound
  <2>3. k \in {j, h}
    BY <2>2, IntervalEnds
  <2> HIDE DEF data, k
  <2>4. w.raddr \in Nat /\ w.raddr > line /\ w.inline = FALSE
    BY <2>1, <1>w DEF Sound
  <2>5. HasDomain(mem'[d], size) /\ \A a \in 0 .. line : mem'[d][a] = mem[d][a]
    <3>1. w.raddr + k - 1 \in Nat /\ w.raddr + k - 1 > line
      BY <2>2, <2>3, <2>4
    <3> QED  BY <3>1, <2>1, <1>3, <1>a
  <2>6. s = "posted" => \E j2, h2 \in Nat \ {0} : j2 <= h2 /\ w.left \ {k} = j2 .. h2
    <3>1. SUFFICES ASSUME w.left # {k}  PROVE \E j2, h2 \in Nat \ {0} : j2 <= h2 /\ w.left \ {k} = j2 .. h2
      BY DEF s
    <3>2. j < h
      BY <3>1, <2>2, <2>3
    <3>3. CASE k = j
      <4>1. w.left \ {k} = j + 1 .. h
        BY <2>2, <3>3
      <4> QED  BY <4>1, <3>2
    <3>4. CASE k = h
      <4>1. w.left \ {k} = j .. h - 1
        BY <2>2, <3>4
      <4>2. h - 1 \in Nat \ {0} /\ j <= h - 1
        BY <3>2, <2>2
      <4> QED  BY <4>1, <4>2
    <3> QED  BY <3>3, <3>4, <2>3
  <2>7. /\ IsRequest(x) /\ x.st = s /\ x.op = "WRITE" /\ x.raddr = w.raddr /\ x.left = w.left \ {k}
    BY <2>1, <1>o, RequestPlaced
  <2>8. x.inline = FALSE
    BY <2>4, <1>o, PlacedInline
  <2> HIDE DEF x, s
  <2>9. Outstanding(p, r, line, o, sq'[r], send_cq'[r], mem[r])
    <3>1. Sound(p, r, line, o, x, mem[r])
      BY <2>4, <2>6, <2>7, <2>8 DEF Sound
    <3> QED  BY <3>1, <2>1 DEF Outstanding
  <2>10. Flying(sq'[r]) = Flying(sq[r])
    BY <2>1, <2>7, <1>9 DEF Flying, Messages
  <2> QED  BY <1>x, <1>2, <1>4, <1>5, <1>8, <1>9, <2>1, <2>5, <2>9, <2>10
<1>12. CASE DoRespond(r, w)
  <2>1. PICK y : /\ w.st = "posted" /\ w.op = "READ" /\ sq'[r] = <<Answered(w, y)>> /\ mem'[d] = mem[d]
                 /\ send_cq'[r] = <<>> /\ srq'[d] = srq[d] /\ recv_cq'[d] = recv_cq[d]
    BY <1>12 DEF DoRespond, d
  <2>2. PICK x : x = Answered(w, y)
    OBVIOUS
  <2>3. IsRequest(x) /\ x.op = "READ" /\ x.buf = w.buf /\ x.inline = w.inline
    BY <2>1, <2>2, <1>o, RequestAnswered
  <2>4. Sound(p, r, line, o, x, mem[r])
    <3>1. w.inline = FALSE /\ w.buf \in Nat /\ w.buf > line
      BY <2>1, <1>w DEF Sound
    <3> QED  BY <3>1, <2>3 DEF Sound
  <2>5. Outstanding(p, r, line, o, sq'[r], send_cq'[r], mem[r])
    BY <2>1, <2>2, <2>4 DEF Outstanding
  <2>6. Flying(sq'[r]) = Flying(sq[r])
    BY <2>1, <2>2, <2>3, <1>9 DEF Flying, Messages
  <2> QED  BY <1>x, <1>2, <1>4, <1>5, <1>8, <1>9, <1>a, <2>1, <2>5, <2>6
<1>13. CASE DoChange(r, w)
  <2>1. PICK s : /\ s # "posted" \/ w.op = "READ"
                 /\ w.st # "posted" /\ sq'[r] = <<InState(w, s)>> /\ mem'[d] = mem[d]
                 /\ send_cq'[r] = <<>> /\ srq'[d] = srq[d] /\ recv_cq'[d] = recv_cq[d]
    BY <1>13 DEF DoChange, d
  <2>2. Outstanding(p, r, line, o, sq'[r], send_cq'[r], mem[r])
    <3>1. Sound(p, r, line, o, InState(w, s), mem[r])
      BY <2>1, <1>w, SoundAfter
    <3> QED  BY <2>1, <3>1 DEF Outstanding
  <2>3. Flying(sq'[r]) = Flying(sq[r])
    <3>1. InState(w, s).st = s /\ InState(w, s).op = w.op
      BY <1>o, RequestInState
    <3> QED  BY <2>1, <3>1, <1>9 DEF Flying, Messages
  <2> QED  BY <1>x, <1>2, <1>4, <1>5, <1>8, <1>9, <1>a, <2>1, <2>2, <2>3
<1>14. CASE DoFinish(r, w)
  <2>1. PICK y : /\ sq'[r] = <<>> /\ send_cq'[r] = <<y>>
                 /\ w.st # "posted" \/ y.status = "ERROR"
    BY <1>14 DEF DoFinish
  <2>2. mem'[d] = mem[d] /\ srq'[d] = srq[d] /\ recv_cq'[d] = recv_cq[d]
    BY <1>14 DEF DoFinish, d
  <2>3. Outstanding(p, r, line, o, sq'[r], send_cq'[r], mem[r])
    BY <2>1 DEF Outstanding
  <2>4. Flying(sq'[r]) = Flying(sq[r]) \/ (Broken(send_cq'[r]) /\ sq'[r] = <<>>)
    BY <2>1, <1>9 DEF Flying, Broken
  <2> QED  BY <1>x, <1>2, <1>4, <1>5, <1>8, <1>9, <1>a, <2>1, <2>2, <2>3, <2>4
<1> QED  BY <1>1, <1>10, <1>11, <1>12, <1>13, <1>14

\* What a step of rank r does to its send queue, with o messages posted before
\* and o2 after it: nothing, or it takes a completion, or posts a request.
SendSide(p, r, line, o, o2, m, s, sc) ==
    \/ /\ s = sq[r] /\ sc = send_cq[r] /\ o2 = o
       /\ \A a \in 0 .. line - 1 : m[a] = mem[r][a]
    \/ /\ sq[r] = <<>> /\ ~ Broken(send_cq[r]) /\ sc = <<>>
       /\ \/ s = <<>> /\ o2 = o
          \/ \E w : /\ s = <<w>> /\ Sound(p, r, line, o2, w, m) /\ w.st = "posted"
                    /\ o2 = o + IF w.op \in Messages THEN 1 ELSE 0

\* What it does to its receive completions, with i taken before and i2 after.
TakeSide(r, i, i2, rc, c) ==
    \/ rc = recv_cq[r] /\ c = wc[r] /\ i2 = i
    \/ recv_cq[r] # <<>> /\ rc = Tail(recv_cq[r]) /\ c = Head(recv_cq[r]) /\ i2 = i + 1

\* A step of rank r that does not write to its line.
LEMMA ChannelsUsed ==
    ASSUME NEW p, NEW line \in Nat, NEW size \in Nat, line < size,
           NEW in \in [Ranks -> Int], NEW out \in [Ranks -> Int],
           Channels(p, line, size, in, out), NEW r \in Ranks,
           NEW m, NEW s, NEW sc, NEW rc, NEW h, NEW c, Becomes(r, m, s, sc, rc, h, c),
           Receives(r, line)', HasDomain(m, size), m[line] = mem[r][line],
           NEW i \in Int, NEW o \in Int,
           SendSide(p, r, line, out[r], o, m, s, sc), TakeSide(r, in[r], i, rc, c)
    PROVE  Channels(p, line, size, [in EXCEPT ![r] = i], [out EXCEPT ![r] = o])'
<1> DEFINE d == Peer(r)
<1>q. d \in Ranks /\ d # r /\ Peer(d) = r /\ Ranks = {r, d}
  BY PeerFacts DEF Ranks, Peer
<1>n. in[r] \in Int /\ in[d] \in Int /\ out[r] \in Int /\ out[d] \in Int
  BY <1>q
<1>e. /\ [in EXCEPT ![r] = i][r] = i /\ [in EXCEPT ![r] = i][d] = in[d]
      /\ [out EXCEPT ![r] = o][r] = o /\ [out EXCEPT ![r] = o][d] = out[d]
  BY <1>q
<1> HIDE DEF d
<1>a. /\ RdvFuns /\ HasDomain(mem[r], size) /\ Receives(r, line) /\ IsSeq(recv_cq[r])
      /\ HasDomain(mem[d], size) /\ Receives(d, line) /\ IsSeq(recv_cq[d])
      /\ Outstanding(p, r, line, out[r], sq[r], send_cq[r], mem[r])
      /\ Outstanding(p, d, line, out[d], sq[d], send_cq[d], mem[d])
      /\ Link(p, r, in[r], out[d], recv_cq[r], wc[r], mem[r][line], sq[d], send_cq[d])
      /\ Link(p, d, in[d], out[r], recv_cq[d], wc[d], mem[d][line], sq[r], send_cq[r])
  BY <1>q DEF Channels, d
<1>s. /\ AreFuns' /\ IsFun(heap') /\ IsFun(wc')
      /\ mem'[r] = m /\ sq'[r] = s /\ send_cq'[r] = sc /\ recv_cq'[r] = rc /\ wc'[r] = c
      /\ mem'[d] = mem[d] /\ sq'[d] = sq[d] /\ srq'[d] = srq[d] /\ send_cq'[d] = send_cq[d]
      /\ recv_cq'[d] = recv_cq[d] /\ wc'[d] = wc[d]
  BY DEF Becomes, d
<1>1. Outstanding(p, r, line, o, s, sc, m)
  <2>1. CASE /\ s = sq[r] /\ sc = send_cq[r] /\ o = out[r]
             /\ \A a \in 0 .. line - 1 : m[a] = mem[r][a]
    BY <2>1, <1>a, OutstandingKept
  <2> QED  BY <2>1 DEF SendSide, Outstanding
<1>2. Link(p, r, i, out[d], rc, c, m[line], sq[d], send_cq[d]) /\ IsSeq(rc)
  <2>1. CASE rc = recv_cq[r] /\ c = wc[r] /\ i = in[r]
    BY <2>1, <1>a
  <2>2. CASE recv_cq[r] # <<>> /\ rc = Tail(recv_cq[r]) /\ c = Head(recv_cq[r]) /\ i = in[r] + 1
    <3>1. /\ Len(recv_cq[r]) \in Nat /\ IsSeq(rc) /\ Len(rc) = Len(recv_cq[r]) - 1
      BY <2>2, <1>a, QueueSteps
    <3>2. i + Len(rc) = in[r] + Len(recv_cq[r])
      <4>1. i = in[r] + 1
        BY <2>2
      <4>2. PICK u, v, a : u = Len(rc) /\ v = Len(recv_cq[r]) /\ a = in[r]
        OBVIOUS
      <4>3. v \in Nat /\ u = v - 1 /\ a \in Int /\ i = a + 1
        BY <3>1, <4>1, <4>2, <1>n
      <4>4. i + u = a + v
        BY <4>3
      <4> QED  BY <4>2, <4>4
    <3>3. Latest(rc, c) = Latest(recv_cq[r], wc[r])
      <4>1. PICK S : recv_cq[r] \in Seq(S)
        BY <1>a DEF IsSeq
      <4>2. PICK y : y = recv_cq[r]
        OBVIOUS
      <4>3. y \in Seq(S) /\ y # <<>> /\ rc = Tail(y) /\ c = Head(y)
        BY <4>1, <4>2, <2>2
      <4>4. CASE rc = <<>>
        <5>1. Len(y) = 1
          <6>1. Len(<<>>) = 0
            OBVIOUS
          <6> QED  BY <3>1, <4>2, <4>4, <6>1
        <5> QED  BY <4>2, <4>3, <4>4, <5>1 DEF Latest
      <4>5. CASE rc # <<>>
        <5>1. Len(rc) = Len(y) - 1 /\ rc[Len(rc)] = y[Len(rc) + 1]
          BY <4>3, <4>5
        <5> QED  BY <4>2, <4>3, <4>5, <5>1 DEF Latest
      <4> QED  BY <4>4, <4>5
    <3> QED  BY <3>1, <3>2, <3>3, <1>a DEF Link
  <2> QED  BY <2>1, <2>2 DEF TakeSide
<1>3. Link(p, d, in[d], o, recv_cq[d], wc[d], mem[d][line], s, sc)
  <2> DEFINE k == in[d] + Len(recv_cq[d])
  <2>1. /\ k + Flying(sq[r]) <= out[r]
        /\ k + Flying(sq[r]) = out[r] \/ Broken(send_cq[r])
        /\ k > 0 => Fits(p, d, k, Latest(recv_cq[d], wc[d]), mem[d][line])
    BY <1>a DEF Link
  <2>2. k \in Int
    BY <1>n, <1>a, QueueSteps
  <2> HIDE DEF k
  <2>3. /\ k + Flying(s) <= o
        /\ k + Flying(s) = o \/ Broken(sc)
    <3>1. CASE s = sq[r] /\ sc = send_cq[r] /\ o = out[r]
      BY <2>1, <3>1
    <3>2. CASE /\ sq[r] = <<>> /\ ~ Broken(send_cq[r]) /\ sc = <<>>
               /\ \/ s = <<>> /\ o = out[r]
                  \/ \E w : /\ s = <<w>> /\ w.st = "posted"
                            /\ o = out[r] + IF w.op \in Messages THEN 1 ELSE 0
      <4>1. Flying(sq[r]) = 0
        BY <3>2 DEF Flying
      <4>2. Flying(s) \in {0, 1} /\ o = out[r] + Flying(s)
        BY <3>2, <1>n DEF Flying
      <4> QED  BY <2>1, <2>2, <3>2, <4>1, <4>2, <1>n
    <3> QED  BY <3>1, <3>2 DEF SendSide
  <2> QED  BY <2>1, <2>3 DEF Link, k
<1>4. RdvFuns' /\ Receives(d, line)'
  BY <1>s, <1>a DEF RdvFuns, Receives
<1> HIDE DEF Channels
<1> QED
  <2>1. SUFFICES ASSUME NEW x \in Ranks
                 PROVE  /\ HasDomain(mem'[x], size) /\ Receives(x, line)' /\ IsSeq(recv_cq'[x])
                        /\ Outstanding(p, x, line, [out EXCEPT ![r] = o][x], sq'[x], send_cq'[x], mem'[x])
                        /\ Link(p, x, [in EXCEPT ![r] = i][x], [out EXCEPT ![r] = o][Peer(x)],
                                recv_cq'[x], wc'[x], mem'[x][line], sq'[Peer(x)], send_cq'[Peer(x)])
    BY <1>4 DEF Channels
  <2>2. CASE x = r
    BY <2>2, <1>1, <1>2, <1>a, <1>s, <1>e DEF d
  <2>3. CASE x = d
    BY <2>3, <1>3, <1>4, <1>a, <1>s, <1>e, <1>q
  <2> QED  BY <2>2, <2>3, <1>q

\* Nothing but other variables changes.
LEMMA ChannelsRest ==
    ASSUME NEW p, NEW line, NEW size, NEW in, NEW out, Channels(p, line, size, in, out),
           UNCHANGED <<mem, sq, srq, send_cq, recv_cq, heap, wc>>
    PROVE  Channels(p, line, size, in, out)'
  BY DEF Channels, RdvFuns, AreFuns, IsFun, Receives

\* A rank that takes a completion had no other.
LEMMA CompletionTaken ==
    ASSUME NEW p, NEW r, NEW line, NEW o, NEW s, NEW sc, NEW m,
           Outstanding(p, r, line, o, s, sc, m), sc # <<>>, Head(sc).status = "SUCCESS"
    PROVE  s = <<>> /\ Tail(sc) = <<>> /\ ~ Broken(sc)
<1>1. s = <<>> /\ \E x : sc = <<x>>
  BY DEF Outstanding
<1>2. PICK x : sc = <<x>>
  BY <1>1
<1>3. Head(sc) = x /\ sc[1] = x /\ Tail(sc) = <<>>
  BY <1>2
<1>4. x.status # "ERROR"
  BY <1>3
<1> QED  BY <1>1, <1>3, <1>4 DEF Broken

\* A rank that handles a message finds no other behind it.
LEMMA NothingBehind ==
    ASSUME NEW p, NEW line, NEW size, NEW in \in [Ranks -> Int], NEW out \in [Ranks -> Int],
           Channels(p, line, size, in, out), NEW r \in Ranks,
           in[r] > 0, out[Peer(r)] <= in[Peer(r)] + in[r] - out[r]
    PROVE  Fits(p, r, in[r], wc[r], mem[r][line])
<1> DEFINE q == Peer(r)
<1>q. q \in Ranks /\ Peer(q) = r
  BY PeerFacts
<1>1. /\ IsSeq(recv_cq[r]) /\ IsSeq(recv_cq[q])
      /\ Link(p, r, in[r], out[q], recv_cq[r], wc[r], mem[r][line], sq[q], send_cq[q])
      /\ Link(p, q, in[q], out[r], recv_cq[q], wc[q], mem[q][line], sq[r], send_cq[r])
  BY <1>q DEF Channels
<1>2. PICK a, b, c, d, m, n :
          /\ a = in[r] /\ b = in[q] /\ c = out[r] /\ d = out[q]
          /\ m = Len(recv_cq[r]) /\ n = Len(recv_cq[q])
  OBVIOUS
<1>3. /\ a \in Int /\ b \in Int /\ c \in Int /\ d \in Int /\ m \in Nat /\ n \in Nat
  BY <1>1, <1>2, <1>q, QueueSteps
<1>4. /\ a + m + Flying(sq[q]) <= d /\ b + n + Flying(sq[r]) <= c
  BY <1>1, <1>2 DEF Link
<1>5. Flying(sq[q]) \in {0, 1} /\ Flying(sq[r]) \in {0, 1}
  BY DEF Flying
<1>6. d <= b + a - c
  BY <1>2
<1>7. m = 0
  BY <1>3, <1>4, <1>5, <1>6
<1>8. recv_cq[r] = <<>>
  <2>1. PICK S, u : u = recv_cq[r] /\ u \in Seq(S)
    BY <1>1 DEF IsSeq
  <2>2. Len(u) = 0
    BY <2>1, <1>2, <1>7
  <2> QED  BY <2>1, <2>2
<1>9. in[r] + Len(recv_cq[r]) = in[r]
  BY <1>2, <1>3, <1>7
<1> QED  BY <1>1, <1>8, <1>9 DEF Link, Latest

\* A step of rank r that takes i2 - i messages, posts o2 - o and leaves the
\* line alone.
Uses(p, line, size, r, i, i2, o, o2) ==
    \E m, s, sc, rc, h, c :
        /\ Becomes(r, m, s, sc, rc, h, c) /\ HasDomain(m, size) /\ m[line] = mem[r][line]
        /\ SendSide(p, r, line, o, o2, m, s, sc) /\ TakeSide(r, i, i2, rc, c)

\* Such a step keeps the channels.
LEMMA UsesKept ==
    ASSUME NEW p, NEW line \in Nat, NEW size \in Nat, line < size,
           NEW in \in [Ranks -> Int], NEW out \in [Ranks -> Int],
           Channels(p, line, size, in, out), NEW r \in Ranks, Receives(r, line)',
           NEW i \in Int, NEW o \in Int, Uses(p, line, size, r, in[r], i, out[r], o)
    PROVE  Channels(p, line, size, [in EXCEPT ![r] = i], [out EXCEPT ![r] = o])'
<1>1. PICK m, s, sc, rc, h, c :
          /\ Becomes(r, m, s, sc, rc, h, c) /\ HasDomain(m, size) /\ m[line] = mem[r][line]
          /\ SendSide(p, r, line, out[r], o, m, s, sc) /\ TakeSide(r, in[r], i, rc, c)
  BY DEF Uses
<1> QED  BY <1>1, ChannelsUsed

\* A step that leaves the queues alone.
LEMMA Quiet ==
    ASSUME NEW p, NEW line \in Nat, NEW size, NEW r, NEW i, NEW o, NEW m, NEW h,
           Becomes(r, m, sq[r], send_cq[r], recv_cq[r], h, wc[r]),
           HasDomain(m, size), \A a \in 0 .. line : m[a] = mem[r][a]
    PROVE  Uses(p, line, size, r, i, i, o, o)
<1>1. m[line] = mem[r][line] /\ \A a \in 0 .. line - 1 : m[a] = mem[r][a]
  OBVIOUS
<1>2. SendSide(p, r, line, o, o, m, sq[r], send_cq[r]) /\ TakeSide(r, i, i, recv_cq[r], wc[r])
  BY <1>1 DEF SendSide, TakeSide
<1> QED  BY <1>1, <1>2 DEF Uses

\* write_buffer leaves the lines before the buffer alone.
LEMMA FillQuiet ==
    ASSUME NEW p, NEW line \in Nat, NEW size \in Nat, line < size, NEW r, NEW i, NEW o, NEW m, NEW h,
           Becomes(r, m, sq[r], send_cq[r], recv_cq[r], h, wc[r]), HasDomain(mem[r], size),
           \/ m = mem[r]
           \/ \E data : m = Store(mem[r], line + 1, data)
    PROVE  Uses(p, line, size, r, i, i, o, o)
<1>1. HasDomain(m, size) /\ \A a \in 0 .. line : m[a] = mem[r][a]
  <2>1. ASSUME NEW data, m = Store(mem[r], line + 1, data)
        PROVE  HasDomain(m, size) /\ \A a \in 0 .. line : m[a] = mem[r][a]
    <3>1. PICK n : n = Len(data)
      OBVIOUS
    <3>2. \A a \in 0 .. line : a \in 0 .. size - 1 /\ a \notin line + 1 .. line + 1 + n - 1
      OBVIOUS
    <3> QED  BY <2>1, <3>1, <3>2, StoreKeeps
  <2> QED  BY <2>1
<1> QED  BY <1>1, Quiet

\* A step that takes the completion of a request.
LEMMA CompletionUsed ==
    ASSUME NEW p, NEW line \in Nat, NEW size, NEW r, NEW i, NEW o, NEW h,
           Outstanding(p, r, line, o, sq[r], send_cq[r], mem[r]),
           send_cq[r] # <<>>, Head(send_cq[r]).status = "SUCCESS",
           Becomes(r, mem[r], sq[r], Tail(send_cq[r]), recv_cq[r], h, wc[r]),
           HasDomain(mem[r], size)
    PROVE  Uses(p, line, size, r, i, i, o, o)
<1>1. sq[r] = <<>> /\ Tail(send_cq[r]) = <<>> /\ ~ Broken(send_cq[r])
  BY CompletionTaken
<1>2. /\ SendSide(p, r, line, o, o, mem[r], sq[r], Tail(send_cq[r]))
      /\ TakeSide(r, i, i, recv_cq[r], wc[r])
  BY <1>1 DEF SendSide, TakeSide
<1> QED  BY <1>2 DEF Uses

\* A step that takes a message.
LEMMA ReceiveUsed ==
    ASSUME NEW p, NEW line \in Nat, NEW size, NEW r, NEW i, NEW o, NEW h, recv_cq[r] # <<>>,
           Becomes(r, mem[r], sq[r], send_cq[r], Tail(recv_cq[r]), h, Head(recv_cq[r])),
           HasDomain(mem[r], size)
    PROVE  Uses(p, line, size, r, i, i + 1, o, o)
<1>1. /\ SendSide(p, r, line, o, o, mem[r], sq[r], send_cq[r])
      /\ TakeSide(r, i, i + 1, Tail(recv_cq[r]), Head(recv_cq[r]))
  BY DEF SendSide, TakeSide
<1> QED  BY <1>1 DEF Uses

\* A step that posts request w.
LEMMA PostUsed ==
    ASSUME NEW p, NEW line \in Nat, NEW size, NEW r, NEW i, NEW o, NEW o2, NEW m, NEW h, NEW w, NEW sc,
           Becomes(r, m, Append(sq[r], w), sc, recv_cq[r], h, wc[r]),
           sq[r] = <<>>, ~ Broken(send_cq[r]), sc = <<>>,
           HasDomain(m, size), m[line] = mem[r][line],
           Sound(p, r, line, o2, w, m), w.st = "posted",
           o2 = o + IF w.op \in Messages THEN 1 ELSE 0
    PROVE  Uses(p, line, size, r, i, i, o, o2)
<1>1. Append(sq[r], w) = <<w>>
  OBVIOUS
<1>2. /\ SendSide(p, r, line, o, o2, m, <<w>>, <<>>)
      /\ TakeSide(r, i, i, recv_cq[r], wc[r])
  BY DEF SendSide, TakeSide
<1>3. Becomes(r, m, <<w>>, <<>>, recv_cq[r], h, wc[r])
  BY <1>1
<1> QED  BY <1>2, <1>3 DEF Uses

\* A step that posts the control message x from cell b.
LEMMA ControlUsed ==
    ASSUME NEW p, NEW line \in Nat, NEW size \in Nat, line < size, NEW r, NEW i, NEW o \in Int,
           NEW h, NEW sc, NEW b \in 0 .. line - 1, NEW x, NEW imm, NEW id,
           Becomes(r, [mem[r] EXCEPT ![b] = x], Append(sq[r], Request("SEND_IMM", b, 1, 0, imm, id)),
                   sc, recv_cq[r], h, wc[r]),
           sq[r] = <<>>, ~ Broken(send_cq[r]), sc = <<>>, HasDomain(mem[r], size),
           \A e : e.opcode = "RECV" /\ e.wr_id = line /\ e.imm = imm => Fits(p, Peer(r), o + 1, e, x)
    PROVE  Uses(p, line, size, r, i, i, o, o + 1)
<1>1. PICK w : w = Request("SEND_IMM", b, 1, 0, imm, id)
  OBVIOUS
<1>2. IsRequest(w) /\ w.inline = FALSE
  BY <1>1, RequestNotInline, Zenon
<1>3. w.op = "SEND_IMM" /\ w.len = 1 /\ w.buf = b /\ w.imm = imm /\ w.st = "posted"
  BY <1>1, RequestFields
<1>4. PICK m : m = [mem[r] EXCEPT ![b] = x]
  OBVIOUS
<1>5. b \in 0 .. size - 1 /\ line \in 0 .. size - 1 /\ line # b
  OBVIOUS
<1>6. HasDomain(m, size) /\ m[b] = x /\ m[line] = mem[r][line]
  <2>1. DOMAIN mem[r] = 0 .. size - 1
    BY DEF HasDomain
  <2>2. m[b] = x /\ m[line] = mem[r][line] /\ DOMAIN m = 0 .. size - 1
    BY <1>4, <1>5, <2>1
  <2>3. m = [a \in 0 .. size - 1 |-> m[a]]
    BY <1>4, <2>1
  <2> QED  BY <2>2, <2>3 DEF HasDomain
<1>7. Arrival(w, line).opcode = "RECV" /\ Arrival(w, line).wr_id = line /\ Arrival(w, line).imm = imm
  BY <1>3 DEF Arrival
<1>8. Sound(p, r, line, o + 1, w, m)
  <2>1. Fits(p, Peer(r), o + 1, Arrival(w, line), m[w.buf])
    BY <1>3, <1>6, <1>7
  <2> QED  BY <1>2, <1>3, <2>1 DEF Sound
<1>9. w.op \in Messages
  BY <1>3 DEF Messages
<1>10. Becomes(r, m, Append(sq[r], w), sc, recv_cq[r], h, wc[r])
  BY <1>1, <1>4
<1> QED  BY <1>3, <1>6, <1>8, <1>9, <1>10, PostUsed

----------------------------------------------------------------------------
\* The control messages of ibv_pingpong_rdv_read.cpp.

\* The messages rank r of ibv_pingpong_rdv_read.cpp has taken.
RRIn(r) ==
    IF r = 0 THEN Counted(2, call[r].n, pc[r], {"handle_fin", "recv_rts"},
                          {"handle_rts", "poll_read", "poll_fin", "check"}, {})
    ELSE Counted(2, call[r].n, pc[r], {"handle_rts", "poll_read", "poll_fin", "check",
                                       "fill", "post_rts", "poll_rts", "recv_fin"},
                 {"handle_fin"}, {})

\* The messages rank r of ibv_pingpong_rdv_read.cpp has posted.
RROut(r) ==
    IF r = 0 THEN Counted(2, call[r].n, pc[r], {"poll_rts", "recv_fin", "handle_fin", "recv_rts",
                                                "handle_rts", "poll_read"},
                          {"poll_fin", "check"}, {})
    ELSE Counted(2, call[r].n, pc[r], {"poll_fin", "check", "fill", "post_rts"},
                 {"poll_rts", "recv_fin", "handle_fin"}, {})

\* What a step of rank r of ibv_pingpong_rdv_read.cpp does, if it is not its end.
RREffect(r) ==
    LET size == call[r].size
        got == mem[r][wc[r].wr_id]
        first == Head(send_cq[r])
        same == Becomes(r, mem[r], sq[r], send_cq[r], recv_cq[r], heap[r], wc[r])
    IN \/ pc[r] \in {"setup", "check", "close"} /\ same
       \/ /\ pc[r] = "fill"
          /\ Becomes(r, IF touch_data THEN Store(mem[r], 3, Fill(r, size)) ELSE mem[r],
                     sq[r], send_cq[r], recv_cq[r], heap[r], wc[r])
       \/ /\ pc[r] = "post_rts"
          /\ \E c : Becomes(r, [mem[r] EXCEPT ![0] = [v |-> "RTS", t |-> call[r].n,
                                    send_ctx |-> c, addr |-> 3, size |-> size]],
                            Append(sq[r], Request("SEND_IMM", 0, 1, 0, "RTS", c)),
                            send_cq[r], recv_cq[r], Grown(heap[r], c, [n |-> call[r].n]), wc[r])
       \/ /\ pc[r] \in {"poll_rts", "poll_fin"} /\ send_cq[r] # <<>> /\ first.status = "SUCCESS"
          /\ Becomes(r, mem[r], sq[r], Tail(send_cq[r]), recv_cq[r], heap[r], wc[r])
       \/ /\ pc[r] \in {"recv_rts", "recv_fin"} /\ recv_cq[r] # <<>>
          /\ Becomes(r, mem[r], sq[r], send_cq[r], Tail(recv_cq[r]), heap[r], Head(recv_cq[r]))
       \/ /\ pc[r] = "handle_rts"
          /\ \E c, fields :
                 Becomes(r, mem[r],
                         Append(sq[r], Request("READ", 3 + max_msg_size, size, got.addr, 0, c)),
                         send_cq[r], recv_cq[r], Grown(heap[r], c, fields), wc[r])
       \/ /\ pc[r] = "poll_read" /\ send_cq[r] # <<>> /\ first.status = "SUCCESS"
          /\ first.wr_id \in DOMAIN heap[r]
          /\ \E x : Becomes(r, [mem[r] EXCEPT ![1] = [v |-> "FIN", t |-> call[r].n,
                                                      send_ctx |-> x]],
                            Append(sq[r], Request("SEND_IMM", 1, 1, 0, "FIN", 0)),
                            Tail(send_cq[r]), recv_cq[r], Shrunk(heap[r], first.wr_id), wc[r])
       \/ /\ pc[r] = "handle_fin" /\ mem[r][0].send_ctx \in DOMAIN heap[r]
          /\ Becomes(r, mem[r], sq[r], send_cq[r], recv_cq[r],
                     Shrunk(heap[r], mem[r][0].send_ctx), wc[r])

\* The steps of ibv_pingpong_rdv_read.cpp have these effects.
LEMMA RRSteps ==
    ASSUME NEW r \in Ranks, RdvFuns, Receives(r, 2), posted_recv_num[r] \in 0 .. MaxRecv,
           config.inline_size = 0, call[r].size \in Nat \ {0}, RR!RankStep(r)
    PROVE  /\ Receives(r, 2)' /\ UNCHANGED config
           /\ \/ /\ UNCHANGED <<pc, call>>
                 /\ Becomes(r, mem[r], sq[r], send_cq[r], recv_cq[r], heap[r], wc[r])
              \/ RRGoes(r) /\ RREffect(r)
<1> DEFINE size == call[r].size
<1>f. RdvFuns /\ AreFuns /\ IsFun(mem) /\ IsFun(sq) /\ IsFun(srq) /\ IsFun(send_cq) /\ IsFun(recv_cq)
      /\ IsFun(heap) /\ IsFun(wc) /\ Peer(r) \in Ranks /\ Peer(r) # r
  BY PeerFacts DEF RdvFuns, AreFuns
<1>w. \A op, buf, raddr, imm, wr_id : \A len \in Nat \ {0} :
          RR!WorkRequest(r, op, buf, len, raddr, imm, wr_id) =
              Request(op, buf, len, raddr, imm, wr_id)
  <2> TAKE op, buf, raddr, imm, wr_id
  <2> TAKE len \in Nat \ {0}
  <2>1. RR!WorkRequest(r, op, buf, len, raddr, imm, wr_id) =
        WorkRequest(r, op, buf, len, raddr, imm, wr_id)
    BY DEF RR!WorkRequest, WorkRequest, RR!Load, Load
  <2> QED  BY <2>1, NothingInline
<1>m. RR!max_msg_size = max_msg_size /\ RR!touch_data = touch_data
  BY DEF RR!max_msg_size, max_msg_size, RR!touch_data, touch_data
<1>a. ASSUME RR!Abort(r), UNCHANGED <<heap, wc>>
      PROVE  /\ Receives(r, 2)' /\ UNCHANGED config
             /\ UNCHANGED <<pc, call>>
             /\ Becomes(r, mem[r], sq[r], send_cq[r], recv_cq[r], heap[r], wc[r])
  <2>1. UNCHANGED <<mem, sq, srq, send_cq, recv_cq, heap, wc, config, pc, call>>
    BY <1>a DEF RR!Abort, RR!benchVars
  <2>2. Becomes(r, mem[r], sq[r], send_cq[r], recv_cq[r], heap[r], wc[r])
    BY <2>1, RdvHalts
  <2> QED  BY <2>1, <2>2 DEF Receives
<1>p. ASSUME pc[r] \in RRLambda, RR!Proceed(r, RR!Body(r))  PROVE RRGoes(r)
  BY <1>p, RRProceeds
<1>1. CASE RR!Setup(r)
  <2>1. CASE RR!Abort(r) /\ UNCHANGED <<heap, wc>>
    BY <2>1, <1>a
  <2>2. CASE ~ RR!Abort(r)
    <3>1. /\ pc[r] = "setup" /\ RR!Goto(r, RR!Body(r)[1])
          /\ RR!checkAndPostRecvs(r, posted_recv_num[r], 2, 1)
          /\ UNCHANGED <<mem, sq, send_cq, recv_cq, config, heap, wc>>
      BY <1>1, <2>2 DEF RR!Setup, RR!PostRecvs, RR!At, RR!control_recv_buf, RR!rdvVars
    <3>2. checkAndPostRecvs(r, posted_recv_num[r], 2, 1)
      BY <3>1 DEF RR!checkAndPostRecvs, checkAndPostRecvs, RR!Refill, Refill
    <3>3. Receives(r, 2)' /\ srq'[Peer(r)] = srq[Peer(r)] /\ IsFun(srq')
      BY <3>2, <1>f, RefillNat, ReceivesPosted
    <3>4. Becomes(r, mem[r], sq[r], send_cq[r], recv_cq[r], heap[r], wc[r])
      BY <3>1, <3>3, <1>f DEF Becomes, AreFuns
    <3>5. RR!Body(r)[1] = IF r = 0 THEN "fill" ELSE "recv_rts"
      <4>1. RR!Sender[1] = "fill" /\ RR!Receiver[1] = "recv_rts"
            /\ Len(RR!Sender) = 5 /\ Len(RR!Receiver) = 5
            /\ RR!Sender \in Seq(RRLambda) /\ RR!Receiver \in Seq(RRLambda)
        BY DEF RR!Sender, RR!Receiver, RRLambda
      <4>2. (RR!Sender \o RR!Receiver)[1] = "fill" /\ (RR!Receiver \o RR!Sender)[1] = "recv_rts"
        BY <4>1, Concatenated
      <4> QED  BY <4>2 DEF RR!Body, RR!Halves
    <3>6. RRGoes(r)
      <4>1. <<pc[r], RR!Body(r)[1]>> \in RROutside(r)
        BY <3>1, <3>5 DEF RROutside
      <4>2. Advance(r, RR!Body(r)[1])
        BY <3>1 DEF RR!Goto, Advance
      <4> QED  BY <4>1, <4>2 DEF RRGoes
    <3> QED  BY <3>1, <3>3, <3>4, <3>6 DEF RREffect
  <2> QED  BY <1>1, <2>1, <2>2 DEF RR!Setup, RR!rdvVars
<1>2. CASE RR!FillPayload(r)
  <2>1. /\ pc[r] = "fill" /\ RR!Proceed(r, RR!Body(r))
        /\ mem' = IF touch_data THEN [mem EXCEPT ![r] = Store(mem[r], 3, Fill(r, size))] ELSE mem
        /\ UNCHANGED <<sq, srq, send_cq, recv_cq, config, heap, wc>>
    BY <1>2, <1>m DEF RR!FillPayload, RR!FillSendBuf, RR!At, RR!write_buffer, RR!send_buf,
         RR!Store, Store, RR!Fill, Fill, RR!Value, Value, RR!UnchangedByPost, RR!rdvVars
  <2>2. /\ IsFun(mem') /\ mem'[Peer(r)] = mem[Peer(r)]
        /\ mem'[r] = IF touch_data THEN Store(mem[r], 3, Fill(r, size)) ELSE mem[r]
    BY <2>1, <1>f DEF IsFun
  <2>3. Becomes(r, IF touch_data THEN Store(mem[r], 3, Fill(r, size)) ELSE mem[r],
                     sq[r], send_cq[r], recv_cq[r], heap[r], wc[r])
    BY <2>1, <2>2, <1>f DEF Becomes, AreFuns
  <2>4. RRGoes(r)
    BY <2>1, <1>p DEF RRLambda
  <2> QED  BY <2>1, <2>3, <2>4 DEF RREffect, Receives
<1>3. CASE RR!PostRTS(r)
  <2>1. CASE RR!RdvAbort(r)
    BY <2>1, <1>a DEF RR!RdvAbort, RR!rdvVars
  <2>2. CASE ~ RR!RdvAbort(r)
    <3> DEFINE msg(c) == [v |-> "RTS", t |-> call[r].n, send_ctx |-> c, addr |-> 3, size |-> size]
    <3>1. PICK c : /\ pc[r] = "post_rts" /\ RR!Proceed(r, RR!Body(r))
                   /\ RR!Malloc(r, c, [n |-> call[r].n])
                   /\ RR!PostControl(r, 0, msg(c), "RTS", c)
                   /\ UNCHANGED <<srq, send_cq, recv_cq, config, wc>>
      BY <1>3, <2>2 DEF RR!PostRTS, RR!At, RR!rtsMsg, RR!send_buf,
                        RR!UnchangedByHandler
    <3>2. sq' = [sq EXCEPT ![r] = Append(sq[r], Request("SEND_IMM", 0, 1, 0, "RTS", c))]
      <4>1. RR!WorkRequest(r, "SEND_IMM", 0, 1, 0, "RTS", c) =
            Request("SEND_IMM", 0, 1, 0, "RTS", c)
        BY <1>w
      <4> QED  BY <3>1, <4>1 DEF RR!PostControl, RR!postSendImm, RR!Post
    <3>3. heap' = [heap EXCEPT ![r] = Grown(heap[r], c, [n |-> call[r].n])]
      BY <3>1 DEF RR!Malloc, Grown
    <3>4. mem' = [mem EXCEPT ![r] = [mem[r] EXCEPT ![0] = msg(c)]]
      BY <3>1, <1>f DEF RR!PostControl
    <3>5. Becomes(r, [mem[r] EXCEPT ![0] = msg(c)],
                  Append(sq[r], Request("SEND_IMM", 0, 1, 0, "RTS", c)),
                  send_cq[r], recv_cq[r], Grown(heap[r], c, [n |-> call[r].n]), wc[r])
      <4> HIDE DEF msg
      <4>1. IsFun(mem') /\ mem'[r] = [mem[r] EXCEPT ![0] = msg(c)] /\ mem'[Peer(r)] = mem[Peer(r)]
        BY <3>4, <1>f DEF IsFun
      <4>2. /\ IsFun(sq') /\ sq'[r] = Append(sq[r], Request("SEND_IMM", 0, 1, 0, "RTS", c))
            /\ sq'[Peer(r)] = sq[Peer(r)]
        BY <3>2, <1>f DEF IsFun
      <4>3. /\ IsFun(heap') /\ heap'[r] = Grown(heap[r], c, [n |-> call[r].n])
            /\ heap'[Peer(r)] = heap[Peer(r)]
        BY <3>3, <1>f DEF IsFun
      <4> QED  BY <3>1, <4>1, <4>2, <4>3, <1>f DEF Becomes, AreFuns
    <3>6. RRGoes(r)
      BY <3>1, <1>p DEF RRLambda
    <3> QED  BY <3>1, <3>5, <3>6 DEF RREffect, Receives
  <2> QED  BY <2>1, <2>2
<1>4. CASE RR!PollControl(r)
  <2>1. CASE RR!Abort(r) /\ UNCHANGED <<heap, wc>>
    BY <2>1, <1>a
  <2>2. CASE ~ RR!Abort(r)
    <3>1. /\ pc[r] \in {"poll_rts", "poll_fin"} /\ RR!Proceed(r, RR!Body(r))
          /\ send_cq[r] # <<>> /\ Head(send_cq[r]).status = "SUCCESS"
          /\ send_cq' = [send_cq EXCEPT ![r] = Tail(send_cq[r])]
          /\ UNCHANGED <<mem, sq, srq, recv_cq, config, heap, wc>>
      BY <1>4, <2>2 DEF RR!PollControl, RR!AwaitSend, RR!AtAny, RR!Succeeded, RR!pollSendCQ,
                        RR!rdvVars
    <3>2. /\ IsFun(send_cq') /\ send_cq'[r] = Tail(send_cq[r])
          /\ send_cq'[Peer(r)] = send_cq[Peer(r)]
      BY <3>1, <1>f DEF IsFun
    <3>3. Becomes(r, mem[r], sq[r], Tail(send_cq[r]), recv_cq[r], heap[r], wc[r])
      BY <3>1, <3>2, <1>f DEF Becomes, AreFuns
    <3>4. RRGoes(r)
      BY <3>1, <1>p DEF RRLambda
    <3> QED  BY <3>1, <3>3, <3>4 DEF RREffect, Receives
  <2> QED  BY <1>4, <2>1, <2>2 DEF RR!PollControl, RR!rdvVars
<1>5. CASE RR!PollRecv(r)
  <2>1. CASE RR!RdvAbort(r)
    BY <2>1, <1>a DEF RR!RdvAbort, RR!rdvVars
  <2>2. CASE ~ RR!RdvAbort(r)
    <3>1. /\ pc[r] \in {"recv_rts", "recv_fin"} /\ RR!Proceed(r, RR!Body(r))
          /\ recv_cq[r] # <<>>
          /\ recv_cq' = [recv_cq EXCEPT ![r] = Tail(recv_cq[r])]
          /\ wc' = [wc EXCEPT ![r] = Head(recv_cq[r])]
          /\ RR!checkAndPostRecvs(r, posted_recv_num[r] - 1, 2, 1)
          /\ UNCHANGED <<mem, sq, send_cq, order, config, heap>>
      BY <1>5, <2>2 DEF RR!PollRecv, RR!TakeRecv, RR!AtAny, RR!pollRecvCQ,
                        RR!control_recv_buf
    <3>2. checkAndPostRecvs(r, posted_recv_num[r] - 1, 2, 1)
      BY <3>1 DEF RR!checkAndPostRecvs, checkAndPostRecvs, RR!Refill, Refill
    <3>3. Receives(r, 2)' /\ srq'[Peer(r)] = srq[Peer(r)] /\ IsFun(srq')
      BY <3>2, <1>f, RefillNat, ReceivesPosted
    <3>4. /\ IsFun(recv_cq') /\ recv_cq'[r] = Tail(recv_cq[r])
          /\ recv_cq'[Peer(r)] = recv_cq[Peer(r)]
      BY <3>1, <1>f DEF IsFun
    <3>5. IsFun(wc') /\ wc'[r] = Head(recv_cq[r]) /\ wc'[Peer(r)] = wc[Peer(r)]
      BY <3>1, <1>f DEF IsFun
    <3>6. Becomes(r, mem[r], sq[r], send_cq[r], Tail(recv_cq[r]), heap[r], Head(recv_cq[r]))
      BY <3>1, <3>3, <3>4, <3>5, <1>f DEF Becomes, AreFuns
    <3>7. RRGoes(r)
      BY <3>1, <1>p DEF RRLambda
    <3> QED  BY <3>1, <3>3, <3>6, <3>7 DEF RREffect
  <2> QED  BY <2>1, <2>2
<1>6. CASE RR!HandleRTS(r)
  <2>1. CASE RR!RdvAbort(r)
    BY <2>1, <1>a DEF RR!RdvAbort, RR!rdvVars
  <2>2. CASE ~ RR!RdvAbort(r)
    <3> DEFINE m == mem[r][wc[r].wr_id]
               fields == [n |-> call[r].n, send_ctx |-> m.send_ctx]
               w(c) == Request("READ", 3 + max_msg_size, size, m.addr, 0, c)
    <3>1. PICK c : /\ pc[r] = "handle_rts" /\ RR!Proceed(r, RR!Body(r))
                   /\ RR!Malloc(r, c, fields)
                   /\ RR!postRead(r, 3 + max_msg_size, size, m.addr, c)
                   /\ UNCHANGED <<mem, srq, send_cq, recv_cq, config, wc>>
      BY <1>6, <2>2, <1>m DEF RR!HandleRTS, RR!At, RR!recv_buf, RR!Received,
                        RR!UnchangedByHandler
    <3>2. sq' = [sq EXCEPT ![r] = Append(sq[r], w(c))]
      <4>1. RR!WorkRequest(r, "READ", 3 + max_msg_size, size, m.addr, 0, c) = w(c)
        BY <1>w
      <4> QED  BY <3>1, <4>1 DEF RR!postRead, RR!Post
    <3>3. heap' = [heap EXCEPT ![r] = Grown(heap[r], c, fields)]
      BY <3>1 DEF RR!Malloc, Grown
    <3>5. Becomes(r, mem[r], Append(sq[r], w(c)), send_cq[r], recv_cq[r],
                  Grown(heap[r], c, fields), wc[r])
      <4> HIDE DEF w, fields
      <4>2. IsFun(sq') /\ sq'[r] = Append(sq[r], w(c)) /\ sq'[Peer(r)] = sq[Peer(r)]
        BY <3>2, <1>f DEF IsFun
      <4>3. /\ IsFun(heap') /\ heap'[r] = Grown(heap[r], c, fields)
            /\ heap'[Peer(r)] = heap[Peer(r)]
        BY <3>3, <1>f DEF IsFun
      <4> QED  BY <3>1, <4>2, <4>3, <1>f DEF Becomes, AreFuns
    <3>6. RRGoes(r)
      BY <3>1, <1>p DEF RRLambda
    <3> HIDE DEF fields
    <3> QED  BY <3>1, <3>5, <3>6 DEF RREffect, Receives
  <2> QED  BY <2>1, <2>2
<1>7. CASE RR!HandleReadCompletion(r)
  <2>1. CASE RR!RdvAbort(r)
    BY <2>1, <1>a DEF RR!RdvAbort, RR!rdvVars
  <2>2. CASE ~ RR!RdvAbort(r)
    <3> DEFINE ctx == Head(send_cq[r]).wr_id
               x == heap[r][ctx].send_ctx
               fin == [v |-> "FIN", t |-> call[r].n, send_ctx |-> x]
               w == Request("SEND_IMM", 1, 1, 0, "FIN", 0)
    <3>1. /\ pc[r] = "poll_read" /\ RR!Proceed(r, RR!Body(r))
          /\ send_cq[r] # <<>> /\ Head(send_cq[r]).status = "SUCCESS" /\ ctx \in DOMAIN heap[r]
          /\ send_cq' = [send_cq EXCEPT ![r] = Tail(send_cq[r])]
          /\ RR!PostControl(r, 1, fin, "FIN", 0) /\ RR!Free(r, ctx)
          /\ UNCHANGED <<srq, recv_cq, config, wc>>
      BY <1>7, <2>2 DEF RR!HandleReadCompletion, RR!At, RR!Succeeded, RR!Live,
                        RR!pollSendCQ, RR!finMsg, RR!UnchangedByHandler
    <3>2. sq' = [sq EXCEPT ![r] = Append(sq[r], w)]
      <4>1. RR!WorkRequest(r, "SEND_IMM", 1, 1, 0, "FIN", 0) = w
        BY <1>w
      <4> QED  BY <3>1, <4>1 DEF RR!PostControl, RR!postSendImm, RR!Post
    <3>3. heap' = [heap EXCEPT ![r] = Shrunk(heap[r], ctx)]
      BY <3>1 DEF RR!Free, Shrunk
    <3>4. mem' = [mem EXCEPT ![r] = [mem[r] EXCEPT ![1] = fin]]
      BY <3>1, <1>f DEF RR!PostControl
    <3>5. Becomes(r, [mem[r] EXCEPT ![1] = fin], Append(sq[r], w), Tail(send_cq[r]), recv_cq[r],
                  Shrunk(heap[r], ctx), wc[r])
      <4> HIDE DEF fin, x, ctx, w
      <4>1. IsFun(mem') /\ mem'[r] = [mem[r] EXCEPT ![1] = fin] /\ mem'[Peer(r)] = mem[Peer(r)]
        BY <3>4, <1>f DEF IsFun
      <4>2. IsFun(sq') /\ sq'[r] = Append(sq[r], w) /\ sq'[Peer(r)] = sq[Peer(r)]
        BY <3>2, <1>f DEF IsFun
      <4>3. /\ IsFun(heap') /\ heap'[r] = Shrunk(heap[r], ctx)
            /\ heap'[Peer(r)] = heap[Peer(r)]
        BY <3>3, <1>f DEF IsFun
      <4>4. /\ IsFun(send_cq') /\ send_cq'[r] = Tail(send_cq[r])
            /\ send_cq'[Peer(r)] = send_cq[Peer(r)]
        BY <3>1, <1>f DEF IsFun
      <4> QED  BY <3>1, <4>1, <4>2, <4>3, <4>4, <1>f DEF Becomes, AreFuns
    <3>6. RRGoes(r)
      BY <3>1, <1>p DEF RRLambda
    <3> HIDE DEF x
    <3> QED  BY <3>1, <3>5, <3>6 DEF RREffect, Receives
  <2> QED  BY <2>1, <2>2
<1>8. CASE RR!HandleFIN(r)
  <2>1. CASE RR!RdvAbort(r)
    BY <2>1, <1>a DEF RR!RdvAbort, RR!rdvVars
  <2>2. CASE ~ RR!RdvAbort(r)
    <3> DEFINE ctx == mem[r][0].send_ctx
    <3>1. /\ pc[r] = "handle_fin" /\ RR!Proceed(r, RR!Body(r)) /\ ctx \in DOMAIN heap[r]
          /\ RR!Free(r, ctx)
          /\ UNCHANGED <<mem, sq, srq, send_cq, recv_cq, config, wc>>
      BY <1>8, <2>2 DEF RR!HandleFIN, RR!At, RR!Live, RR!ContextToFree, RR!rtsMsg,
                        RR!UnchangedByHandler
    <3>3. heap' = [heap EXCEPT ![r] = Shrunk(heap[r], ctx)]
      BY <3>1 DEF RR!Free, Shrunk
    <3>5. Becomes(r, mem[r], sq[r], send_cq[r], recv_cq[r], Shrunk(heap[r], ctx), wc[r])
      <4> HIDE DEF ctx
      <4>3. /\ IsFun(heap') /\ heap'[r] = Shrunk(heap[r], ctx)
            /\ heap'[Peer(r)] = heap[Peer(r)]
        BY <3>3, <1>f DEF IsFun
      <4> QED  BY <3>1, <4>3, <1>f DEF Becomes, AreFuns
    <3>6. RRGoes(r)
      BY <3>1, <1>p DEF RRLambda
    <3> QED  BY <3>1, <3>5, <3>6 DEF RREffect, Receives
  <2> QED  BY <2>1, <2>2
<1>9. CASE RR!Check(r)
  <2>1. CASE RR!Abort(r) /\ UNCHANGED <<heap, wc>>
    BY <2>1, <1>a
  <2>2. CASE ~ RR!Abort(r)
    <3>1. /\ pc[r] = "check" /\ RR!Proceed(r, RR!Body(r))
          /\ UNCHANGED <<mem, sq, srq, send_cq, recv_cq, config, heap, wc>>
      BY <1>9, <2>2 DEF RR!Check, RR!CheckData, RR!At, RR!rdvVars, RR!deviceVars, RR!fabricVars
    <3>2. Becomes(r, mem[r], sq[r], send_cq[r], recv_cq[r], heap[r], wc[r])
      BY <3>1, RdvHalts
    <3>3. RRGoes(r)
      BY <3>1, <1>p DEF RRLambda
    <3> QED  BY <3>1, <3>2, <3>3 DEF RREffect, Receives
  <2> QED  BY <1>9, <2>1, <2>2 DEF RR!Check, RR!CheckData, RR!rdvVars
<1>10. CASE RR!Finalize(r)
  <2>1. /\ pc[r] = "close" /\ RR!Goto(r, "exited")
        /\ UNCHANGED <<mem, sq, srq, send_cq, recv_cq, config, heap, wc>>
    BY <1>10 DEF RR!Finalize, RR!Exit, RR!At, RR!rdvVars
  <2>2. Becomes(r, mem[r], sq[r], send_cq[r], recv_cq[r], heap[r], wc[r])
    BY <2>1, RdvHalts
  <2>3. RRGoes(r)
    <3>1. <<pc[r], "exited">> \in RROutside(r)
      BY <2>1 DEF RROutside
    <3>2. Advance(r, "exited")
      BY <2>1 DEF RR!Goto, Advance
    <3> QED  BY <3>1, <3>2 DEF RRGoes
  <2> QED  BY <2>1, <2>2, <2>3 DEF RREffect, Receives
<1> QED  BY <1>1, <1>2, <1>3, <1>4, <1>5, <1>6, <1>7, <1>8, <1>9, <1>10 DEF RR!RankStep

\* The labels at which a rank of ibv_pingpong_rdv_read.cpp waits for a completion.
RRPolls == {"poll_rts", "poll_read", "poll_fin"}

\* The labels at which the RTS of rank r is not answered yet.
RRAnnounced == {"poll_rts", "recv_fin", "handle_fin"}

\* The RTS in its own cell names the context of rank r.
RRNamed(r) ==
    pc[r] \in RRAnnounced =>
        /\ DOMAIN heap[r] = {mem[r][0].send_ctx}
        /\ heap[r][mem[r][0].send_ctx].n = call[r].n

\* The messages of ibv_pingpong_rdv_read.cpp arrive in order, and a rank keeps
\* its RTS until the FIN.
RRChannel ==
    /\ config.inline_size = 0 /\ max_msg_size \in Nat
    /\ pc \in [Ranks -> RRLabels] /\ call \in [Ranks -> Calls]
    /\ Channels("rdv_read", 2, 3 + 2 * max_msg_size,
                [r \in Ranks |-> RRIn(r)], [r \in Ranks |-> RROut(r)])
    /\ \A r \in Ranks : /\ pc[r] \notin RRPolls => sq[r] = <<>> /\ send_cq[r] = <<>>
                        /\ RRNamed(r)

\* What a step counts.
LEMMA RRCounts ==
    ASSUME NEW r \in Ranks, pc \in [Ranks -> RRLabels], call \in [Ranks -> Calls], RRGoes(r)
    PROVE  /\ pc' \in [Ranks -> RRLabels] /\ call' \in [Ranks -> Calls]
           /\ pc'[Peer(r)] = pc[Peer(r)] /\ call'[Peer(r)] = call[Peer(r)]
           /\ RRIn(r)' = RRIn(r) + IF pc[r] \in {"recv_rts", "recv_fin"} THEN 1 ELSE 0
           /\ RROut(r)' = RROut(r) + IF pc[r] \in {"post_rts", "poll_read"} THEN 1 ELSE 0
           /\ RRIn(r)' \in Int /\ RROut(r)' \in Int
           /\ pc[r] \in {"post_rts", "handle_rts", "poll_read"} => pc'[r] \in RRPolls
           /\ pc'[r] \in RRAnnounced => call'[r] = call[r] /\ pc[r] \in {"post_rts", "poll_rts", "recv_fin"}
<1>q. Peer(r) \in Ranks /\ Peer(r) # r /\ pc[r] \in RRLabels /\ call[r] \in Calls /\ r \in {0, 1}
  BY PeerFacts DEF Ranks
<1>n. PICK n : n = call[r].n
  OBVIOUS
<1>m. n \in Nat
  BY <1>q, <1>n DEF Calls
<1>1. CASE pc[r] \in RRLambda /\ pc[r] # RRLast(r)
  <2>1. \A y : <<pc[r], y>> \notin RROutside(r)
    BY <1>1 DEF RRLambda, RROutside
  <2>2. pc' = [pc EXCEPT ![r] = RRAfter(r, pc[r])] /\ call' = call
    BY <1>1, <2>1 DEF RRGoes, Advance
  <2>3. PICK l, x : l = pc[r] /\ x = RRAfter(r, pc[r])
    OBVIOUS
  <2>4. pc'[r] = x /\ pc'[Peer(r)] = pc[Peer(r)] /\ call'[r].n = n /\ call[r].n = n
    BY <2>2, <2>3, <1>q, <1>n
  <2>5. x \in RRLabels
    BY <2>3, <1>1 DEF RRLambda, RRAfter, RRLabels
  <2>6. pc' \in [Ranks -> RRLabels] /\ call' \in [Ranks -> Calls] /\ call'[Peer(r)] = call[Peer(r)]
    BY <2>2, <2>3, <2>5
  <2>7. l \in RRLambda /\ (r = 0 => l # "check") /\ (r # 0 => l # "handle_fin")
    BY <1>1, <2>3 DEF RRLast
  <2>8. /\ RRIn(r) = IF r = 0 THEN Counted(2, n, l, {"handle_fin", "recv_rts"},
                          {"handle_rts", "poll_read", "poll_fin", "check"}, {})
           ELSE Counted(2, n, l, {"handle_rts", "poll_read", "poll_fin", "check",
                                       "fill", "post_rts", "poll_rts", "recv_fin"},
                 {"handle_fin"}, {})
        /\ RRIn(r)' = IF r = 0 THEN Counted(2, n, x, {"handle_fin", "recv_rts"},
                          {"handle_rts", "poll_read", "poll_fin", "check"}, {})
           ELSE Counted(2, n, x, {"handle_rts", "poll_read", "poll_fin", "check",
                                       "fill", "post_rts", "poll_rts", "recv_fin"},
                 {"handle_fin"}, {})
    BY <2>3, <2>4 DEF RRIn
  <2>9. /\ RROut(r) = IF r = 0 THEN Counted(2, n, l, {"poll_rts", "recv_fin", "handle_fin", "recv_rts",
                                                "handle_rts", "poll_read"},
                          {"poll_fin", "check"}, {})
           ELSE Counted(2, n, l, {"poll_fin", "check", "fill", "post_rts"},
                 {"poll_rts", "recv_fin", "handle_fin"}, {})
        /\ RROut(r)' = IF r = 0 THEN Counted(2, n, x, {"poll_rts", "recv_fin", "handle_fin", "recv_rts",
                                                "handle_rts", "poll_read"},
                          {"poll_fin", "check"}, {})
           ELSE Counted(2, n, x, {"poll_fin", "check", "fill", "post_rts"},
                 {"poll_rts", "recv_fin", "handle_fin"}, {})
    BY <2>3, <2>4 DEF RROut
  <2>10. x = RRAfter(r, l)
    BY <2>3
  <2>11. /\ RRIn(r)' = RRIn(r) + IF l \in {"recv_rts", "recv_fin"} THEN 1 ELSE 0
         /\ RRIn(r)' \in Int
    BY <2>7, <2>8, <2>10, <1>m, <1>q DEF Counted, RRAfter, RRLambda
  <2>12. /\ RROut(r)' = RROut(r) + IF l \in {"post_rts", "poll_read"} THEN 1 ELSE 0
         /\ RROut(r)' \in Int
    BY <2>7, <2>9, <2>10, <1>m, <1>q DEF Counted, RRAfter, RRLambda
  <2>13. /\ l \in {"post_rts", "handle_rts", "poll_read"} => x \in RRPolls
         /\ x \in RRAnnounced => l \in {"post_rts", "poll_rts", "recv_fin"}
    BY <2>7, <2>10 DEF RRAfter, RRLambda, RRPolls, RRAnnounced
  <2> QED  BY <2>2, <2>3, <2>4, <2>6, <2>11, <2>12, <2>13
<1>2. CASE pc[r] = RRLast(r)
  <2>1. pc[r] \in RRLambda /\ \A y : <<pc[r], y>> \notin RROutside(r)
    BY <1>2 DEF RRLambda, RROutside, RRLast
  <2>2. PICK x : /\ x \in {"fill", "recv_rts", "close"} /\ (x = "fill" => r = 0)
                 /\ (x = "recv_rts" => r # 0)
                 /\ pc' = [pc EXCEPT ![r] = x] /\ call' = [call EXCEPT ![r] = NextCall(call[r])]
    BY <1>2, <2>1 DEF RRGoes, EndCall
  <2>3. NextCall(call[r]) \in Calls /\ NextCall(call[r]).n = n + 1
    BY <1>q, <1>n, NextCallGrows, BenchAssumption
  <2>4. /\ pc'[r] = x /\ pc'[Peer(r)] = pc[Peer(r)] /\ call'[r].n = n + 1 /\ call[r].n = n
        /\ call' \in [Ranks -> Calls] /\ call'[Peer(r)] = call[Peer(r)]
    BY <2>2, <2>3, <1>q, <1>n
  <2>5. x \in RRLabels /\ pc' \in [Ranks -> RRLabels]
    BY <2>2 DEF RRLabels
  <2>0. \A l, a, b, c : l \notin a /\ l \notin b /\ l \notin c => Counted(2, n + 1, l, a, b, c) = 2 * n
    BY <1>m DEF Counted
  <2>6. RRIn(r)' = 2 * n /\ RROut(r)' = 2 * n
    <3>1. RRIn(r)' = IF r = 0 THEN Counted(2, n + 1, x, {"handle_fin", "recv_rts"},
                          {"handle_rts", "poll_read", "poll_fin", "check"}, {})
           ELSE Counted(2, n + 1, x, {"handle_rts", "poll_read", "poll_fin", "check",
                                       "fill", "post_rts", "poll_rts", "recv_fin"},
                 {"handle_fin"}, {})
      BY <2>4 DEF RRIn
    <3>2. RROut(r)' = IF r = 0 THEN Counted(2, n + 1, x, {"poll_rts", "recv_fin", "handle_fin", "recv_rts",
                                                "handle_rts", "poll_read"},
                          {"poll_fin", "check"}, {})
           ELSE Counted(2, n + 1, x, {"poll_fin", "check", "fill", "post_rts"},
                 {"poll_rts", "recv_fin", "handle_fin"}, {})
      BY <2>4 DEF RROut
    <3> QED  BY <2>0, <2>2, <3>1, <3>2
  <2>7. RRIn(r) = 2 * n /\ RROut(r) = 2 * n
    BY <1>2, <2>4, <1>m DEF RRIn, RROut, Counted, RRLast
  <2>8. /\ pc[r] \notin {"recv_rts", "recv_fin"} /\ pc[r] \notin {"post_rts", "poll_read"}
        /\ pc[r] # "handle_rts" /\ x \notin RRAnnounced
    BY <1>2, <2>2 DEF RRLast, RRAnnounced
  <2> QED  BY <2>4, <2>5, <2>6, <2>7, <2>8, <1>m
<1>3. CASE pc[r] \notin RRLambda
  <2>1. PICK x : <<pc[r], x>> \in RROutside(r) /\ pc' = [pc EXCEPT ![r] = x] /\ call' = call
    BY <1>3 DEF RRGoes, Advance
  <2>2. /\ pc[r] \in {"setup", "close"} /\ x \in {"fill", "recv_rts", "exited"}
        /\ (x = "fill" => r = 0) /\ (x = "recv_rts" => r # 0)
    BY <2>1 DEF RROutside
  <2>3. /\ pc'[r] = x /\ pc'[Peer(r)] = pc[Peer(r)] /\ call'[r].n = n /\ call[r].n = n
        /\ call' \in [Ranks -> Calls] /\ call'[Peer(r)] = call[Peer(r)]
    BY <2>1, <1>q, <1>n
  <2>4. x \in RRLabels /\ pc' \in [Ranks -> RRLabels]
    BY <2>1, <2>2 DEF RRLabels
  <2>5. RRIn(r)' = 2 * (n - 1) /\ RROut(r)' = 2 * (n - 1)
    BY <2>2, <2>3, <1>m DEF RRIn, RROut, Counted
  <2>6. RRIn(r) = 2 * (n - 1) /\ RROut(r) = 2 * (n - 1)
    BY <2>2, <2>3, <1>m DEF RRIn, RROut, Counted
  <2> QED  BY <2>2, <2>3, <2>4, <2>5, <2>6, <1>m DEF RRAnnounced
<1> QED  BY <1>1, <1>2, <1>3

\* The counts are numbers.
LEMMA RRNumbers ==
    ASSUME call \in [Ranks -> Calls], NEW r \in Ranks
    PROVE  RRIn(r) \in Int /\ RROut(r) \in Int /\ call[r].n \in Nat \ {0}
<1>1. PICK n : n = call[r].n
  OBVIOUS
<1>2. n \in Nat \ {0}
  BY <1>1 DEF Calls
<1>3. \A l, a, b, c : Counted(2, n, l, a, b, c) \in Int
  BY <1>2 DEF Counted
<1> QED  BY <1>1, <1>2, <1>3 DEF RRIn, RROut

\* A message of ibv_pingpong_rdv_read.cpp when it is posted: the RTS of rank 0
\* is its first of a call, that of rank 1 its second.
LEMMA RRPosts ==
    ASSUME NEW r \in Ranks, NEW n \in Nat \ {0}, NEW o, NEW b \in {0, 1}, NEW imm, NEW id, NEW m,
           m[b].v = imm, m[b].t = n,
           \/ imm = "RTS" /\ o = 2 * (n - 1) + 1 + r
           \/ imm = "FIN" /\ o = 2 * n - r
    PROVE  Sound("rdv_read", r, 2, o, Request("SEND_IMM", b, 1, 0, imm, id), m)
<1>1. PICK w : w = Request("SEND_IMM", b, 1, 0, imm, id)
  OBVIOUS
<1>0. IsRequest(w) /\ w.inline = FALSE
  BY <1>1, RequestNotInline, Zenon
<1>2. w.op = "SEND_IMM" /\ w.len = 1 /\ w.buf = b /\ w.imm = imm
  BY <1>1, RequestFields
<1>3. Arrival(w, 2).wr_id = 2 /\ Arrival(w, 2).imm = imm
  BY <1>2 DEF Arrival
<1>4. Fits("rdv_read", Peer(r), o, Arrival(w, 2), m[w.buf])
  <2>1. r \in {0, 1} /\ Peer(r) = 1 - r
    BY DEF Ranks, Peer
  <2>2. RRFits(Peer(r), o, Arrival(w, 2), m[b])
    BY <1>3, <2>1 DEF RRFits
  <2> QED  BY <1>2, <2>2 DEF Fits
<1>5. Sound("rdv_read", r, 2, o, w, m)
  BY <1>0, <1>2, <1>4 DEF Sound
<1> QED  BY <1>1, <1>5

\* The steps of a rank of ibv_pingpong_rdv_read.cpp keep the invariant.
LEMMA RRChannelUsed ==
    ASSUME RRChannel, RRContexts, NEW r \in Ranks, posted_recv_num[r] \in 0 .. MaxRecv,
           RR!RankStep(r)
    PROVE  RRChannel'
<1> DEFINE q == Peer(r)
<1>a. PICK size : size = 3 + 2 * max_msg_size
  OBVIOUS
<1>q. q \in Ranks /\ q # r /\ Ranks = {r, q} /\ r \in {0, 1}
  BY PeerFacts DEF Ranks, Peer
<1>t. /\ config.inline_size = 0 /\ max_msg_size \in Nat
      /\ pc \in [Ranks -> RRLabels] /\ call \in [Ranks -> Calls]
      /\ pc[r] \notin RRPolls => sq[r] = <<>> /\ send_cq[r] = <<>>
      /\ RRNamed(r) /\ RRNamed(q)
      /\ pc[q] \notin RRPolls => sq[q] = <<>> /\ send_cq[q] = <<>>
  BY <1>q DEF RRChannel
<1>i. PICK in, out : in = [x \in Ranks |-> RRIn(x)] /\ out = [x \in Ranks |-> RROut(x)]
  OBVIOUS
<1>n. /\ in \in [Ranks -> Int] /\ out \in [Ranks -> Int]
      /\ in[r] = RRIn(r) /\ out[r] = RROut(r) /\ in[r] \in Int /\ out[r] \in Int
      /\ size \in Nat /\ 2 < size
  BY <1>a, <1>i, <1>t, RRNumbers
<1>c. Channels("rdv_read", 2, size, in, out)
  BY <1>a, <1>i DEF RRChannel
<1>d. /\ RdvFuns /\ HasDomain(mem[r], size) /\ Receives(r, 2)
      /\ Outstanding("rdv_read", r, 2, out[r], sq[r], send_cq[r], mem[r])
  BY <1>c DEF Channels
<1>z. call[r].size \in Nat \ {0} /\ call[r].n \in Nat \ {0}
  BY <1>t DEF Calls
<1>s. /\ Receives(r, 2)' /\ UNCHANGED config
      /\ \/ /\ UNCHANGED <<pc, call>>
            /\ Becomes(r, mem[r], sq[r], send_cq[r], recv_cq[r], heap[r], wc[r])
         \/ RRGoes(r) /\ RREffect(r)
  BY <1>t, <1>d, <1>z, RRSteps
<1>x. /\ config' = config /\ max_msg_size' = max_msg_size /\ size = 3 + 2 * max_msg_size'
  BY <1>a, <1>s DEF max_msg_size
<1>1. CASE /\ UNCHANGED <<pc, call>>
           /\ Becomes(r, mem[r], sq[r], send_cq[r], recv_cq[r], heap[r], wc[r])
  <2>1. /\ SendSide("rdv_read", r, 2, out[r], out[r], mem[r], sq[r], send_cq[r])
        /\ TakeSide(r, in[r], in[r], recv_cq[r], wc[r])
    BY DEF SendSide, TakeSide
  <2>2. Channels("rdv_read", 2, size, [in EXCEPT ![r] = in[r]], [out EXCEPT ![r] = out[r]])'
    <3> QED  BY <1>1, <1>c, <1>d, <1>n, <1>s, <2>1, ChannelsUsed
  <2>3. [in EXCEPT ![r] = in[r]] = in /\ [out EXCEPT ![r] = out[r]] = out
    BY <1>n
  <2>4. in = [x \in Ranks |-> RRIn(x)'] /\ out = [x \in Ranks |-> RROut(x)']
    BY <1>i, <1>1 DEF RRIn, RROut
  <2>5. \A x \in Ranks : /\ pc'[x] \notin RRPolls => sq'[x] = <<>> /\ send_cq'[x] = <<>>
                         /\ RRNamed(x)'
    BY <1>1, <1>t, <1>q DEF Becomes, RRNamed
  <2> QED  BY <1>1, <1>t, <1>x, <2>2, <2>3, <2>4, <2>5 DEF RRChannel
<1>2. CASE RRGoes(r) /\ RREffect(r)
  <2>g. /\ pc' \in [Ranks -> RRLabels] /\ call' \in [Ranks -> Calls]
        /\ pc'[q] = pc[q] /\ call'[q] = call[q]
        /\ RRIn(r)' = RRIn(r) + IF pc[r] \in {"recv_rts", "recv_fin"} THEN 1 ELSE 0
        /\ RROut(r)' = RROut(r) + IF pc[r] \in {"post_rts", "poll_read"} THEN 1 ELSE 0
        /\ RRIn(r)' \in Int /\ RROut(r)' \in Int
        /\ pc[r] \in {"post_rts", "handle_rts", "poll_read"} => pc'[r] \in RRPolls
        /\ pc'[r] \in RRAnnounced => call'[r] = call[r] /\ pc[r] \in {"post_rts", "poll_rts", "recv_fin"}
    BY <1>2, <1>t, RRCounts
  <2>i. PICK i \in Int, o \in Int : i = RRIn(r)' /\ o = RROut(r)'
    BY <2>g
  <2>j. /\ i = in[r] + IF pc[r] \in {"recv_rts", "recv_fin"} THEN 1 ELSE 0
        /\ o = out[r] + IF pc[r] \in {"post_rts", "poll_read"} THEN 1 ELSE 0
    BY <2>g, <2>i, <1>n
  <2>l. /\ [in EXCEPT ![r] = i] = [x \in Ranks |-> RRIn(x)']
        /\ [out EXCEPT ![r] = o] = [x \in Ranks |-> RROut(x)']
    <3>1. RRIn(q)' = RRIn(q) /\ RROut(q)' = RROut(q)
      BY <2>g DEF RRIn, RROut
    <3>2. \A x \in Ranks : x = r \/ x = q
      BY <1>q
    <3> QED  BY <1>i, <1>q, <2>i, <3>1, <3>2
  <2>k. ASSUME NEW m, NEW s, NEW sc, NEW rc, NEW h, NEW c, Becomes(r, m, s, sc, rc, h, c),
               HasDomain(m, size), m[2] = mem[r][2],
               SendSide("rdv_read", r, 2, out[r], o, m, s, sc), TakeSide(r, in[r], i, rc, c),
               pc'[r] \notin RRPolls => s = <<>> /\ sc = <<>>,
               RRNamed(r)'
        PROVE  RRChannel'
    <3>1. Channels("rdv_read", 2, size, [in EXCEPT ![r] = i], [out EXCEPT ![r] = o])'
      <4> QED  BY <1>c, <1>n, <1>s, <2>k, ChannelsUsed
    <3>2. \A x \in Ranks : /\ pc'[x] \notin RRPolls => sq'[x] = <<>> /\ send_cq'[x] = <<>>
                           /\ RRNamed(x)'
      <4>1. /\ sq'[r] = s /\ send_cq'[r] = sc /\ sq'[q] = sq[q] /\ send_cq'[q] = send_cq[q]
            /\ heap'[q] = heap[q] /\ mem'[q] = mem[q]
        BY <2>k DEF Becomes
      <4>2. RRNamed(q)'
        BY <4>1, <1>t, <2>g DEF RRNamed
      <4> QED  BY <4>1, <4>2, <1>q, <1>t, <2>g, <2>k
    <3> QED  BY <1>t, <1>x, <2>g, <2>l, <3>1, <3>2 DEF RRChannel
  <2>h. CASE pc[r] \notin {"post_rts", "poll_rts", "recv_fin"}
    <3>1. RRNamed(r)'
      BY <2>h, <2>g DEF RRNamed
    <3>2. CASE pc[r] \in {"setup", "check", "close"}
      <4>1. Becomes(r, mem[r], sq[r], send_cq[r], recv_cq[r], heap[r], wc[r])
        BY <1>2, <3>2 DEF RREffect
      <4>2. sq[r] = <<>> /\ send_cq[r] = <<>> /\ i = in[r] /\ o = out[r]
        BY <3>2, <2>j, <1>n, <1>t DEF RRPolls
      <4>3. /\ SendSide("rdv_read", r, 2, out[r], o, mem[r], sq[r], send_cq[r])
            /\ TakeSide(r, in[r], i, recv_cq[r], wc[r])
        BY <4>2 DEF SendSide, TakeSide
      <4> QED  BY <4>1, <4>2, <4>3, <3>1, <2>k, <1>d
    <3>3. CASE pc[r] = "fill"
      <4>1. PICK m : /\ Becomes(r, m, sq[r], send_cq[r], recv_cq[r], heap[r], wc[r])
                     /\ \/ m = mem[r] \/ \E data : m = Store(mem[r], 3, data)
        BY <1>2, <3>3 DEF RREffect
      <4>2. HasDomain(m, size) /\ \A a \in 0 .. 2 : m[a] = mem[r][a]
        <5>1. ASSUME NEW data, m = Store(mem[r], 3, data)
              PROVE  HasDomain(m, size) /\ \A a \in 0 .. 2 : m[a] = mem[r][a]
          <6>1. \A a \in 0 .. 2 : a \in 0 .. size - 1 /\ a \notin 3 .. 3 + Len(data) - 1
            BY <1>n
          <6> QED  BY <5>1, <6>1, <1>n, <1>d, StoreKeeps
        <5> QED  BY <4>1, <5>1, <1>d
      <4>3. sq[r] = <<>> /\ send_cq[r] = <<>> /\ i = in[r] /\ o = out[r]
        BY <3>3, <2>j, <1>n, <1>t DEF RRPolls
      <4>4. /\ SendSide("rdv_read", r, 2, out[r], o, m, sq[r], send_cq[r])
            /\ TakeSide(r, in[r], i, recv_cq[r], wc[r])
        BY <4>2, <4>3 DEF SendSide, TakeSide
      <4> QED  BY <4>1, <4>2, <4>3, <4>4, <3>1, <2>k
    <3>4. CASE pc[r] = "poll_fin"
      <4>1. /\ send_cq[r] # <<>> /\ Head(send_cq[r]).status = "SUCCESS"
            /\ Becomes(r, mem[r], sq[r], Tail(send_cq[r]), recv_cq[r], heap[r], wc[r])
        BY <1>2, <3>4 DEF RREffect
      <4>2. sq[r] = <<>> /\ Tail(send_cq[r]) = <<>> /\ ~ Broken(send_cq[r])
        BY <4>1, <1>d, CompletionTaken
      <4>3. i = in[r] /\ o = out[r]
        BY <3>4, <2>j, <1>n
      <4>4. /\ SendSide("rdv_read", r, 2, out[r], o, mem[r], sq[r], Tail(send_cq[r]))
            /\ TakeSide(r, in[r], i, recv_cq[r], wc[r])
        BY <4>2, <4>3 DEF SendSide, TakeSide
      <4> QED  BY <4>1, <4>2, <4>4, <3>1, <2>k, <1>d
    <3>5. CASE pc[r] = "recv_rts"
      <4>1. /\ recv_cq[r] # <<>>
            /\ Becomes(r, mem[r], sq[r], send_cq[r], Tail(recv_cq[r]), heap[r], Head(recv_cq[r]))
        BY <1>2, <3>5 DEF RREffect
      <4>2. sq[r] = <<>> /\ send_cq[r] = <<>> /\ i = in[r] + 1 /\ o = out[r]
        BY <3>5, <2>j, <1>n, <1>t DEF RRPolls
      <4>3. /\ SendSide("rdv_read", r, 2, out[r], o, mem[r], sq[r], send_cq[r])
            /\ TakeSide(r, in[r], i, Tail(recv_cq[r]), Head(recv_cq[r]))
        BY <4>1, <4>2 DEF SendSide, TakeSide
      <4> QED  BY <4>1, <4>2, <4>3, <3>1, <2>k, <1>d
    <3>6. CASE pc[r] = "handle_rts"
      <4>1. PICK len, raddr, id, h :
                Becomes(r, mem[r], Append(sq[r], Request("READ", 3 + max_msg_size, len, raddr, 0, id)),
                        send_cq[r], recv_cq[r], h, wc[r])
        BY <1>2, <3>6 DEF RREffect
      <4>2. PICK w : w = Request("READ", 3 + max_msg_size, len, raddr, 0, id)
        OBVIOUS
      <4>3. sq[r] = <<>> /\ send_cq[r] = <<>> /\ i = in[r] /\ o = out[r] /\ pc'[r] \in RRPolls
        BY <3>6, <2>j, <2>g, <1>n, <1>t DEF RRPolls
      <4>4. Append(sq[r], w) = <<w>>
        BY <4>3
      <4>9. IsRequest(w) /\ w.inline = FALSE
        BY <4>2, RequestNotInline, Zenon
      <4>5. w.op = "READ" /\ w.buf = 3 + max_msg_size /\ w.st = "posted"
        BY <4>2, RequestFields
      <4>6. Sound("rdv_read", r, 2, o, w, mem[r])
        BY <4>5, <4>9, <1>t DEF Sound
      <4>7. /\ SendSide("rdv_read", r, 2, out[r], o, mem[r], <<w>>, <<>>)
            /\ TakeSide(r, in[r], i, recv_cq[r], wc[r])
        BY <4>3, <4>5, <4>6, <1>n DEF SendSide, TakeSide, Broken, Messages
      <4>8. Becomes(r, mem[r], <<w>>, <<>>, recv_cq[r], h, wc[r])
        BY <4>1, <4>2, <4>3, <4>4
      <4> QED  BY <4>3, <4>7, <4>8, <3>1, <2>k, <1>d
    <3>7. CASE pc[r] = "poll_read"
      <4>1. PICK x, h : /\ send_cq[r] # <<>> /\ Head(send_cq[r]).status = "SUCCESS"
                        /\ Becomes(r, [mem[r] EXCEPT ![1] = [v |-> "FIN", t |-> call[r].n,
                                                             send_ctx |-> x]],
                                   Append(sq[r], Request("SEND_IMM", 1, 1, 0, "FIN", 0)),
                                   Tail(send_cq[r]), recv_cq[r], h, wc[r])
        BY <1>2, <3>7 DEF RREffect
      <4>2. PICK y : y = [v |-> "FIN", t |-> call[r].n, send_ctx |-> x]
        OBVIOUS
      <4>3. PICK m : m = [mem[r] EXCEPT ![1] = y]
        OBVIOUS
      <4>4. HasDomain(m, size) /\ m[1] = y /\ m[2] = mem[r][2] /\ y.v = "FIN" /\ y.t = call[r].n
        <5>1. 1 \in 0 .. size - 1 /\ 2 \in 0 .. size - 1
          BY <1>n
        <5>2. HasDomain(m, size) /\ m[1] = y /\ m[2] = mem[r][2]
          <6>1. PICK k : k = mem[r]
            OBVIOUS
          <6>2. HasDomain(k, size) /\ size \in Nat
            BY <6>1, <1>n, <1>d
          <6>3. m = [k EXCEPT ![1] = y]
            BY <4>3, <6>1
          <6>4. DOMAIN k = 0 .. size - 1
            BY <6>2 DEF HasDomain
          <6>5. m[1] = y /\ m[2] = k[2]
            BY <5>1, <6>3, <6>4
          <6>6. DOMAIN m = 0 .. size - 1 /\ m = [a \in 0 .. size - 1 |-> m[a]]
            BY <6>3, <6>4
          <6> QED  BY <6>1, <6>5, <6>6 DEF HasDomain
        <5> QED  BY <5>2, <4>2
      <4>5. PICK w : w = Request("SEND_IMM", 1, 1, 0, "FIN", 0)
        OBVIOUS
      <4>6. sq[r] = <<>> /\ Tail(send_cq[r]) = <<>> /\ ~ Broken(send_cq[r])
        BY <4>1, <1>d, CompletionTaken
      <4>7. Append(sq[r], w) = <<w>>
        BY <4>6
      <4>8. i = in[r] /\ o = out[r] + 1 /\ pc'[r] \in RRPolls /\ o = 2 * call[r].n - r
        BY <3>7, <2>j, <2>g, <1>n, <1>q, <1>z DEF RROut, Counted
      <4>9. Sound("rdv_read", r, 2, o, w, m)
        BY <4>4, <4>5, <4>8, <1>z, RRPosts
      <4>10. w.op = "SEND_IMM" /\ w.st = "posted"
        BY <4>5, RequestFields
      <4>11. /\ SendSide("rdv_read", r, 2, out[r], o, m, <<w>>, <<>>)
             /\ TakeSide(r, in[r], i, recv_cq[r], wc[r])
        BY <4>6, <4>8, <4>9, <4>10 DEF SendSide, TakeSide, Messages
      <4>12. Becomes(r, m, <<w>>, <<>>, recv_cq[r], h, wc[r])
        BY <4>1, <4>2, <4>3, <4>5, <4>6, <4>7
      <4> QED  BY <4>4, <4>8, <4>11, <4>12, <3>1, <2>k
    <3>8. CASE pc[r] = "handle_fin"
      <4>1. PICK h : Becomes(r, mem[r], sq[r], send_cq[r], recv_cq[r], h, wc[r])
        BY <1>2, <3>8 DEF RREffect
      <4>2. sq[r] = <<>> /\ send_cq[r] = <<>> /\ i = in[r] /\ o = out[r]
        BY <3>8, <2>j, <1>n, <1>t DEF RRPolls
      <4>3. /\ SendSide("rdv_read", r, 2, out[r], o, mem[r], sq[r], send_cq[r])
            /\ TakeSide(r, in[r], i, recv_cq[r], wc[r])
        BY <4>2 DEF SendSide, TakeSide
      <4> QED  BY <4>1, <4>2, <4>3, <3>1, <2>k, <1>d
    <3> QED  BY <1>2, <2>h, <3>2, <3>3, <3>4, <3>5, <3>6, <3>7, <3>8 DEF RREffect
  <2>p. CASE pc[r] = "post_rts"
    <3>1. PICK x, f : /\ Becomes(r, [mem[r] EXCEPT ![0] = f],
                            Append(sq[r], Request("SEND_IMM", 0, 1, 0, "RTS", x)),
                            send_cq[r], recv_cq[r], Grown(heap[r], x, [n |-> call[r].n]), wc[r])
                      /\ f.v = "RTS" /\ f.t = call[r].n /\ f.send_ctx = x
      <4>1. PICK x : Becomes(r, [mem[r] EXCEPT ![0] = [v |-> "RTS", t |-> call[r].n, send_ctx |-> x,
                                                       addr |-> 3, size |-> call[r].size]],
                            Append(sq[r], Request("SEND_IMM", 0, 1, 0, "RTS", x)),
                            send_cq[r], recv_cq[r], Grown(heap[r], x, [n |-> call[r].n]), wc[r])
        BY <1>2, <2>p DEF RREffect
      <4>2. PICK f : f = [v |-> "RTS", t |-> call[r].n, send_ctx |-> x, addr |-> 3, size |-> call[r].size]
        OBVIOUS
      <4>3. f.v = "RTS" /\ f.t = call[r].n /\ f.send_ctx = x
        BY <4>2
      <4> QED  BY <4>1, <4>2, <4>3
    <3>2. PICK m : m = [mem[r] EXCEPT ![0] = f]
      OBVIOUS
    <3>3. HasDomain(m, size) /\ m[0] = f /\ m[2] = mem[r][2]
      <4>1. 0 \in 0 .. size - 1 /\ 2 \in 0 .. size - 1
        BY <1>n
      <4> QED  BY <3>2, <4>1, <1>n, <1>d, CellSet
    <3>4. PICK w : w = Request("SEND_IMM", 0, 1, 0, "RTS", x)
      OBVIOUS
    <3>5. sq[r] = <<>> /\ send_cq[r] = <<>>
      BY <2>p, <1>t DEF RRPolls
    <3>6. Append(sq[r], w) = <<w>> /\ ~ Broken(send_cq[r])
      BY <3>5 DEF Broken
    <3>7. i = in[r] /\ o = out[r] + 1 /\ pc'[r] \in RRPolls /\ o = 2 * (call[r].n - 1) + 1 + r
      BY <2>p, <2>j, <2>g, <1>n, <1>q, <1>z DEF RROut, Counted
    <3>8. Sound("rdv_read", r, 2, o, w, m)
      BY <3>1, <3>3, <3>4, <3>7, <1>z, RRPosts
    <3>9. w.op = "SEND_IMM" /\ w.st = "posted"
      BY <3>4, RequestFields
    <3>10. /\ SendSide("rdv_read", r, 2, out[r], o, m, <<w>>, <<>>)
           /\ TakeSide(r, in[r], i, recv_cq[r], wc[r])
      BY <3>5, <3>6, <3>7, <3>8, <3>9 DEF SendSide, TakeSide, Messages
    <3>11. Becomes(r, m, <<w>>, <<>>, recv_cq[r], Grown(heap[r], x, [n |-> call[r].n]), wc[r])
      BY <3>1, <3>2, <3>4, <3>5, <3>6
    <3>12. RRNamed(r)'
      <4>1. DOMAIN heap[r] = {}
        BY <2>p DEF RRContexts, Holds, RRHeld
      <4>2. heap'[r] = Grown(heap[r], x, [n |-> call[r].n]) /\ mem'[r][0].send_ctx = x
        BY <3>1, <3>3, <3>11 DEF Becomes
      <4>3. DOMAIN heap'[r] = {x} /\ heap'[r][x].n = call[r].n
        BY <4>1, <4>2 DEF Grown
      <4> QED  BY <4>2, <4>3, <2>g DEF RRNamed
    <3> QED  BY <3>3, <3>7, <3>10, <3>11, <3>12, <2>k
  <2>r. CASE pc[r] \in {"poll_rts", "recv_fin"}
    <3>1. PICK sc, rc, c : /\ Becomes(r, mem[r], sq[r], sc, rc, heap[r], c)
                           /\ SendSide("rdv_read", r, 2, out[r], o, mem[r], sq[r], sc)
                           /\ TakeSide(r, in[r], i, rc, c)
                           /\ sq[r] = <<>> /\ sc = <<>>
      <4>1. CASE pc[r] = "poll_rts"
        <5>1. /\ send_cq[r] # <<>> /\ Head(send_cq[r]).status = "SUCCESS"
              /\ Becomes(r, mem[r], sq[r], Tail(send_cq[r]), recv_cq[r], heap[r], wc[r])
          BY <1>2, <4>1 DEF RREffect
        <5>2. sq[r] = <<>> /\ Tail(send_cq[r]) = <<>> /\ ~ Broken(send_cq[r])
          BY <5>1, <1>d, CompletionTaken
        <5>3. i = in[r] /\ o = out[r]
          BY <4>1, <2>j, <1>n
        <5>4. /\ SendSide("rdv_read", r, 2, out[r], o, mem[r], sq[r], Tail(send_cq[r]))
              /\ TakeSide(r, in[r], i, recv_cq[r], wc[r])
          BY <5>2, <5>3 DEF SendSide, TakeSide
        <5> QED  BY <5>1, <5>2, <5>4
      <4>2. CASE pc[r] = "recv_fin"
        <5>1. /\ recv_cq[r] # <<>>
              /\ Becomes(r, mem[r], sq[r], send_cq[r], Tail(recv_cq[r]), heap[r], Head(recv_cq[r]))
          BY <1>2, <4>2 DEF RREffect
        <5>2. sq[r] = <<>> /\ send_cq[r] = <<>> /\ i = in[r] + 1 /\ o = out[r]
          BY <4>2, <2>j, <1>n, <1>t DEF RRPolls
        <5>3. /\ SendSide("rdv_read", r, 2, out[r], o, mem[r], sq[r], send_cq[r])
              /\ TakeSide(r, in[r], i, Tail(recv_cq[r]), Head(recv_cq[r]))
          BY <5>1, <5>2 DEF SendSide, TakeSide
        <5> QED  BY <5>1, <5>2, <5>3
      <4> QED  BY <2>r, <4>1, <4>2
    <3>2. RRNamed(r)'
      <4>1. mem'[r] = mem[r] /\ heap'[r] = heap[r]
        BY <3>1 DEF Becomes
      <4>2. pc[r] \in RRAnnounced
        BY <2>r DEF RRAnnounced
      <4> QED  BY <4>1, <4>2, <1>t, <2>g DEF RRNamed
    <3> QED  BY <3>1, <3>2, <2>k, <1>d
  <2> QED  BY <2>h, <2>p, <2>r
<1> QED  BY <1>s, <1>1, <1>2

\* So do those of the adapters.
LEMMA RRChannelCarried ==
    ASSUME RRChannel, NEW r \in Ranks, Adapter(r) \/ LoseAck(r),
           UNCHANGED <<config, pc, call, heap, wc>>
    PROVE  RRChannel'
<1>1. PICK in, out, size : /\ in = [x \in Ranks |-> RRIn(x)] /\ out = [x \in Ranks |-> RROut(x)]
                           /\ size = 3 + 2 * max_msg_size
  OBVIOUS
<1>2. /\ in \in [Ranks -> Int] /\ out \in [Ranks -> Int] /\ size \in Nat /\ 2 < size
      /\ Channels("rdv_read", 2, size, in, out)
  BY <1>1, RRNumbers DEF RRChannel
<1>3. /\ Channels("rdv_read", 2, size, in, out)'
      /\ \A x \in Ranks :
             /\ \A a \in 0 .. 1 : mem'[x][a] = mem[x][a]
             /\ sq[x] = <<>> => sq'[x] = sq[x] /\ send_cq'[x] = send_cq[x]
  <2>1. /\ Channels("rdv_read", 2, size, in, out)'
        /\ \A x \in Ranks :
               /\ \A a \in 0 .. 2 - 1 : mem'[x][a] = mem[x][a]
               /\ sq[x] = <<>> => sq'[x] = sq[x] /\ send_cq'[x] = send_cq[x]
    <3> HIDE DEF Channels
    <3> QED  BY <1>2, ChannelsCarried
  <2>2. 2 - 1 = 1
    OBVIOUS
  <2> QED  BY <2>1, <2>2
<1>4. size = 3 + 2 * max_msg_size' /\ max_msg_size' = max_msg_size
  BY <1>1 DEF max_msg_size
<1>5. in = [x \in Ranks |-> RRIn(x)'] /\ out = [x \in Ranks |-> RROut(x)']
  BY <1>1 DEF RRIn, RROut
<1>6. \A x \in Ranks : /\ pc'[x] \notin RRPolls => sq'[x] = <<>> /\ send_cq'[x] = <<>>
                       /\ RRNamed(x)'
  BY <1>3 DEF RRChannel, RRNamed
<1> QED  BY <1>3, <1>4, <1>5, <1>6 DEF RRChannel

\* Each handler of ibv_pingpong_rdv_read.cpp works on what it should.
LEMMA RRHandlersFind ==
    ASSUME RRChannel
    PROVE  RR!ControlIntact /\ RR!FreesRightContext
<1>1. RR!FreesRightContext
  <2>1. SUFFICES ASSUME NEW r \in Ranks, pc[r] = "handle_fin"
                 PROVE  /\ mem[r][0].send_ctx \in DOMAIN heap[r]
                        /\ heap[r][mem[r][0].send_ctx].n = call[r].n
    BY DEF RR!FreesRightContext, RR!Ranks, Ranks, RR!Live, RR!ContextToFree, RR!rtsMsg
  <2>2. RRNamed(r) /\ pc[r] \in RRAnnounced
    BY <2>1 DEF RRChannel, RRAnnounced
  <2> QED  BY <2>2 DEF RRNamed
<1>2. RR!ControlIntact
  <2>1. SUFFICES ASSUME NEW r \in Ranks, pc[r] = "handle_rts"
                 PROVE  mem[r][wc[r].wr_id].v = "RTS" /\ mem[r][wc[r].wr_id].t = call[r].n
    BY DEF RR!ControlIntact, RR!Ranks, Ranks, RR!Received
  <2>2. PICK in, out, size : /\ in = [x \in Ranks |-> RRIn(x)] /\ out = [x \in Ranks |-> RROut(x)]
                             /\ size = 3 + 2 * max_msg_size
    OBVIOUS
  <2>3. /\ in \in [Ranks -> Int] /\ out \in [Ranks -> Int] /\ Channels("rdv_read", 2, size, in, out)
    BY <2>2, RRNumbers DEF RRChannel
  <2>4. PICK n \in Nat \ {0} : n = call[r].n
    BY RRNumbers DEF RRChannel
  <2>5. r \in {0, 1} /\ Peer(r) \in {0, 1} /\ Peer(r) \in Ranks
    BY DEF Ranks, Peer
  <2>6. in[r] = 2 * n - r /\ out[r] = in[r] - 1
    BY <2>1, <2>2, <2>4, <2>5 DEF RRIn, RROut, Counted
  <2>7. out[Peer(r)] <= in[Peer(r)] + 1
    <3>1. PICK k \in Nat : k = call[Peer(r)].n
      BY <2>5, RRNumbers DEF RRChannel
    <3>2. pc[Peer(r)] \in RRLabels
      BY <2>5 DEF RRChannel
    <3> QED  BY <2>2, <2>5, <3>1, <3>2 DEF RRIn, RROut, Counted, RRLabels
  <2>8. Fits("rdv_read", r, in[r], wc[r], mem[r][2])
    BY <2>3, <2>5, <2>6, <2>7, NothingBehind
  <2>9. RRFits(r, 2 * n - r, wc[r], mem[r][2])
    BY <2>6, <2>8 DEF Fits
  <2>10. mem[r][2].t = n
    BY <2>9, <2>5 DEF RRFits
  <2> QED  BY <2>4, <2>9, <2>10 DEF RRFits
<1> QED  BY <1>1, <1>2

----------------------------------------------------------------------------
\* The control messages of ibv_pingpong_rdv_write_imm.cpp.

\* The messages rank r of ibv_pingpong_rdv_write_imm.cpp has taken.
RIIn(r) ==
    IF r = 0 THEN Counted(3, call[r].n, pc[r], {"handle_rtr", "poll_write", "recv_rts"},
                          {"handle_rts", "poll_rtr", "recv_write"}, {"handle_write", "check"})
    ELSE Counted(3, call[r].n, pc[r], {"handle_rts", "poll_rtr", "recv_write"},
                 {"handle_write", "check", "fill", "post_rts", "poll_rts", "recv_rtr"},
                 {"handle_rtr", "poll_write"})

\* The messages rank r of ibv_pingpong_rdv_write_imm.cpp has posted.
RIOut(r) ==
    IF r = 0 THEN Counted(3, call[r].n, pc[r], {"poll_rts", "recv_rtr", "handle_rtr"},
                          {"poll_write", "recv_rts", "handle_rts"},
                          {"poll_rtr", "recv_write", "handle_write", "check"})
    ELSE Counted(3, call[r].n, pc[r],
                 {"poll_rtr", "recv_write", "handle_write", "check", "fill", "post_rts"},
                 {"poll_rts", "recv_rtr", "handle_rtr"}, {"poll_write"})

\* What a step of ibv_pingpong_rdv_write_imm.cpp counts.
LEMMA RICounts ==
    ASSUME NEW r \in Ranks, pc \in [Ranks -> RILabels], call \in [Ranks -> Calls], RIGoes(r)
    PROVE  /\ pc' \in [Ranks -> RILabels] /\ call' \in [Ranks -> Calls]
           /\ pc'[Peer(r)] = pc[Peer(r)] /\ call'[Peer(r)] = call[Peer(r)]
           /\ RIIn(r)' = RIIn(r) + IF pc[r] \in {"recv_rts", "recv_rtr", "recv_write"} THEN 1 ELSE 0
           /\ RIOut(r)' = RIOut(r) + IF pc[r] \in {"post_rts", "handle_rts", "handle_rtr"} THEN 1 ELSE 0
           /\ RIIn(r)' \in Int /\ RIOut(r)' \in Int
<1>q. Peer(r) \in Ranks /\ Peer(r) # r /\ pc[r] \in RILabels /\ call[r] \in Calls /\ r \in {0, 1}
  BY PeerFacts DEF Ranks
<1>n. PICK n : n = call[r].n
  OBVIOUS
<1>m. n \in Nat
  BY <1>q, <1>n DEF Calls
<1>1. CASE pc[r] \in RILambda /\ pc[r] # RILast(r)
  <2>1. \A y : <<pc[r], y>> \notin RIOutside(r)
    BY <1>1 DEF RILambda, RIOutside
  <2>2. pc' = [pc EXCEPT ![r] = RIAfter(r, pc[r])] /\ call' = call
    BY <1>1, <2>1 DEF RIGoes, Advance
  <2>3. PICK l, x : l = pc[r] /\ x = RIAfter(r, pc[r])
    OBVIOUS
  <2>4. pc'[r] = x /\ pc'[Peer(r)] = pc[Peer(r)] /\ call'[r].n = n /\ call[r].n = n
    BY <2>2, <2>3, <1>q, <1>n
  <2>5. x \in RILabels
    BY <2>3, <1>1 DEF RILambda, RIAfter, RILabels
  <2>6. pc' \in [Ranks -> RILabels] /\ call' \in [Ranks -> Calls] /\ call'[Peer(r)] = call[Peer(r)]
    BY <2>2, <2>3, <2>5
  <2>7. l \in RILambda /\ (r = 0 => l # "check") /\ (r # 0 => l # "poll_write")
    BY <1>1, <2>3 DEF RILast
  <2>8. /\ RIIn(r) = IF r = 0 THEN Counted(3, n, l, {"handle_rtr", "poll_write", "recv_rts"},
                {"handle_rts", "poll_rtr", "recv_write"}, {"handle_write", "check"})
           ELSE Counted(3, n, l, {"handle_rts", "poll_rtr", "recv_write"},
                {"handle_write", "check", "fill", "post_rts", "poll_rts", "recv_rtr"}, {"handle_rtr", "poll_write"})
        /\ RIIn(r)' = IF r = 0 THEN Counted(3, n, x, {"handle_rtr", "poll_write", "recv_rts"},
                {"handle_rts", "poll_rtr", "recv_write"}, {"handle_write", "check"})
           ELSE Counted(3, n, x, {"handle_rts", "poll_rtr", "recv_write"},
                {"handle_write", "check", "fill", "post_rts", "poll_rts", "recv_rtr"}, {"handle_rtr", "poll_write"})
    BY <2>3, <2>4 DEF RIIn
  <2>9. /\ RIOut(r) = IF r = 0 THEN Counted(3, n, l, {"poll_rts", "recv_rtr", "handle_rtr"},
                {"poll_write", "recv_rts", "handle_rts"}, {"poll_rtr", "recv_write", "handle_write", "check"})
           ELSE Counted(3, n, l, {"poll_rtr", "recv_write", "handle_write", "check", "fill", "post_rts"},
                {"poll_rts", "recv_rtr", "handle_rtr"}, {"poll_write"})
        /\ RIOut(r)' = IF r = 0 THEN Counted(3, n, x, {"poll_rts", "recv_rtr", "handle_rtr"},
                {"poll_write", "recv_rts", "handle_rts"}, {"poll_rtr", "recv_write", "handle_write", "check"})
           ELSE Counted(3, n, x, {"poll_rtr", "recv_write", "handle_write", "check", "fill", "post_rts"},
                {"poll_rts", "recv_rtr", "handle_rtr"}, {"poll_write"})
    BY <2>3, <2>4 DEF RIOut
  <2>10. x = RIAfter(r, l)
    BY <2>3
  <2>11. /\ RIIn(r)' = RIIn(r) + IF l \in {"recv_rts", "recv_rtr", "recv_write"} THEN 1 ELSE 0
         /\ RIIn(r)' \in Int
    BY <2>7, <2>8, <2>10, <1>m, <1>q DEF Counted, RIAfter, RILambda
  <2>12. /\ RIOut(r)' = RIOut(r) + IF l \in {"post_rts", "handle_rts", "handle_rtr"} THEN 1 ELSE 0
         /\ RIOut(r)' \in Int
    BY <2>7, <2>9, <2>10, <1>m, <1>q DEF Counted, RIAfter, RILambda
  <2> QED  BY <2>2, <2>3, <2>4, <2>6, <2>11, <2>12
<1>2. CASE pc[r] = RILast(r)
  <2>1. pc[r] \in RILambda /\ \A y : <<pc[r], y>> \notin RIOutside(r)
    BY <1>2 DEF RILambda, RIOutside, RILast
  <2>2. PICK x : /\ x \in {"fill", "recv_rts", "close"} /\ (x = "fill" => r = 0)
                 /\ (x = "recv_rts" => r # 0)
                 /\ pc' = [pc EXCEPT ![r] = x] /\ call' = [call EXCEPT ![r] = NextCall(call[r])]
    BY <1>2, <2>1 DEF RIGoes, EndCall
  <2>3. NextCall(call[r]) \in Calls /\ NextCall(call[r]).n = n + 1
    BY <1>q, <1>n, NextCallGrows, BenchAssumption
  <2>4. /\ pc'[r] = x /\ pc'[Peer(r)] = pc[Peer(r)] /\ call'[r].n = n + 1 /\ call[r].n = n
        /\ call' \in [Ranks -> Calls] /\ call'[Peer(r)] = call[Peer(r)]
    BY <2>2, <2>3, <1>q, <1>n
  <2>5. x \in RILabels /\ pc' \in [Ranks -> RILabels]
    BY <2>2 DEF RILabels
  <2>0. \A l, a, b, c : l \notin a /\ l \notin b /\ l \notin c => Counted(3, n + 1, l, a, b, c) = 3 * n
    BY <1>m DEF Counted
  <2>6. RIIn(r)' = 3 * n /\ RIOut(r)' = 3 * n
    <3>1. RIIn(r)' = IF r = 0 THEN Counted(3, n + 1, x, {"handle_rtr", "poll_write", "recv_rts"},
                {"handle_rts", "poll_rtr", "recv_write"}, {"handle_write", "check"})
           ELSE Counted(3, n + 1, x, {"handle_rts", "poll_rtr", "recv_write"},
                {"handle_write", "check", "fill", "post_rts", "poll_rts", "recv_rtr"}, {"handle_rtr", "poll_write"})
      BY <2>4 DEF RIIn
    <3>2. RIOut(r)' = IF r = 0 THEN Counted(3, n + 1, x, {"poll_rts", "recv_rtr", "handle_rtr"},
                {"poll_write", "recv_rts", "handle_rts"}, {"poll_rtr", "recv_write", "handle_write", "check"})
           ELSE Counted(3, n + 1, x, {"poll_rtr", "recv_write", "handle_write", "check", "fill", "post_rts"},
                {"poll_rts", "recv_rtr", "handle_rtr"}, {"poll_write"})
      BY <2>4 DEF RIOut
    <3> QED  BY <2>0, <2>2, <3>1, <3>2
  <2>7. RIIn(r) = 3 * n /\ RIOut(r) = 3 * n
    BY <1>2, <2>4, <1>m DEF RIIn, RIOut, Counted, RILast
  <2>8. /\ pc[r] \notin {"recv_rts", "recv_rtr", "recv_write"} /\ pc[r] \notin {"post_rts", "handle_rts", "handle_rtr"}
    BY <1>2, <2>2 DEF RILast
  <2> QED  BY <2>4, <2>5, <2>6, <2>7, <2>8, <1>m
<1>3. CASE pc[r] \notin RILambda
  <2>1. PICK x : <<pc[r], x>> \in RIOutside(r) /\ pc' = [pc EXCEPT ![r] = x] /\ call' = call
    BY <1>3 DEF RIGoes, Advance
  <2>2. /\ pc[r] \in {"setup", "close"} /\ x \in {"fill", "recv_rts", "exited"}
        /\ (x = "fill" => r = 0) /\ (x = "recv_rts" => r # 0)
    BY <2>1 DEF RIOutside
  <2>3. /\ pc'[r] = x /\ pc'[Peer(r)] = pc[Peer(r)] /\ call'[r].n = n /\ call[r].n = n
        /\ call' \in [Ranks -> Calls] /\ call'[Peer(r)] = call[Peer(r)]
    BY <2>1, <1>q, <1>n
  <2>4. x \in RILabels /\ pc' \in [Ranks -> RILabels]
    BY <2>1, <2>2 DEF RILabels
  <2>5. RIIn(r)' = 3 * (n - 1) /\ RIOut(r)' = 3 * (n - 1)
    BY <2>2, <2>3, <1>m DEF RIIn, RIOut, Counted
  <2>6. RIIn(r) = 3 * (n - 1) /\ RIOut(r) = 3 * (n - 1)
    BY <2>2, <2>3, <1>m DEF RIIn, RIOut, Counted
  <2> QED  BY <2>2, <2>3, <2>4, <2>5, <2>6, <1>m
<1> QED  BY <1>1, <1>2, <1>3

\* The counts are numbers, and a rank is at most one message ahead of the other.
LEMMA RINumbers ==
    ASSUME pc \in [Ranks -> RILabels], call \in [Ranks -> Calls], NEW r \in Ranks
    PROVE  /\ RIIn(r) \in Int /\ RIOut(r) \in Int /\ call[r].n \in Nat \ {0}
           /\ r = 0 => RIOut(r) <= RIIn(r) + 1
           /\ r # 0 => RIOut(r) <= RIIn(r)
<1>1. PICK n, l : n = call[r].n /\ l = pc[r]
  OBVIOUS
<1>2. n \in Nat \ {0} /\ l \in RILabels
  BY <1>1 DEF Calls
<1>3. RIIn(r) = IF r = 0 THEN Counted(3, n, l, {"handle_rtr", "poll_write", "recv_rts"},
                {"handle_rts", "poll_rtr", "recv_write"}, {"handle_write", "check"})
           ELSE Counted(3, n, l, {"handle_rts", "poll_rtr", "recv_write"},
                {"handle_write", "check", "fill", "post_rts", "poll_rts", "recv_rtr"}, {"handle_rtr", "poll_write"})
  BY <1>1 DEF RIIn
<1>4. RIOut(r) = IF r = 0 THEN Counted(3, n, l, {"poll_rts", "recv_rtr", "handle_rtr"},
                {"poll_write", "recv_rts", "handle_rts"}, {"poll_rtr", "recv_write", "handle_write", "check"})
           ELSE Counted(3, n, l, {"poll_rtr", "recv_write", "handle_write", "check", "fill", "post_rts"},
                {"poll_rts", "recv_rtr", "handle_rtr"}, {"poll_write"})
  BY <1>1 DEF RIOut
<1>5. RIIn(r) \in Int /\ RIOut(r) \in Int
  BY <1>2, <1>3, <1>4 DEF Counted
<1>6. r = 0 => RIOut(r) <= RIIn(r) + 1
  BY <1>2, <1>3, <1>4 DEF Counted, RILabels
<1>7. r # 0 => RIOut(r) <= RIIn(r)
  BY <1>2, <1>3, <1>4 DEF Counted, RILabels
<1> QED  BY <1>1, <1>2, <1>5, <1>6, <1>7

\* The messages of ibv_pingpong_rdv_write_imm.cpp arrive in order.
RIChannel ==
    Channels("rdv_write_imm", 2, RISize, [r \in Ranks |-> RIIn(r)], [r \in Ranks |-> RIOut(r)])

\* What a handler of ibv_pingpong_rdv_write_imm.cpp finds in the line.
LEMMA RIFound ==
    ASSUME RIInv, RIChannel, NEW r \in Ranks, pc[r] \in {"handle_rts", "handle_rtr"}
    PROVE  /\ wc[r].wr_id = 2 /\ mem[r][2].v = wc[r].imm /\ mem[r][2].t = call[r].n
           /\ mem[r][2].v = "RTR" => mem[r][2].remote_addr \in Nat /\ mem[r][2].remote_addr > 2
<1>1. PICK in, out, size : /\ in = [x \in Ranks |-> RIIn(x)] /\ out = [x \in Ranks |-> RIOut(x)]
                           /\ size = RISize
  OBVIOUS
<1>2. pc \in [Ranks -> RILabels] /\ call \in [Ranks -> Calls]
  BY DEF RIInv, RITypes
<1>3. /\ in \in [Ranks -> Int] /\ out \in [Ranks -> Int]
      /\ Channels("rdv_write_imm", 2, size, in, out)
  BY <1>1, <1>2, RINumbers DEF RIChannel
<1>4. PICK n \in Nat \ {0} : n = call[r].n
  BY <1>2, RINumbers
<1>5. r \in {0, 1} /\ Peer(r) \in Ranks /\ Peer(r) = 1 - r
  BY DEF Ranks, Peer
<1>6. /\ in[r] = 3 * (n - 1) + (IF pc[r] = "handle_rts" THEN 2 - r ELSE 1 + 2 * r)
      /\ out[r] = in[r] - r
  BY <1>1, <1>4, <1>5 DEF RIIn, RIOut, Counted
<1>7. out[Peer(r)] <= in[Peer(r)] + in[r] - out[r]
  <2>1. PICK a, b : a = in[Peer(r)] /\ b = out[Peer(r)]
    OBVIOUS
  <2>2. a \in Int /\ b \in Int /\ b <= a + r
    <3>1. a = RIIn(Peer(r)) /\ b = RIOut(Peer(r))
      BY <1>1, <1>5, <2>1
    <3>2. /\ RIIn(Peer(r)) \in Int /\ RIOut(Peer(r)) \in Int
          /\ Peer(r) = 0 => RIOut(Peer(r)) <= RIIn(Peer(r)) + 1
          /\ Peer(r) # 0 => RIOut(Peer(r)) <= RIIn(Peer(r))
      BY <1>2, <1>5, RINumbers
    <3> QED  BY <1>5, <3>1, <3>2
  <2>3. in[r] - out[r] = r /\ in[r] \in Int /\ out[r] \in Int
    BY <1>3, <1>5, <1>6
  <2>4. PICK c, d : c = in[r] /\ d = out[r]
    OBVIOUS
  <2>5. b <= a + c - d
    BY <2>2, <2>3, <2>4, <1>5
  <2> QED  BY <2>1, <2>4, <2>5
<1>8. in[r] > 0
  BY <1>5, <1>6
<1>9. Fits("rdv_write_imm", r, in[r], wc[r], mem[r][2])
  BY <1>3, <1>7, <1>8, NothingBehind
<1>10. PICK k \in Int : k = in[r]
  BY <1>3
<1>11. RIFits(r, k, wc[r], mem[r][2])
  BY <1>9, <1>10 DEF Fits
<1>12. PICK j \in Nat : /\ 3 * (j - 1) < k /\ k <= 3 * j
                        /\ k # 3 * j - r => wc[r].opcode = "RECV"
                        /\ wc[r].opcode = "RECV" =>
                            /\ wc[r].wr_id = 2 /\ mem[r][2].v = wc[r].imm /\ mem[r][2].t = j
                            /\ mem[r][2].v = "RTR" =>
                                mem[r][2].remote_addr \in Nat /\ mem[r][2].remote_addr > 2
  BY <1>11 DEF RIFits
<1>13. j = n /\ k # 3 * j - r
  <2>1. k \in {3 * n - 2, 3 * n - 1, 3 * n} /\ k # 3 * n - r
    BY <1>5, <1>6, <1>10
  <2>2. j = n
    BY <1>12, <2>1
  <2> QED  BY <2>1, <2>2
<1> QED  BY <1>4, <1>12, <1>13

\* The steps of a rank of ibv_pingpong_rdv_write_imm.cpp keep the order.
LEMMA RIChannelUsed ==
    ASSUME RIInv, RIChannel, NEW r \in Ranks, posted_recv_num[r] \in 0 .. MaxRecv,
           RWI!RankStep(r)
    PROVE  RIChannel'
<1> DEFINE q == Peer(r)
<1>q. q \in Ranks /\ q # r /\ Ranks = {r, q} /\ r \in {0, 1} /\ q = 1 - r
  BY PeerFacts DEF Ranks, Peer
<1>t. /\ RITypes /\ config.inline_size = 0 /\ max_msg_size \in Nat /\ RdvFuns /\ IsFun(recv_ctx_archive)
      /\ pc \in [Ranks -> RILabels] /\ call \in [Ranks -> Calls]
      /\ RIQueue(r) /\ RIContexts(r) /\ Receives(r, 2)
  BY DEF RIInv, RITypes, RIReceived
<1>i. PICK in, out, size : /\ in = [x \in Ranks |-> RIIn(x)] /\ out = [x \in Ranks |-> RIOut(x)]
                           /\ size = RISize
  OBVIOUS
<1>n. /\ in \in [Ranks -> Int] /\ out \in [Ranks -> Int]
      /\ in[r] = RIIn(r) /\ out[r] = RIOut(r) /\ in[r] \in Int /\ out[r] \in Int
      /\ size \in Nat /\ 2 < size
  BY <1>i, <1>t, RINumbers DEF RISize
<1>c. Channels("rdv_write_imm", 2, size, in, out)
  BY <1>i DEF RIChannel
<1>d. /\ HasDomain(mem[r], size)
      /\ Outstanding("rdv_write_imm", r, 2, out[r], sq[r], send_cq[r], mem[r])
  BY <1>c DEF Channels
<1>z. call[r].size \in Nat \ {0} /\ call[r].n \in Nat \ {0}
  BY <1>t DEF Calls
<1>h. \A c \in DOMAIN heap[r] : heap[r][c].size \in Nat \ {0}
  BY <1>t DEF RIContexts, HasContext
<1>s. /\ Receives(r, 2)' /\ UNCHANGED config
      /\ \/ /\ UNCHANGED <<pc, call, recv_ctx_archive>>
            /\ Becomes(r, mem[r], sq[r], send_cq[r], recv_cq[r], heap[r], wc[r])
         \/ RIGoes(r) /\ RIEffect(r)
  BY <1>t, <1>z, <1>h, RISteps
<1>x. RISize' = size
  BY <1>i, <1>s DEF RISize, max_msg_size
<1>e. pc[r] \notin {"poll_rts", "poll_rtr", "poll_write"} => sq[r] = <<>> /\ send_cq[r] = <<>>
  BY <1>t DEF RIQueue
<1>b. send_cq[r] = <<>> => ~ Broken(send_cq[r])
  BY DEF Broken
<1>1. CASE /\ UNCHANGED <<pc, call, recv_ctx_archive>>
           /\ Becomes(r, mem[r], sq[r], send_cq[r], recv_cq[r], heap[r], wc[r])
  <2>1. Uses("rdv_write_imm", 2, size, r, in[r], in[r], out[r], out[r])
    BY <1>1, <1>d, Quiet
  <2>2. Channels("rdv_write_imm", 2, size, [in EXCEPT ![r] = in[r]], [out EXCEPT ![r] = out[r]])'
    BY <1>c, <1>n, <1>s, <2>1, UsesKept
  <2>3. [in EXCEPT ![r] = in[r]] = in /\ [out EXCEPT ![r] = out[r]] = out
    BY <1>n
  <2>4. in = [x \in Ranks |-> RIIn(x)'] /\ out = [x \in Ranks |-> RIOut(x)']
    BY <1>i, <1>1 DEF RIIn, RIOut
  <2> QED  BY <1>x, <2>2, <2>3, <2>4 DEF RIChannel
<1>2. CASE RIGoes(r) /\ RIEffect(r)
  <2>g. /\ pc'[q] = pc[q] /\ call'[q] = call[q]
        /\ RIIn(r)' = RIIn(r) + IF pc[r] \in {"recv_rts", "recv_rtr", "recv_write"} THEN 1 ELSE 0
        /\ RIOut(r)' = RIOut(r) + IF pc[r] \in {"post_rts", "handle_rts", "handle_rtr"} THEN 1 ELSE 0
        /\ RIIn(r)' \in Int /\ RIOut(r)' \in Int
    BY <1>2, <1>t, RICounts
  <2>i. PICK i \in Int, o \in Int : i = RIIn(r)' /\ o = RIOut(r)'
    BY <2>g
  <2>j. /\ i = in[r] + IF pc[r] \in {"recv_rts", "recv_rtr", "recv_write"} THEN 1 ELSE 0
        /\ o = out[r] + IF pc[r] \in {"post_rts", "handle_rts", "handle_rtr"} THEN 1 ELSE 0
    BY <2>g, <2>i, <1>n
  <2>l. /\ [in EXCEPT ![r] = i] = [x \in Ranks |-> RIIn(x)']
        /\ [out EXCEPT ![r] = o] = [x \in Ranks |-> RIOut(x)']
    <3>1. RIIn(q)' = RIIn(q) /\ RIOut(q)' = RIOut(q)
      BY <2>g DEF RIIn, RIOut
    <3>2. \A x \in Ranks : x = r \/ x = q
      BY <1>q
    <3> QED  BY <1>i, <1>q, <2>i, <3>1, <3>2
  <2>m. ASSUME NEW n \in Nat \ {0}, NEW x, NEW e, NEW k \in Int, 3 * (n - 1) < k, k <= 3 * n,
               e.opcode = "RECV", e.wr_id = 2, x.v = e.imm, x.t = n,
               x.v = "RTR" => x.remote_addr \in Nat /\ x.remote_addr > 2
        PROVE  Fits("rdv_write_imm", q, k, e, x)
    BY <2>m DEF Fits, RIFits
  <2>k. Uses("rdv_write_imm", 2, size, r, in[r], i, out[r], o)
    <3>1. CASE pc[r] \in {"setup", "check", "close"}
      <4>1. Becomes(r, mem[r], sq[r], send_cq[r], recv_cq[r], heap[r], wc[r])
        BY <1>2, <3>1 DEF RIEffect
      <4>2. i = in[r] /\ o = out[r]
        BY <3>1, <2>j, <1>n
      <4> QED  BY <4>1, <4>2, <1>d, Quiet
    <3>2. CASE pc[r] = "fill"
      <4>1. PICK m : /\ Becomes(r, m, sq[r], send_cq[r], recv_cq[r], heap[r], wc[r])
                     /\ m = mem[r] \/ \E data : m = Store(mem[r], 3, data)
        BY <1>2, <3>2 DEF RIEffect
      <4>2. i = in[r] /\ o = out[r]
        BY <3>2, <2>j, <1>n
      <4>3. m = mem[r] \/ \E data : m = Store(mem[r], 2 + 1, data)
        BY <4>1
      <4> QED  BY <4>1, <4>2, <4>3, <1>d, <1>n, FillQuiet
    <3>3. CASE pc[r] = "post_rts"
      <4>1. PICK c : Becomes(r, [mem[r] EXCEPT ![0] = [v |-> "RTS", t |-> call[r].n,
                                                   send_ctx |-> c, size |-> call[r].size]],
                         Append(sq[r], Request("SEND_IMM", 0, 1, 0, "RTS", 0)),
                         send_cq[r], recv_cq[r],
                         Grown(heap[r], c, [kind |-> "send", buf |-> 3, size |-> call[r].size]), wc[r])
        BY <1>2, <3>3 DEF RIEffect
      <4>2. PICK x, h : /\ x = [v |-> "RTS", t |-> call[r].n, send_ctx |-> c, size |-> call[r].size]
                        /\ h = Grown(heap[r], c, [kind |-> "send", buf |-> 3, size |-> call[r].size])
        OBVIOUS
      <4>3. x.v = "RTS" /\ x.t = call[r].n
        BY <4>2
      <4>4. /\ i = in[r] /\ o = out[r] + 1
            /\ 3 * (call[r].n - 1) < out[r] + 1 /\ out[r] + 1 <= 3 * call[r].n
        BY <3>3, <2>j, <1>n, <1>z, <1>q DEF RIOut, Counted
      <4>5. \A e : e.opcode = "RECV" /\ e.wr_id = 2 /\ e.imm = "RTS" =>
                       Fits("rdv_write_imm", Peer(r), out[r] + 1, e, x)
        BY <4>3, <4>4, <1>n, <1>z, <2>m
      <4>6. Becomes(r, [mem[r] EXCEPT ![0] = x], Append(sq[r], Request("SEND_IMM", 0, 1, 0, "RTS", 0)),
                    send_cq[r], recv_cq[r], h, wc[r])
        BY <4>1, <4>2
      <4>7. sq[r] = <<>> /\ send_cq[r] = <<>> /\ 0 \in 0 .. 2 - 1
        BY <3>3, <1>e
      <4> QED  BY <4>4, <4>5, <4>6, <4>7, <1>b, <1>d, <1>n, ControlUsed
    <3>4. CASE pc[r] \in {"poll_rts", "poll_rtr", "poll_write"}
      <4>1. /\ send_cq[r] # <<>> /\ Head(send_cq[r]).status = "SUCCESS"
            /\ Becomes(r, mem[r], sq[r], Tail(send_cq[r]), recv_cq[r], heap[r], wc[r])
        BY <1>2, <3>4 DEF RIEffect
      <4>2. i = in[r] /\ o = out[r]
        BY <3>4, <2>j, <1>n
      <4> QED  BY <4>1, <4>2, <1>d, CompletionUsed
    <3>5. CASE pc[r] \in {"recv_rts", "recv_rtr", "recv_write"}
      <4>1. /\ recv_cq[r] # <<>>
            /\ Becomes(r, mem[r], sq[r], send_cq[r], Tail(recv_cq[r]), heap[r], Head(recv_cq[r]))
        BY <1>2, <3>5 DEF RIEffect
      <4>2. i = in[r] + 1 /\ o = out[r]
        BY <3>5, <2>j, <1>n
      <4> QED  BY <4>1, <4>2, <1>d, ReceiveUsed
    <3>6. CASE pc[r] = "handle_rts"
      <4>1. PICK c, ctx, key, h :
                Becomes(r, [mem[r] EXCEPT ![1] =
                                    [v |-> "RTR", t |-> call[r].n, send_ctx |-> ctx,
                                     remote_addr |-> 3 + max_msg_size, recv_ctx_key |-> key]],
                            Append(sq[r], Request("SEND_IMM", 1, 1, 0, "RTR", 0)),
                            send_cq[r], recv_cq[r], h, wc[r])
        BY <1>2, <3>6 DEF RIEffect
      <4>2. PICK x : x = [v |-> "RTR", t |-> call[r].n, send_ctx |-> ctx,
                          remote_addr |-> 3 + max_msg_size, recv_ctx_key |-> key]
        OBVIOUS
      <4>3. x.v = "RTR" /\ x.t = call[r].n /\ x.remote_addr \in Nat /\ x.remote_addr > 2
        BY <4>2, <1>t
      <4>4. /\ i = in[r] /\ o = out[r] + 1
            /\ 3 * (call[r].n - 1) < out[r] + 1 /\ out[r] + 1 <= 3 * call[r].n
        BY <3>6, <2>j, <1>n, <1>z, <1>q DEF RIOut, Counted
      <4>5. \A e : e.opcode = "RECV" /\ e.wr_id = 2 /\ e.imm = "RTR" =>
                       Fits("rdv_write_imm", Peer(r), out[r] + 1, e, x)
        BY <4>3, <4>4, <1>n, <1>z, <2>m
      <4>6. Becomes(r, [mem[r] EXCEPT ![1] = x], Append(sq[r], Request("SEND_IMM", 1, 1, 0, "RTR", 0)),
                    send_cq[r], recv_cq[r], h, wc[r])
        BY <4>1, <4>2
      <4>7. sq[r] = <<>> /\ send_cq[r] = <<>> /\ 1 \in 0 .. 2 - 1
        BY <3>6, <1>e
      <4> QED  BY <4>4, <4>5, <4>6, <4>7, <1>b, <1>d, <1>n, ControlUsed
    <3>7. CASE pc[r] = "handle_rtr"
      <4>1. PICK buf, len, addr, key, h :
                /\ mem[r][wc[r].wr_id].v = "RTR" /\ addr = mem[r][wc[r].wr_id].remote_addr
                /\ Becomes(r, mem[r], Append(sq[r], Request("WRITE_IMM", buf, len, addr, key, 0)),
                           send_cq[r], recv_cq[r], h, wc[r])
        BY <1>2, <3>7 DEF RIEffect
      <4>2. addr \in Nat /\ addr > 2
        BY <4>1, <3>7, RIFound
      <4>3. PICK w : w = Request("WRITE_IMM", buf, len, addr, key, 0)
        OBVIOUS
      <4>4. IsRequest(w) /\ w.inline = FALSE
        BY <4>3, RequestNotInline, Zenon
      <4>5. w.op = "WRITE_IMM" /\ w.raddr = addr /\ w.st = "posted"
        BY <4>3, RequestFields
      <4>6. i = in[r] /\ o = out[r] + 1 /\ o = 3 * call[r].n - q
        BY <3>7, <2>j, <1>n, <1>z, <1>q DEF RIOut, Counted
      <4>7. Arrival(w, 2).opcode = "RECV_RDMA_WITH_IMM"
        BY <4>5 DEF Arrival
      <4>8. \A x : Fits("rdv_write_imm", Peer(r), o, Arrival(w, 2), x)
        <5>1. PICK n \in Nat \ {0} : n = call[r].n
          BY <1>z
        <5>2. 3 * (n - 1) < o /\ o <= 3 * n /\ o = 3 * n - q
          BY <5>1, <4>6, <1>q
        <5> QED  BY <4>7, <5>2 DEF Fits, RIFits
      <4>9. Sound("rdv_write_imm", r, 2, o, w, mem[r])
        BY <4>2, <4>4, <4>5, <4>8 DEF Sound
      <4>10. w.op \in Messages
        BY <4>5 DEF Messages
      <4>11. sq[r] = <<>> /\ send_cq[r] = <<>>
        BY <3>7, <1>e
      <4>12. Becomes(r, mem[r], Append(sq[r], w), send_cq[r], recv_cq[r], h, wc[r])
        BY <4>1, <4>3
      <4> QED  BY <4>5, <4>6, <4>9, <4>10, <4>11, <4>12, <1>b, <1>d, PostUsed
    <3>8. CASE pc[r] = "handle_write"
      <4>1. PICK h : Becomes(r, mem[r], sq[r], send_cq[r], recv_cq[r], h, wc[r])
        BY <1>2, <3>8 DEF RIEffect
      <4>2. i = in[r] /\ o = out[r]
        BY <3>8, <2>j, <1>n
      <4> QED  BY <4>1, <4>2, <1>d, Quiet
    <3> QED  BY <1>2, <3>1, <3>2, <3>3, <3>4, <3>5, <3>6, <3>7, <3>8 DEF RIEffect
  <2>2. Channels("rdv_write_imm", 2, size, [in EXCEPT ![r] = i], [out EXCEPT ![r] = o])'
    BY <1>c, <1>n, <1>s, <2>k, UsesKept
  <2> QED  BY <1>x, <2>2, <2>l DEF RIChannel
<1> QED  BY <1>s, <1>1, <1>2

\* So do those of the adapters.
LEMMA RIChannelCarried ==
    ASSUME RIInv, RIChannel, NEW r \in Ranks, Adapter(r) \/ LoseAck(r),
           UNCHANGED <<config, pc, call, heap, wc>>
    PROVE  RIChannel'
<1>1. PICK in, out, size : /\ in = [x \in Ranks |-> RIIn(x)] /\ out = [x \in Ranks |-> RIOut(x)]
                           /\ size = RISize
  OBVIOUS
<1>2. /\ in \in [Ranks -> Int] /\ out \in [Ranks -> Int] /\ size \in Nat /\ 2 < size
      /\ Channels("rdv_write_imm", 2, size, in, out)
  BY <1>1, RINumbers DEF RIChannel, RIInv, RITypes, RISize
<1>3. Channels("rdv_write_imm", 2, size, in, out)'
  BY <1>2, ChannelsCarried
<1>4. size = RISize'
  BY <1>1 DEF RISize, max_msg_size
<1>5. in = [x \in Ranks |-> RIIn(x)'] /\ out = [x \in Ranks |-> RIOut(x)']
  BY <1>1 DEF RIIn, RIOut
<1> QED  BY <1>3, <1>4, <1>5 DEF RIChannel

\* Each handler of ibv_pingpong_rdv_write_imm.cpp works on what it should.
LEMMA RIHandlersFind ==
    ASSUME RIInv, RIChannel
    PROVE  RWI!ControlIntact
<1>1. SUFFICES ASSUME NEW r \in Ranks, pc[r] \in {"handle_rts", "handle_rtr"}
               PROVE  mem[r][wc[r].wr_id].v = wc[r].imm /\ mem[r][wc[r].wr_id].t = call[r].n
  BY DEF RWI!ControlIntact, RWI!Ranks, Ranks, RWI!Received
<1> QED  BY <1>1, RIFound

----------------------------------------------------------------------------
\* The control messages of ibv_pingpong_rdv_write.cpp.

\* The messages rank r of ibv_pingpong_rdv_write.cpp has taken.
RWIn(r) ==
    IF r = 0 THEN Counted(3, call[r].n, pc[r], {"handle_rtr", "poll_write", "poll_fin", "recv_rts"},
                          {"handle_rts", "poll_rtr", "recv_fin"}, {"handle_fin", "check"})
    ELSE Counted(3, call[r].n, pc[r], {"handle_rts", "poll_rtr", "recv_fin"},
                 {"handle_fin", "check", "fill", "post_rts", "poll_rts", "recv_rtr"},
                 {"handle_rtr", "poll_write", "poll_fin"})

\* The messages rank r of ibv_pingpong_rdv_write.cpp has posted.
RWOut(r) ==
    IF r = 0 THEN Counted(3, call[r].n, pc[r], {"poll_rts", "recv_rtr", "handle_rtr", "poll_write"},
                          {"poll_fin", "recv_rts", "handle_rts"},
                          {"poll_rtr", "recv_fin", "handle_fin", "check"})
    ELSE Counted(3, call[r].n, pc[r],
                 {"poll_rtr", "recv_fin", "handle_fin", "check", "fill", "post_rts"},
                 {"poll_rts", "recv_rtr", "handle_rtr", "poll_write"}, {"poll_fin"})

\* The labels at which a rank of ibv_pingpong_rdv_write.cpp waits for a completion.
RWPolls == {"poll_rts", "poll_rtr", "poll_write", "poll_fin"}

\* What a step of ibv_pingpong_rdv_write.cpp counts.
LEMMA RWCounts ==
    ASSUME NEW r \in Ranks, pc \in [Ranks -> RWLabels], call \in [Ranks -> Calls], RWGoes(r)
    PROVE  /\ pc' \in [Ranks -> RWLabels] /\ call' \in [Ranks -> Calls]
           /\ pc'[Peer(r)] = pc[Peer(r)] /\ call'[Peer(r)] = call[Peer(r)]
           /\ RWIn(r)' = RWIn(r) + IF pc[r] \in {"recv_rts", "recv_rtr", "recv_fin"} THEN 1 ELSE 0
           /\ RWOut(r)' = RWOut(r) + IF pc[r] \in {"post_rts", "handle_rts", "poll_write"} THEN 1 ELSE 0
           /\ RWIn(r)' \in Int /\ RWOut(r)' \in Int
           /\ pc[r] \in {"post_rts", "handle_rts", "handle_rtr", "poll_write"} => pc'[r] \in RWPolls
<1>q. Peer(r) \in Ranks /\ Peer(r) # r /\ pc[r] \in RWLabels /\ call[r] \in Calls /\ r \in {0, 1}
  BY PeerFacts DEF Ranks
<1>n. PICK n : n = call[r].n
  OBVIOUS
<1>m. n \in Nat
  BY <1>q, <1>n DEF Calls
<1>1. CASE pc[r] \in RWLambda /\ pc[r] # RWLast(r)
  <2>1. \A y : <<pc[r], y>> \notin RWOutside(r)
    BY <1>1 DEF RWLambda, RWOutside
  <2>2. pc' = [pc EXCEPT ![r] = RWAfter(r, pc[r])] /\ call' = call
    BY <1>1, <2>1 DEF RWGoes, Advance
  <2>3. PICK l, x : l = pc[r] /\ x = RWAfter(r, pc[r])
    OBVIOUS
  <2>4. pc'[r] = x /\ pc'[Peer(r)] = pc[Peer(r)] /\ call'[r].n = n /\ call[r].n = n
    BY <2>2, <2>3, <1>q, <1>n
  <2>5. x \in RWLabels
    BY <2>3, <1>1 DEF RWLambda, RWAfter, RWLabels
  <2>6. pc' \in [Ranks -> RWLabels] /\ call' \in [Ranks -> Calls] /\ call'[Peer(r)] = call[Peer(r)]
    BY <2>2, <2>3, <2>5
  <2>7. l \in RWLambda /\ (r = 0 => l # "check") /\ (r # 0 => l # "poll_fin")
    BY <1>1, <2>3 DEF RWLast
  <2>8. /\ RWIn(r) = IF r = 0 THEN Counted(3, n, l, {"handle_rtr", "poll_write", "poll_fin", "recv_rts"},
                {"handle_rts", "poll_rtr", "recv_fin"}, {"handle_fin", "check"})
           ELSE Counted(3, n, l, {"handle_rts", "poll_rtr", "recv_fin"},
                {"handle_fin", "check", "fill", "post_rts", "poll_rts", "recv_rtr"}, {"handle_rtr", "poll_write", "poll_fin"})
        /\ RWIn(r)' = IF r = 0 THEN Counted(3, n, x, {"handle_rtr", "poll_write", "poll_fin", "recv_rts"},
                {"handle_rts", "poll_rtr", "recv_fin"}, {"handle_fin", "check"})
           ELSE Counted(3, n, x, {"handle_rts", "poll_rtr", "recv_fin"},
                {"handle_fin", "check", "fill", "post_rts", "poll_rts", "recv_rtr"}, {"handle_rtr", "poll_write", "poll_fin"})
    BY <2>3, <2>4 DEF RWIn
  <2>9. /\ RWOut(r) = IF r = 0 THEN Counted(3, n, l, {"poll_rts", "recv_rtr", "handle_rtr", "poll_write"},
                {"poll_fin", "recv_rts", "handle_rts"}, {"poll_rtr", "recv_fin", "handle_fin", "check"})
           ELSE Counted(3, n, l, {"poll_rtr", "recv_fin", "handle_fin", "check", "fill", "post_rts"},
                {"poll_rts", "recv_rtr", "handle_rtr", "poll_write"}, {"poll_fin"})
        /\ RWOut(r)' = IF r = 0 THEN Counted(3, n, x, {"poll_rts", "recv_rtr", "handle_rtr", "poll_write"},
                {"poll_fin", "recv_rts", "handle_rts"}, {"poll_rtr", "recv_fin", "handle_fin", "check"})
           ELSE Counted(3, n, x, {"poll_rtr", "recv_fin", "handle_fin", "check", "fill", "post_rts"},
                {"poll_rts", "recv_rtr", "handle_rtr", "poll_write"}, {"poll_fin"})
    BY <2>3, <2>4 DEF RWOut
  <2>10. x = RWAfter(r, l)
    BY <2>3
  <2>11. /\ RWIn(r)' = RWIn(r) + IF l \in {"recv_rts", "recv_rtr", "recv_fin"} THEN 1 ELSE 0
         /\ RWIn(r)' \in Int
    BY <2>7, <2>8, <2>10, <1>m, <1>q DEF Counted, RWAfter, RWLambda
  <2>12. /\ RWOut(r)' = RWOut(r) + IF l \in {"post_rts", "handle_rts", "poll_write"} THEN 1 ELSE 0
         /\ RWOut(r)' \in Int
    BY <2>7, <2>9, <2>10, <1>m, <1>q DEF Counted, RWAfter, RWLambda
  <2>13. l \in {"post_rts", "handle_rts", "handle_rtr", "poll_write"} => x \in RWPolls
    BY <2>7, <2>10 DEF RWAfter, RWLambda, RWPolls
  <2> QED  BY <2>2, <2>3, <2>4, <2>6, <2>11, <2>12, <2>13
<1>2. CASE pc[r] = RWLast(r)
  <2>1. pc[r] \in RWLambda /\ \A y : <<pc[r], y>> \notin RWOutside(r)
    BY <1>2 DEF RWLambda, RWOutside, RWLast
  <2>2. PICK x : /\ x \in {"fill", "recv_rts", "close"} /\ (x = "fill" => r = 0)
                 /\ (x = "recv_rts" => r # 0)
                 /\ pc' = [pc EXCEPT ![r] = x] /\ call' = [call EXCEPT ![r] = NextCall(call[r])]
    BY <1>2, <2>1 DEF RWGoes, EndCall
  <2>3. NextCall(call[r]) \in Calls /\ NextCall(call[r]).n = n + 1
    BY <1>q, <1>n, NextCallGrows, BenchAssumption
  <2>4. /\ pc'[r] = x /\ pc'[Peer(r)] = pc[Peer(r)] /\ call'[r].n = n + 1 /\ call[r].n = n
        /\ call' \in [Ranks -> Calls] /\ call'[Peer(r)] = call[Peer(r)]
    BY <2>2, <2>3, <1>q, <1>n
  <2>5. x \in RWLabels /\ pc' \in [Ranks -> RWLabels]
    BY <2>2 DEF RWLabels
  <2>0. \A l, a, b, c : l \notin a /\ l \notin b /\ l \notin c => Counted(3, n + 1, l, a, b, c) = 3 * n
    BY <1>m DEF Counted
  <2>6. RWIn(r)' = 3 * n /\ RWOut(r)' = 3 * n
    <3>1. RWIn(r)' = IF r = 0 THEN Counted(3, n + 1, x, {"handle_rtr", "poll_write", "poll_fin", "recv_rts"},
                {"handle_rts", "poll_rtr", "recv_fin"}, {"handle_fin", "check"})
           ELSE Counted(3, n + 1, x, {"handle_rts", "poll_rtr", "recv_fin"},
                {"handle_fin", "check", "fill", "post_rts", "poll_rts", "recv_rtr"}, {"handle_rtr", "poll_write", "poll_fin"})
      BY <2>4 DEF RWIn
    <3>2. RWOut(r)' = IF r = 0 THEN Counted(3, n + 1, x, {"poll_rts", "recv_rtr", "handle_rtr", "poll_write"},
                {"poll_fin", "recv_rts", "handle_rts"}, {"poll_rtr", "recv_fin", "handle_fin", "check"})
           ELSE Counted(3, n + 1, x, {"poll_rtr", "recv_fin", "handle_fin", "check", "fill", "post_rts"},
                {"poll_rts", "recv_rtr", "handle_rtr", "poll_write"}, {"poll_fin"})
      BY <2>4 DEF RWOut
    <3> QED  BY <2>0, <2>2, <3>1, <3>2
  <2>7. RWIn(r) = 3 * n /\ RWOut(r) = 3 * n
    BY <1>2, <2>4, <1>m DEF RWIn, RWOut, Counted, RWLast
  <2>8. /\ pc[r] \notin {"recv_rts", "recv_rtr", "recv_fin"} /\ pc[r] \notin {"post_rts", "handle_rts", "poll_write"}
        /\ pc[r] \notin {"post_rts", "handle_rts", "handle_rtr", "poll_write"}
    BY <1>2, <2>2 DEF RWLast
  <2> QED  BY <2>4, <2>5, <2>6, <2>7, <2>8, <1>m
<1>3. CASE pc[r] \notin RWLambda
  <2>1. PICK x : <<pc[r], x>> \in RWOutside(r) /\ pc' = [pc EXCEPT ![r] = x] /\ call' = call
    BY <1>3 DEF RWGoes, Advance
  <2>2. /\ pc[r] \in {"setup", "close"} /\ x \in {"fill", "recv_rts", "exited"}
        /\ (x = "fill" => r = 0) /\ (x = "recv_rts" => r # 0)
    BY <2>1 DEF RWOutside
  <2>3. /\ pc'[r] = x /\ pc'[Peer(r)] = pc[Peer(r)] /\ call'[r].n = n /\ call[r].n = n
        /\ call' \in [Ranks -> Calls] /\ call'[Peer(r)] = call[Peer(r)]
    BY <2>1, <1>q, <1>n
  <2>4. x \in RWLabels /\ pc' \in [Ranks -> RWLabels]
    BY <2>1, <2>2 DEF RWLabels
  <2>5. RWIn(r)' = 3 * (n - 1) /\ RWOut(r)' = 3 * (n - 1)
    BY <2>2, <2>3, <1>m DEF RWIn, RWOut, Counted
  <2>6. RWIn(r) = 3 * (n - 1) /\ RWOut(r) = 3 * (n - 1)
    BY <2>2, <2>3, <1>m DEF RWIn, RWOut, Counted
  <2> QED  BY <2>2, <2>3, <2>4, <2>5, <2>6, <1>m
<1> QED  BY <1>1, <1>2, <1>3

\* The counts are numbers, and a rank is at most one message ahead of the other.
LEMMA RWNumbers ==
    ASSUME pc \in [Ranks -> RWLabels], call \in [Ranks -> Calls], NEW r \in Ranks
    PROVE  /\ RWIn(r) \in Int /\ RWOut(r) \in Int /\ call[r].n \in Nat \ {0}
           /\ r = 0 => RWOut(r) <= RWIn(r) + 1
           /\ r # 0 => RWOut(r) <= RWIn(r)
<1>1. PICK n, l : n = call[r].n /\ l = pc[r]
  OBVIOUS
<1>2. n \in Nat \ {0} /\ l \in RWLabels
  BY <1>1 DEF Calls
<1>3. RWIn(r) = IF r = 0 THEN Counted(3, n, l, {"handle_rtr", "poll_write", "poll_fin", "recv_rts"},
                {"handle_rts", "poll_rtr", "recv_fin"}, {"handle_fin", "check"})
           ELSE Counted(3, n, l, {"handle_rts", "poll_rtr", "recv_fin"},
                {"handle_fin", "check", "fill", "post_rts", "poll_rts", "recv_rtr"}, {"handle_rtr", "poll_write", "poll_fin"})
  BY <1>1 DEF RWIn
<1>4. RWOut(r) = IF r = 0 THEN Counted(3, n, l, {"poll_rts", "recv_rtr", "handle_rtr", "poll_write"},
                {"poll_fin", "recv_rts", "handle_rts"}, {"poll_rtr", "recv_fin", "handle_fin", "check"})
           ELSE Counted(3, n, l, {"poll_rtr", "recv_fin", "handle_fin", "check", "fill", "post_rts"},
                {"poll_rts", "recv_rtr", "handle_rtr", "poll_write"}, {"poll_fin"})
  BY <1>1 DEF RWOut
<1>5. RWIn(r) \in Int /\ RWOut(r) \in Int
  BY <1>2, <1>3, <1>4 DEF Counted
<1>6. r = 0 => RWOut(r) <= RWIn(r) + 1
  BY <1>2, <1>3, <1>4 DEF Counted, RWLabels
<1>7. r # 0 => RWOut(r) <= RWIn(r)
  BY <1>2, <1>3, <1>4 DEF Counted, RWLabels
<1> QED  BY <1>1, <1>2, <1>5, <1>6, <1>7

\* What a step of rank r of ibv_pingpong_rdv_write.cpp does, if it is not its end.
RWEffect(r) ==
    LET size == call[r].size
        got == mem[r][wc[r].wr_id]
        first == Head(send_cq[r])
        same == Becomes(r, mem[r], sq[r], send_cq[r], recv_cq[r], heap[r], wc[r])
    IN \/ pc[r] \in {"setup", "check", "close"} /\ same
       \/ /\ pc[r] = "fill"
          /\ Becomes(r, IF touch_data THEN Store(mem[r], 4, Fill(r, size)) ELSE mem[r],
                     sq[r], send_cq[r], recv_cq[r], heap[r], wc[r])
       \/ /\ pc[r] = "post_rts"
          /\ \E c : Becomes(r, [mem[r] EXCEPT ![0] = [v |-> "RTS", t |-> call[r].n,
                                                      send_ctx |-> c, size |-> size]],
                            Append(sq[r], Request("SEND_IMM", 0, 1, 0, "RTS", 0)),
                            send_cq[r], recv_cq[r],
                            Grown(heap[r], c, [buf |-> 4, size |-> size, recv_ctx |-> 0]), wc[r])
       \/ /\ pc[r] \in {"poll_rts", "poll_rtr", "poll_fin"} /\ send_cq[r] # <<>>
          /\ first.status = "SUCCESS"
          /\ Becomes(r, mem[r], sq[r], Tail(send_cq[r]), recv_cq[r], heap[r], wc[r])
       \/ /\ pc[r] \in {"recv_rts", "recv_rtr", "recv_fin"} /\ recv_cq[r] # <<>>
          /\ Becomes(r, mem[r], sq[r], send_cq[r], Tail(recv_cq[r]), heap[r], Head(recv_cq[r]))
       \/ /\ pc[r] = "handle_rts"
          /\ \E c : Becomes(r, [mem[r] EXCEPT ![1] =
                                   [v |-> "RTR", t |-> call[r].n, send_ctx |-> got.send_ctx,
                                    recv_ctx |-> c, remote_addr |-> 4 + max_msg_size]],
                            Append(sq[r], Request("SEND_IMM", 1, 1, 0, "RTR", 0)),
                            send_cq[r], recv_cq[r],
                            Grown(heap[r], c, [buf |-> 4 + max_msg_size, size |-> size]), wc[r])
       \/ /\ pc[r] = "handle_rtr" /\ got.v = "RTR" /\ got.send_ctx \in DOMAIN heap[r]
          /\ Becomes(r, mem[r],
                     Append(sq[r], Request("WRITE", heap[r][got.send_ctx].buf,
                                           heap[r][got.send_ctx].size, got.remote_addr, 0,
                                           got.send_ctx)),
                     send_cq[r], recv_cq[r],
                     [heap[r] EXCEPT ![got.send_ctx].recv_ctx = got.recv_ctx], wc[r])
       \/ /\ pc[r] = "poll_write" /\ send_cq[r] # <<>> /\ first.status = "SUCCESS"
          /\ \E x : Becomes(r, [mem[r] EXCEPT ![2] = [v |-> "FIN", t |-> call[r].n,
                                                      recv_ctx |-> x]],
                            Append(sq[r], Request("SEND_IMM", 2, 1, 0, "FIN", 0)),
                            Tail(send_cq[r]), recv_cq[r], Shrunk(heap[r], first.wr_id), wc[r])
       \/ /\ pc[r] = "handle_fin"
          /\ Becomes(r, mem[r], sq[r], send_cq[r], recv_cq[r], Shrunk(heap[r], got.recv_ctx), wc[r])

\* The steps of ibv_pingpong_rdv_write.cpp have these effects.
LEMMA RWSteps ==
    ASSUME NEW r \in Ranks, RdvFuns, Receives(r, 3), posted_recv_num[r] \in 0 .. MaxRecv,
           config.inline_size = 0, call[r].size \in Nat \ {0},
           \A c \in DOMAIN heap[r] : heap[r][c].size \in Nat \ {0}, RW!RankStep(r)
    PROVE  /\ Receives(r, 3)' /\ UNCHANGED config
           /\ \/ /\ UNCHANGED <<pc, call>>
                 /\ Becomes(r, mem[r], sq[r], send_cq[r], recv_cq[r], heap[r], wc[r])
              \/ RWGoes(r) /\ RWEffect(r)
<1> DEFINE size == call[r].size
<1>f. RdvFuns /\ AreFuns /\ IsFun(mem) /\ IsFun(sq) /\ IsFun(srq) /\ IsFun(send_cq) /\ IsFun(recv_cq)
      /\ IsFun(heap) /\ IsFun(wc) /\ Peer(r) \in Ranks /\ Peer(r) # r
  BY PeerFacts DEF RdvFuns, AreFuns
<1>w. \A op, buf, raddr, imm, wr_id : \A len \in Nat \ {0} :
          RW!WorkRequest(r, op, buf, len, raddr, imm, wr_id) =
              Request(op, buf, len, raddr, imm, wr_id)
  <2> TAKE op, buf, raddr, imm, wr_id
  <2> TAKE len \in Nat \ {0}
  <2>1. RW!WorkRequest(r, op, buf, len, raddr, imm, wr_id) =
        WorkRequest(r, op, buf, len, raddr, imm, wr_id)
    BY DEF RW!WorkRequest, WorkRequest, RW!Load, Load
  <2> QED  BY <2>1, NothingInline
<1>m. RW!max_msg_size = max_msg_size /\ RW!touch_data = touch_data
  BY DEF RW!max_msg_size, max_msg_size, RW!touch_data, touch_data
<1>a. ASSUME RW!Abort(r), UNCHANGED <<heap, wc>>
      PROVE  /\ Receives(r, 3)' /\ UNCHANGED config
             /\ UNCHANGED <<pc, call>>
             /\ Becomes(r, mem[r], sq[r], send_cq[r], recv_cq[r], heap[r], wc[r])
  <2>1. UNCHANGED <<mem, sq, srq, send_cq, recv_cq, heap, wc, config, pc, call>>
    BY <1>a DEF RW!Abort, RW!benchVars
  <2>2. Becomes(r, mem[r], sq[r], send_cq[r], recv_cq[r], heap[r], wc[r])
    BY <2>1, RdvHalts
  <2> QED  BY <2>1, <2>2 DEF Receives
<1>p. ASSUME pc[r] \in RWLambda, RW!Proceed(r, RW!Body(r))  PROVE RWGoes(r)
  BY <1>p, RWProceeds
<1>1. CASE RW!Setup(r)
  <2>1. CASE RW!Abort(r) /\ UNCHANGED <<heap, wc>>
    BY <2>1, <1>a
  <2>2. CASE ~ RW!Abort(r)
    <3>1. /\ pc[r] = "setup" /\ RW!Goto(r, RW!Body(r)[1])
          /\ RW!checkAndPostRecvs(r, posted_recv_num[r], 3, 1)
          /\ UNCHANGED <<mem, sq, send_cq, recv_cq, config, heap, wc>>
      BY <1>1, <2>2 DEF RW!Setup, RW!PostRecvs, RW!At, RW!control_recv_buf, RW!rdvVars
    <3>2. checkAndPostRecvs(r, posted_recv_num[r], 3, 1)
      BY <3>1 DEF RW!checkAndPostRecvs, checkAndPostRecvs, RW!Refill, Refill
    <3>3. Receives(r, 3)' /\ srq'[Peer(r)] = srq[Peer(r)] /\ IsFun(srq')
      BY <3>2, <1>f, RefillNat, ReceivesPosted
    <3>4. Becomes(r, mem[r], sq[r], send_cq[r], recv_cq[r], heap[r], wc[r])
      BY <3>1, <3>3, <1>f DEF Becomes, AreFuns
    <3>5. RW!Body(r)[1] = IF r = 0 THEN "fill" ELSE "recv_rts"
      <4>1. RW!Sender[1] = "fill" /\ RW!Receiver[1] = "recv_rts"
            /\ Len(RW!Sender) = 7 /\ Len(RW!Receiver) = 6
            /\ RW!Sender \in Seq(RWLambda) /\ RW!Receiver \in Seq(RWLambda)
        BY DEF RW!Sender, RW!Receiver, RWLambda
      <4>2. (RW!Sender \o RW!Receiver)[1] = "fill" /\ (RW!Receiver \o RW!Sender)[1] = "recv_rts"
        BY <4>1, Concatenated
      <4> QED  BY <4>2 DEF RW!Body, RW!Halves
    <3>6. RWGoes(r)
      <4>1. <<pc[r], RW!Body(r)[1]>> \in RWOutside(r)
        BY <3>1, <3>5 DEF RWOutside
      <4>2. Advance(r, RW!Body(r)[1])
        BY <3>1 DEF RW!Goto, Advance
      <4> QED  BY <4>1, <4>2 DEF RWGoes
    <3> QED  BY <3>1, <3>3, <3>4, <3>6 DEF RWEffect
  <2> QED  BY <1>1, <2>1, <2>2 DEF RW!Setup, RW!rdvVars
<1>2. CASE RW!FillPayload(r)
  <2>1. /\ pc[r] = "fill" /\ RW!Proceed(r, RW!Body(r))
        /\ mem' = IF touch_data THEN [mem EXCEPT ![r] = Store(mem[r], 4, Fill(r, size))] ELSE mem
        /\ UNCHANGED <<sq, srq, send_cq, recv_cq, config, heap, wc>>
    BY <1>2, <1>m DEF RW!FillPayload, RW!FillSendBuf, RW!At, RW!write_buffer, RW!send_buf,
         RW!Store, Store, RW!Fill, Fill, RW!Value, Value, RW!UnchangedByPost, RW!rdvVars
  <2>2. /\ IsFun(mem') /\ mem'[Peer(r)] = mem[Peer(r)]
        /\ mem'[r] = IF touch_data THEN Store(mem[r], 4, Fill(r, size)) ELSE mem[r]
    BY <2>1, <1>f DEF IsFun
  <2>3. Becomes(r, IF touch_data THEN Store(mem[r], 4, Fill(r, size)) ELSE mem[r],
                     sq[r], send_cq[r], recv_cq[r], heap[r], wc[r])
    BY <2>1, <2>2, <1>f DEF Becomes, AreFuns
  <2>4. RWGoes(r)
    BY <2>1, <1>p DEF RWLambda
  <2> QED  BY <2>1, <2>3, <2>4 DEF RWEffect, Receives
<1>3. CASE RW!PostRTS(r)
  <2>1. CASE RW!RdvAbort(r)
    BY <2>1, <1>a DEF RW!RdvAbort, RW!rdvVars
  <2>2. CASE ~ RW!RdvAbort(r)
    <3> DEFINE msg(c) == [v |-> "RTS", t |-> call[r].n, send_ctx |-> c, size |-> size]
               fields == [buf |-> 4, size |-> size, recv_ctx |-> 0]
    <3>1. PICK c : /\ pc[r] = "post_rts" /\ RW!Proceed(r, RW!Body(r))
                   /\ RW!Malloc(r, c, fields)
                   /\ RW!PostControl(r, 0, msg(c), "RTS", 0)
                   /\ UNCHANGED <<srq, send_cq, recv_cq, config, wc>>
      BY <1>3, <2>2 DEF RW!PostRTS, RW!At, RW!rtsMsg, RW!send_buf,
                        RW!UnchangedByHandler
    <3>2. sq' = [sq EXCEPT ![r] = Append(sq[r], Request("SEND_IMM", 0, 1, 0, "RTS", 0))]
      <4>1. RW!WorkRequest(r, "SEND_IMM", 0, 1, 0, "RTS", 0) =
            Request("SEND_IMM", 0, 1, 0, "RTS", 0)
        BY <1>w
      <4> QED  BY <3>1, <4>1 DEF RW!PostControl, RW!postSendImm, RW!Post
    <3>3. heap' = [heap EXCEPT ![r] = Grown(heap[r], c, fields)]
      BY <3>1 DEF RW!Malloc, Grown
    <3>4. mem' = [mem EXCEPT ![r] = [mem[r] EXCEPT ![0] = msg(c)]]
      BY <3>1, <1>f DEF RW!PostControl
    <3>5. Becomes(r, [mem[r] EXCEPT ![0] = msg(c)],
                  Append(sq[r], Request("SEND_IMM", 0, 1, 0, "RTS", 0)),
                  send_cq[r], recv_cq[r], Grown(heap[r], c, fields), wc[r])
      <4> HIDE DEF msg, fields
      <4>1. IsFun(mem') /\ mem'[r] = [mem[r] EXCEPT ![0] = msg(c)] /\ mem'[Peer(r)] = mem[Peer(r)]
        BY <3>4, <1>f DEF IsFun
      <4>2. /\ IsFun(sq') /\ sq'[r] = Append(sq[r], Request("SEND_IMM", 0, 1, 0, "RTS", 0))
            /\ sq'[Peer(r)] = sq[Peer(r)]
        BY <3>2, <1>f DEF IsFun
      <4>3. /\ IsFun(heap') /\ heap'[r] = Grown(heap[r], c, fields)
            /\ heap'[Peer(r)] = heap[Peer(r)]
        BY <3>3, <1>f DEF IsFun
      <4> QED  BY <3>1, <4>1, <4>2, <4>3, <1>f DEF Becomes, AreFuns
    <3>6. RWGoes(r)
      BY <3>1, <1>p DEF RWLambda
    <3>7. RWEffect(r)
      BY <3>1, <3>5 DEF RWEffect
    <3> QED  BY <3>1, <3>6, <3>7 DEF Receives
  <2> QED  BY <2>1, <2>2
<1>4. CASE RW!PollControl(r)
  <2>1. CASE RW!Abort(r) /\ UNCHANGED <<heap, wc>>
    BY <2>1, <1>a
  <2>2. CASE ~ RW!Abort(r)
    <3>1. /\ pc[r] \in {"poll_rts", "poll_rtr", "poll_fin"} /\ RW!Proceed(r, RW!Body(r))
          /\ send_cq[r] # <<>> /\ Head(send_cq[r]).status = "SUCCESS"
          /\ send_cq' = [send_cq EXCEPT ![r] = Tail(send_cq[r])]
          /\ UNCHANGED <<mem, sq, srq, recv_cq, config, heap, wc>>
      BY <1>4, <2>2 DEF RW!PollControl, RW!AwaitSend, RW!AtAny, RW!Succeeded, RW!pollSendCQ,
                        RW!rdvVars
    <3>2. /\ IsFun(send_cq') /\ send_cq'[r] = Tail(send_cq[r])
          /\ send_cq'[Peer(r)] = send_cq[Peer(r)]
      BY <3>1, <1>f DEF IsFun
    <3>3. Becomes(r, mem[r], sq[r], Tail(send_cq[r]), recv_cq[r], heap[r], wc[r])
      BY <3>1, <3>2, <1>f DEF Becomes, AreFuns
    <3>4. RWGoes(r)
      BY <3>1, <1>p DEF RWLambda
    <3> QED  BY <3>1, <3>3, <3>4 DEF RWEffect, Receives
  <2> QED  BY <1>4, <2>1, <2>2 DEF RW!PollControl, RW!rdvVars
<1>5. CASE RW!PollRecv(r)
  <2>1. CASE RW!RdvAbort(r)
    BY <2>1, <1>a DEF RW!RdvAbort, RW!rdvVars
  <2>2. CASE ~ RW!RdvAbort(r)
    <3>1. /\ pc[r] \in {"recv_rts", "recv_rtr", "recv_fin"} /\ RW!Proceed(r, RW!Body(r))
          /\ recv_cq[r] # <<>>
          /\ recv_cq' = [recv_cq EXCEPT ![r] = Tail(recv_cq[r])]
          /\ wc' = [wc EXCEPT ![r] = Head(recv_cq[r])]
          /\ RW!checkAndPostRecvs(r, posted_recv_num[r] - 1, 3, 1)
          /\ UNCHANGED <<mem, sq, send_cq, order, config, heap>>
      BY <1>5, <2>2 DEF RW!PollRecv, RW!TakeRecv, RW!AtAny, RW!pollRecvCQ,
                        RW!control_recv_buf
    <3>2. checkAndPostRecvs(r, posted_recv_num[r] - 1, 3, 1)
      BY <3>1 DEF RW!checkAndPostRecvs, checkAndPostRecvs, RW!Refill, Refill
    <3>3. Receives(r, 3)' /\ srq'[Peer(r)] = srq[Peer(r)] /\ IsFun(srq')
      BY <3>2, <1>f, RefillNat, ReceivesPosted
    <3>4. /\ IsFun(recv_cq') /\ recv_cq'[r] = Tail(recv_cq[r])
          /\ recv_cq'[Peer(r)] = recv_cq[Peer(r)]
      BY <3>1, <1>f DEF IsFun
    <3>5. IsFun(wc') /\ wc'[r] = Head(recv_cq[r]) /\ wc'[Peer(r)] = wc[Peer(r)]
      BY <3>1, <1>f DEF IsFun
    <3>6. Becomes(r, mem[r], sq[r], send_cq[r], Tail(recv_cq[r]), heap[r], Head(recv_cq[r]))
      BY <3>1, <3>3, <3>4, <3>5, <1>f DEF Becomes, AreFuns
    <3>7. RWGoes(r)
      BY <3>1, <1>p DEF RWLambda
    <3> QED  BY <3>1, <3>3, <3>6, <3>7 DEF RWEffect
  <2> QED  BY <2>1, <2>2
<1>6. CASE RW!HandleRTS(r)
  <2>1. CASE RW!RdvAbort(r)
    BY <2>1, <1>a DEF RW!RdvAbort, RW!rdvVars
  <2>2. CASE ~ RW!RdvAbort(r)
    <3> DEFINE m == mem[r][wc[r].wr_id]
               fields == [buf |-> 4 + max_msg_size, size |-> size]
               msg(c) == [v |-> "RTR", t |-> call[r].n, send_ctx |-> m.send_ctx,
                          recv_ctx |-> c, remote_addr |-> 4 + max_msg_size]
               w == Request("SEND_IMM", 1, 1, 0, "RTR", 0)
    <3>1. PICK c : /\ pc[r] = "handle_rts" /\ RW!Proceed(r, RW!Body(r))
                   /\ RW!Malloc(r, c, fields)
                   /\ RW!PostControl(r, 1, msg(c), "RTR", 0)
                   /\ UNCHANGED <<srq, send_cq, recv_cq, config, wc>>
      BY <1>6, <2>2, <1>m DEF RW!HandleRTS, RW!At, RW!rtrMsg, RW!recv_buf, RW!Received,
                        RW!UnchangedByHandler
    <3>2. sq' = [sq EXCEPT ![r] = Append(sq[r], w)]
      <4>1. RW!WorkRequest(r, "SEND_IMM", 1, 1, 0, "RTR", 0) = w
        BY <1>w
      <4> QED  BY <3>1, <4>1 DEF RW!PostControl, RW!postSendImm, RW!Post
    <3>3. heap' = [heap EXCEPT ![r] = Grown(heap[r], c, fields)]
      BY <3>1 DEF RW!Malloc, Grown
    <3>4. mem' = [mem EXCEPT ![r] = [mem[r] EXCEPT ![1] = msg(c)]]
      BY <3>1, <1>f DEF RW!PostControl
    <3>5. Becomes(r, [mem[r] EXCEPT ![1] = msg(c)], Append(sq[r], w), send_cq[r], recv_cq[r],
                  Grown(heap[r], c, fields), wc[r])
      <4> HIDE DEF msg, fields, w
      <4>1. IsFun(mem') /\ mem'[r] = [mem[r] EXCEPT ![1] = msg(c)] /\ mem'[Peer(r)] = mem[Peer(r)]
        BY <3>4, <1>f DEF IsFun
      <4>2. IsFun(sq') /\ sq'[r] = Append(sq[r], w) /\ sq'[Peer(r)] = sq[Peer(r)]
        BY <3>2, <1>f DEF IsFun
      <4>3. /\ IsFun(heap') /\ heap'[r] = Grown(heap[r], c, fields)
            /\ heap'[Peer(r)] = heap[Peer(r)]
        BY <3>3, <1>f DEF IsFun
      <4> QED  BY <3>1, <4>1, <4>2, <4>3, <1>f DEF Becomes, AreFuns
    <3>6. RWGoes(r)
      BY <3>1, <1>p DEF RWLambda
    <3>7. RWEffect(r)
      BY <3>1, <3>5 DEF RWEffect
    <3> QED  BY <3>1, <3>6, <3>7 DEF Receives
  <2> QED  BY <2>1, <2>2
<1>7. CASE RW!HandleRTR(r)
  <2>1. CASE RW!RdvAbort(r)
    BY <2>1, <1>a DEF RW!RdvAbort, RW!rdvVars
  <2>2. CASE ~ RW!RdvAbort(r)
    <3> DEFINE m == mem[r][wc[r].wr_id]
               c == m.send_ctx
               ctx == heap[r][c]
               w == Request("WRITE", ctx.buf, ctx.size, m.remote_addr, 0, c)
               h == [heap[r] EXCEPT ![c].recv_ctx = m.recv_ctx]
    <3>1. /\ pc[r] = "handle_rtr" /\ RW!Proceed(r, RW!Body(r))
          /\ m.v = "RTR" /\ c \in DOMAIN heap[r]
          /\ RW!postWrite(r, ctx.buf, ctx.size, m.remote_addr, c)
          /\ heap' = [heap EXCEPT ![r][c].recv_ctx = m.recv_ctx]
          /\ UNCHANGED <<mem, srq, send_cq, recv_cq, config, wc>>
      BY <1>7, <2>2 DEF RW!HandleRTR, RW!At, RW!Live, RW!Received, RW!UnchangedByHandler
    <3>2. sq' = [sq EXCEPT ![r] = Append(sq[r], w)]
      <4>0. ctx.size \in Nat \ {0}
        BY <3>1
      <4>1. RW!WorkRequest(r, "WRITE", ctx.buf, ctx.size, m.remote_addr, 0, c) = w
        <5> HIDE DEF m, ctx, c
        <5> QED  BY <4>0, <1>w
      <4> QED  BY <3>1, <4>1 DEF RW!postWrite, RW!Post
    <3>3. heap' = [heap EXCEPT ![r] = h]
      BY <3>1, <1>f
    <3>5. Becomes(r, mem[r], Append(sq[r], w), send_cq[r], recv_cq[r], h, wc[r])
      <4> HIDE DEF w, h
      <4>2. IsFun(sq') /\ sq'[r] = Append(sq[r], w) /\ sq'[Peer(r)] = sq[Peer(r)]
        BY <3>2, <1>f DEF IsFun
      <4>3. IsFun(heap') /\ heap'[r] = h /\ heap'[Peer(r)] = heap[Peer(r)]
        BY <3>3, <1>f DEF IsFun
      <4> QED  BY <3>1, <4>2, <4>3, <1>f DEF Becomes, AreFuns
    <3>6. RWGoes(r)
      BY <3>1, <1>p DEF RWLambda
    <3>7. RWEffect(r)
      BY <3>1, <3>5 DEF RWEffect
    <3> QED  BY <3>1, <3>6, <3>7 DEF Receives
  <2> QED  BY <2>1, <2>2
<1>11. CASE RW!HandleWriteCompletion(r)
  <2>1. CASE RW!RdvAbort(r)
    BY <2>1, <1>a DEF RW!RdvAbort, RW!rdvVars
  <2>2. CASE ~ RW!RdvAbort(r)
    <3> DEFINE ctx == Head(send_cq[r]).wr_id
               x == heap[r][ctx].recv_ctx
               fin == [v |-> "FIN", t |-> call[r].n, recv_ctx |-> x]
               w == Request("SEND_IMM", 2, 1, 0, "FIN", 0)
    <3>1. /\ pc[r] = "poll_write" /\ RW!Proceed(r, RW!Body(r))
          /\ send_cq[r] # <<>> /\ Head(send_cq[r]).status = "SUCCESS" /\ ctx \in DOMAIN heap[r]
          /\ send_cq' = [send_cq EXCEPT ![r] = Tail(send_cq[r])]
          /\ RW!PostControl(r, 2, fin, "FIN", 0) /\ RW!Free(r, ctx)
          /\ UNCHANGED <<srq, recv_cq, config, wc>>
      BY <1>11, <2>2 DEF RW!HandleWriteCompletion, RW!At, RW!Succeeded, RW!Live,
                        RW!pollSendCQ, RW!finMsg, RW!UnchangedByHandler
    <3>2. sq' = [sq EXCEPT ![r] = Append(sq[r], w)]
      <4>1. RW!WorkRequest(r, "SEND_IMM", 2, 1, 0, "FIN", 0) = w
        BY <1>w
      <4> QED  BY <3>1, <4>1 DEF RW!PostControl, RW!postSendImm, RW!Post
    <3>3. heap' = [heap EXCEPT ![r] = Shrunk(heap[r], ctx)]
      BY <3>1 DEF RW!Free, Shrunk
    <3>4. mem' = [mem EXCEPT ![r] = [mem[r] EXCEPT ![2] = fin]]
      BY <3>1, <1>f DEF RW!PostControl
    <3>5. Becomes(r, [mem[r] EXCEPT ![2] = fin], Append(sq[r], w), Tail(send_cq[r]), recv_cq[r],
                  Shrunk(heap[r], ctx), wc[r])
      <4> HIDE DEF fin, x, ctx, w
      <4>1. IsFun(mem') /\ mem'[r] = [mem[r] EXCEPT ![2] = fin] /\ mem'[Peer(r)] = mem[Peer(r)]
        BY <3>4, <1>f DEF IsFun
      <4>2. IsFun(sq') /\ sq'[r] = Append(sq[r], w) /\ sq'[Peer(r)] = sq[Peer(r)]
        BY <3>2, <1>f DEF IsFun
      <4>3. /\ IsFun(heap') /\ heap'[r] = Shrunk(heap[r], ctx)
            /\ heap'[Peer(r)] = heap[Peer(r)]
        BY <3>3, <1>f DEF IsFun
      <4>4. /\ IsFun(send_cq') /\ send_cq'[r] = Tail(send_cq[r])
            /\ send_cq'[Peer(r)] = send_cq[Peer(r)]
        BY <3>1, <1>f DEF IsFun
      <4> QED  BY <3>1, <4>1, <4>2, <4>3, <4>4, <1>f DEF Becomes, AreFuns
    <3>6. RWGoes(r)
      BY <3>1, <1>p DEF RWLambda
    <3> HIDE DEF x
    <3> QED  BY <3>1, <3>5, <3>6 DEF RWEffect, Receives
  <2> QED  BY <2>1, <2>2
<1>8. CASE RW!HandleFIN(r)
  <2>1. CASE RW!RdvAbort(r)
    BY <2>1, <1>a DEF RW!RdvAbort, RW!rdvVars
  <2>2. CASE ~ RW!RdvAbort(r)
    <3> DEFINE ctx == mem[r][wc[r].wr_id].recv_ctx
    <3>1. /\ pc[r] = "handle_fin" /\ RW!Proceed(r, RW!Body(r)) /\ ctx \in DOMAIN heap[r]
          /\ RW!Free(r, ctx)
          /\ UNCHANGED <<mem, sq, srq, send_cq, recv_cq, config, wc>>
      BY <1>8, <2>2 DEF RW!HandleFIN, RW!At, RW!Live, RW!Received,
                        RW!UnchangedByHandler
    <3>3. heap' = [heap EXCEPT ![r] = Shrunk(heap[r], ctx)]
      BY <3>1 DEF RW!Free, Shrunk
    <3>5. Becomes(r, mem[r], sq[r], send_cq[r], recv_cq[r], Shrunk(heap[r], ctx), wc[r])
      <4> HIDE DEF ctx
      <4>3. /\ IsFun(heap') /\ heap'[r] = Shrunk(heap[r], ctx)
            /\ heap'[Peer(r)] = heap[Peer(r)]
        BY <3>3, <1>f DEF IsFun
      <4> QED  BY <3>1, <4>3, <1>f DEF Becomes, AreFuns
    <3>6. RWGoes(r)
      BY <3>1, <1>p DEF RWLambda
    <3> QED  BY <3>1, <3>5, <3>6 DEF RWEffect, Receives
  <2> QED  BY <2>1, <2>2
<1>9. CASE RW!Check(r)
  <2>1. CASE RW!Abort(r) /\ UNCHANGED <<heap, wc>>
    BY <2>1, <1>a
  <2>2. CASE ~ RW!Abort(r)
    <3>1. /\ pc[r] = "check" /\ RW!Proceed(r, RW!Body(r))
          /\ UNCHANGED <<mem, sq, srq, send_cq, recv_cq, config, heap, wc>>
      BY <1>9, <2>2 DEF RW!Check, RW!CheckData, RW!At, RW!rdvVars, RW!deviceVars, RW!fabricVars
    <3>2. Becomes(r, mem[r], sq[r], send_cq[r], recv_cq[r], heap[r], wc[r])
      BY <3>1, RdvHalts
    <3>3. RWGoes(r)
      BY <3>1, <1>p DEF RWLambda
    <3> QED  BY <3>1, <3>2, <3>3 DEF RWEffect, Receives
  <2> QED  BY <1>9, <2>1, <2>2 DEF RW!Check, RW!CheckData, RW!rdvVars
<1>10. CASE RW!Finalize(r)
  <2>1. /\ pc[r] = "close" /\ RW!Goto(r, "exited")
        /\ UNCHANGED <<mem, sq, srq, send_cq, recv_cq, config, heap, wc>>
    BY <1>10 DEF RW!Finalize, RW!Exit, RW!At, RW!rdvVars
  <2>2. Becomes(r, mem[r], sq[r], send_cq[r], recv_cq[r], heap[r], wc[r])
    BY <2>1, RdvHalts
  <2>3. RWGoes(r)
    <3>1. <<pc[r], "exited">> \in RWOutside(r)
      BY <2>1 DEF RWOutside
    <3>2. Advance(r, "exited")
      BY <2>1 DEF RW!Goto, Advance
    <3> QED  BY <3>1, <3>2 DEF RWGoes
  <2> QED  BY <2>1, <2>2, <2>3 DEF RWEffect, Receives
<1> QED  BY <1>1, <1>2, <1>3, <1>4, <1>5, <1>6, <1>7, <1>8, <1>9, <1>10, <1>11 DEF RW!RankStep

\* The contexts of rank r are of messages that have a size.
RWSized(r) ==
    \A c \in DOMAIN heap[r] : "size" \in DOMAIN heap[r][c] /\ heap[r][c].size \in Nat \ {0}

\* The messages of ibv_pingpong_rdv_write.cpp arrive in order.
RWChannel ==
    /\ config.inline_size = 0 /\ max_msg_size \in Nat
    /\ pc \in [Ranks -> RWLabels] /\ call \in [Ranks -> Calls]
    /\ Channels("rdv_write", 3, 4 + 2 * max_msg_size,
                [r \in Ranks |-> RWIn(r)], [r \in Ranks |-> RWOut(r)])
    /\ \A r \in Ranks : /\ pc[r] \notin RWPolls => sq[r] = <<>> /\ send_cq[r] = <<>>
                        /\ RWSized(r)

\* What a handler of ibv_pingpong_rdv_write.cpp finds in the line.
LEMMA RWFound ==
    ASSUME RWChannel, NEW r \in Ranks, pc[r] \in {"handle_rts", "handle_rtr", "handle_fin"}
    PROVE  /\ wc[r].wr_id = 3 /\ mem[r][3].v = wc[r].imm /\ mem[r][3].t = call[r].n
           /\ mem[r][3].v = "RTR" => mem[r][3].remote_addr \in Nat /\ mem[r][3].remote_addr > 3
<1>1. PICK in, out, size : /\ in = [x \in Ranks |-> RWIn(x)] /\ out = [x \in Ranks |-> RWOut(x)]
                           /\ size = 4 + 2 * max_msg_size
  OBVIOUS
<1>2. pc \in [Ranks -> RWLabels] /\ call \in [Ranks -> Calls]
  BY DEF RWChannel
<1>3. /\ in \in [Ranks -> Int] /\ out \in [Ranks -> Int]
      /\ Channels("rdv_write", 3, size, in, out)
  BY <1>1, <1>2, RWNumbers DEF RWChannel
<1>4. PICK n \in Nat \ {0} : n = call[r].n
  BY <1>2, RWNumbers
<1>5. r \in {0, 1} /\ Peer(r) \in Ranks /\ Peer(r) = 1 - r
  BY DEF Ranks, Peer
<1>6. /\ in[r] \in {3 * n - 2, 3 * n - 1, 3 * n} /\ out[r] = in[r] - r
  BY <1>1, <1>4, <1>5 DEF RWIn, RWOut, Counted
<1>7. out[Peer(r)] <= in[Peer(r)] + in[r] - out[r]
  <2>1. PICK a, b : a = in[Peer(r)] /\ b = out[Peer(r)]
    OBVIOUS
  <2>2. a \in Int /\ b \in Int /\ b <= a + r
    <3>1. a = RWIn(Peer(r)) /\ b = RWOut(Peer(r))
      BY <1>1, <1>5, <2>1
    <3>2. /\ RWIn(Peer(r)) \in Int /\ RWOut(Peer(r)) \in Int
          /\ Peer(r) = 0 => RWOut(Peer(r)) <= RWIn(Peer(r)) + 1
          /\ Peer(r) # 0 => RWOut(Peer(r)) <= RWIn(Peer(r))
      BY <1>2, <1>5, RWNumbers
    <3> QED  BY <1>5, <3>1, <3>2
  <2>3. in[r] - out[r] = r /\ in[r] \in Int /\ out[r] \in Int
    BY <1>3, <1>5, <1>6
  <2>4. PICK c, d : c = in[r] /\ d = out[r]
    OBVIOUS
  <2>5. b <= a + c - d
    BY <2>2, <2>3, <2>4, <1>5
  <2> QED  BY <2>1, <2>4, <2>5
<1>8. in[r] > 0
  BY <1>5, <1>6
<1>9. Fits("rdv_write", r, in[r], wc[r], mem[r][3])
  BY <1>3, <1>7, <1>8, NothingBehind
<1>10. PICK k \in Int : k = in[r]
  BY <1>3
<1>11. RWFits(r, k, wc[r], mem[r][3])
  BY <1>9, <1>10 DEF Fits
<1>12. PICK m : m = mem[r][3]
  OBVIOUS
<1>13. /\ wc[r].wr_id = 3 /\ m.v = wc[r].imm
       /\ m.t \in Nat /\ 3 * (m.t - 1) < k /\ k <= 3 * m.t
       /\ m.v = "RTR" => m.remote_addr \in Nat /\ m.remote_addr > 3
  BY <1>11, <1>12 DEF RWFits
<1>14. m.t = n
  <2>1. PICK j \in Nat : j = m.t
    BY <1>13
  <2>2. 3 * (j - 1) < k /\ k <= 3 * j /\ k \in {3 * n - 2, 3 * n - 1, 3 * n}
    BY <2>1, <1>13, <1>6, <1>10
  <2> QED  BY <2>1, <2>2
<1> QED  BY <1>4, <1>12, <1>13, <1>14

\* The steps of a rank of ibv_pingpong_rdv_write.cpp keep the order.
LEMMA RWChannelUsed ==
    ASSUME RWChannel, NEW r \in Ranks, posted_recv_num[r] \in 0 .. MaxRecv,
           RW!RankStep(r)
    PROVE  RWChannel'
<1> DEFINE q == Peer(r)
<1>q. q \in Ranks /\ q # r /\ Ranks = {r, q} /\ r \in {0, 1} /\ q = 1 - r
  BY PeerFacts DEF Ranks, Peer
<1>t. /\ config.inline_size = 0 /\ max_msg_size \in Nat
      /\ pc \in [Ranks -> RWLabels] /\ call \in [Ranks -> Calls]
      /\ pc[r] \notin RWPolls => sq[r] = <<>> /\ send_cq[r] = <<>>
      /\ RWSized(r) /\ RWSized(q)
      /\ pc[q] \notin RWPolls => sq[q] = <<>> /\ send_cq[q] = <<>>
  BY <1>q DEF RWChannel
<1>i. PICK in, out, size : /\ in = [x \in Ranks |-> RWIn(x)] /\ out = [x \in Ranks |-> RWOut(x)]
                           /\ size = 4 + 2 * max_msg_size
  OBVIOUS
<1>n. /\ in \in [Ranks -> Int] /\ out \in [Ranks -> Int]
      /\ in[r] = RWIn(r) /\ out[r] = RWOut(r) /\ in[r] \in Int /\ out[r] \in Int
      /\ size \in Nat /\ 3 < size
  BY <1>i, <1>t, RWNumbers
<1>c. Channels("rdv_write", 3, size, in, out)
  BY <1>i DEF RWChannel
<1>d. /\ RdvFuns /\ HasDomain(mem[r], size) /\ Receives(r, 3)
      /\ Outstanding("rdv_write", r, 3, out[r], sq[r], send_cq[r], mem[r])
  BY <1>c DEF Channels
<1>z. call[r].size \in Nat \ {0} /\ call[r].n \in Nat \ {0}
  BY <1>t DEF Calls
<1>h. \A c \in DOMAIN heap[r] : heap[r][c].size \in Nat \ {0}
  BY <1>t DEF RWSized
<1>s. /\ Receives(r, 3)' /\ UNCHANGED config
      /\ \/ /\ UNCHANGED <<pc, call>>
            /\ Becomes(r, mem[r], sq[r], send_cq[r], recv_cq[r], heap[r], wc[r])
         \/ RWGoes(r) /\ RWEffect(r)
  BY <1>d, <1>t, <1>z, <1>h, RWSteps
<1>x. config' = config /\ max_msg_size' = max_msg_size /\ size = 4 + 2 * max_msg_size'
  BY <1>i, <1>s DEF max_msg_size
<1>b. send_cq[r] = <<>> => ~ Broken(send_cq[r])
  BY DEF Broken
<1>1. CASE /\ UNCHANGED <<pc, call>>
           /\ Becomes(r, mem[r], sq[r], send_cq[r], recv_cq[r], heap[r], wc[r])
  <2>1. Uses("rdv_write", 3, size, r, in[r], in[r], out[r], out[r])
    BY <1>1, <1>d, Quiet
  <2>2. Channels("rdv_write", 3, size, [in EXCEPT ![r] = in[r]], [out EXCEPT ![r] = out[r]])'
    BY <1>c, <1>n, <1>s, <2>1, UsesKept
  <2>3. [in EXCEPT ![r] = in[r]] = in /\ [out EXCEPT ![r] = out[r]] = out
    BY <1>n
  <2>4. in = [x \in Ranks |-> RWIn(x)'] /\ out = [x \in Ranks |-> RWOut(x)']
    BY <1>i, <1>1 DEF RWIn, RWOut
  <2>5. \A x \in Ranks : /\ pc'[x] \notin RWPolls => sq'[x] = <<>> /\ send_cq'[x] = <<>>
                         /\ RWSized(x)'
    BY <1>1, <1>t, <1>q DEF Becomes, RWSized
  <2> QED  BY <1>1, <1>t, <1>x, <2>2, <2>3, <2>4, <2>5 DEF RWChannel
<1>2. CASE RWGoes(r) /\ RWEffect(r)
  <2>g. /\ pc' \in [Ranks -> RWLabels] /\ call' \in [Ranks -> Calls]
        /\ pc[r] \in {"post_rts", "handle_rts", "handle_rtr", "poll_write"} => pc'[r] \in RWPolls
        /\ pc'[q] = pc[q] /\ call'[q] = call[q]
        /\ RWIn(r)' = RWIn(r) + IF pc[r] \in {"recv_rts", "recv_rtr", "recv_fin"} THEN 1 ELSE 0
        /\ RWOut(r)' = RWOut(r) + IF pc[r] \in {"post_rts", "handle_rts", "poll_write"} THEN 1 ELSE 0
        /\ RWIn(r)' \in Int /\ RWOut(r)' \in Int
    BY <1>2, <1>t, RWCounts
  <2>i. PICK i \in Int, o \in Int : i = RWIn(r)' /\ o = RWOut(r)'
    BY <2>g
  <2>j. /\ i = in[r] + IF pc[r] \in {"recv_rts", "recv_rtr", "recv_fin"} THEN 1 ELSE 0
        /\ o = out[r] + IF pc[r] \in {"post_rts", "handle_rts", "poll_write"} THEN 1 ELSE 0
    BY <2>g, <2>i, <1>n
  <2>l. /\ [in EXCEPT ![r] = i] = [x \in Ranks |-> RWIn(x)']
        /\ [out EXCEPT ![r] = o] = [x \in Ranks |-> RWOut(x)']
    <3>1. RWIn(q)' = RWIn(q) /\ RWOut(q)' = RWOut(q)
      BY <2>g DEF RWIn, RWOut
    <3>2. \A x \in Ranks : x = r \/ x = q
      BY <1>q
    <3> QED  BY <1>i, <1>q, <2>i, <3>1, <3>2
  <2>m. ASSUME NEW n \in Nat \ {0}, NEW x, NEW e, NEW k \in Int, 3 * (n - 1) < k, k <= 3 * n,
               e.opcode = "RECV", e.wr_id = 3, x.v = e.imm, x.t = n,
               x.v = "RTR" => x.remote_addr \in Nat /\ x.remote_addr > 3
        PROVE  Fits("rdv_write", q, k, e, x)
    BY <2>m DEF Fits, RWFits
  <2>k. ASSUME NEW s, NEW sc, NEW h, NEW rc, NEW c, NEW m, Becomes(r, m, s, sc, rc, h, c),
               Uses("rdv_write", 3, size, r, in[r], i, out[r], o),
               pc'[r] \notin RWPolls => s = <<>> /\ sc = <<>>,
               \A x \in DOMAIN h : "size" \in DOMAIN h[x] /\ h[x].size \in Nat \ {0}
        PROVE  RWChannel'
    <3>1. Channels("rdv_write", 3, size, [in EXCEPT ![r] = i], [out EXCEPT ![r] = o])'
      BY <1>c, <1>n, <1>s, <2>k, UsesKept
    <3>2. \A x \in Ranks : /\ pc'[x] \notin RWPolls => sq'[x] = <<>> /\ send_cq'[x] = <<>>
                           /\ RWSized(x)'
      <4>1. /\ sq'[r] = s /\ send_cq'[r] = sc /\ sq'[q] = sq[q] /\ send_cq'[q] = send_cq[q]
            /\ heap'[q] = heap[q] /\ heap'[r] = h
        BY <2>k DEF Becomes
      <4>2. RWSized(q)' /\ RWSized(r)'
        BY <4>1, <1>t, <2>k DEF RWSized
      <4> QED  BY <4>1, <4>2, <1>q, <1>t, <2>g, <2>k
    <3> QED  BY <1>t, <1>x, <2>g, <2>l, <3>1, <3>2 DEF RWChannel
  <2>s. \A x \in DOMAIN heap[r] : "size" \in DOMAIN heap[r][x] /\ heap[r][x].size \in Nat \ {0}
    BY <1>t DEF RWSized
  <2>o. \A c, y : \A x \in DOMAIN Grown(heap[r], c, y) :
            "size" \in DOMAIN y /\ y.size \in Nat \ {0} =>
                /\ "size" \in DOMAIN Grown(heap[r], c, y)[x]
                /\ Grown(heap[r], c, y)[x].size \in Nat \ {0}
    BY <2>s DEF Grown
  <2>r. \A c : \A x \in DOMAIN Shrunk(heap[r], c) :
            /\ "size" \in DOMAIN Shrunk(heap[r], c)[x]
            /\ Shrunk(heap[r], c)[x].size \in Nat \ {0}
    BY <2>s DEF Shrunk
  <2>1. CASE pc[r] \in {"setup", "check", "close"}
    <3>1. Becomes(r, mem[r], sq[r], send_cq[r], recv_cq[r], heap[r], wc[r])
      BY <1>2, <2>1 DEF RWEffect
    <3>2. i = in[r] /\ o = out[r] /\ sq[r] = <<>> /\ send_cq[r] = <<>>
      BY <2>1, <2>j, <1>n, <1>t DEF RWPolls
    <3>3. Uses("rdv_write", 3, size, r, in[r], i, out[r], o)
      BY <3>1, <3>2, <1>d, Quiet
    <3> QED  BY <3>1, <3>2, <3>3, <2>k, <2>s
  <2>2. CASE pc[r] = "fill"
    <3>1. PICK m : /\ Becomes(r, m, sq[r], send_cq[r], recv_cq[r], heap[r], wc[r])
                   /\ m = mem[r] \/ \E data : m = Store(mem[r], 4, data)
      BY <1>2, <2>2 DEF RWEffect
    <3>2. i = in[r] /\ o = out[r] /\ sq[r] = <<>> /\ send_cq[r] = <<>>
      BY <2>2, <2>j, <1>n, <1>t DEF RWPolls
    <3>3. m = mem[r] \/ \E data : m = Store(mem[r], 3 + 1, data)
      BY <3>1
    <3>4. Uses("rdv_write", 3, size, r, in[r], i, out[r], o)
      BY <3>1, <3>2, <3>3, <1>d, <1>n, FillQuiet
    <3> QED  BY <3>1, <3>2, <3>4, <2>k, <2>s
  <2>3. CASE pc[r] = "post_rts"
    <3>1. PICK c : Becomes(r, [mem[r] EXCEPT ![0] = [v |-> "RTS", t |-> call[r].n,
                                                     send_ctx |-> c, size |-> call[r].size]],
                           Append(sq[r], Request("SEND_IMM", 0, 1, 0, "RTS", 0)),
                           send_cq[r], recv_cq[r],
                           Grown(heap[r], c, [buf |-> 4, size |-> call[r].size, recv_ctx |-> 0]), wc[r])
      BY <1>2, <2>3 DEF RWEffect
    <3>2. PICK x, y, h : /\ x = [v |-> "RTS", t |-> call[r].n, send_ctx |-> c, size |-> call[r].size]
                         /\ y = [buf |-> 4, size |-> call[r].size, recv_ctx |-> 0]
                         /\ h = Grown(heap[r], c, y)
      OBVIOUS
    <3>3. x.v = "RTS" /\ x.t = call[r].n /\ "size" \in DOMAIN y /\ y.size \in Nat \ {0}
      BY <3>2, <1>z
    <3>4. /\ i = in[r] /\ o = out[r] + 1
          /\ 3 * (call[r].n - 1) < out[r] + 1 /\ out[r] + 1 <= 3 * call[r].n
      BY <2>3, <2>j, <1>n, <1>z, <1>q DEF RWOut, Counted
    <3>5. \A e : e.opcode = "RECV" /\ e.wr_id = 3 /\ e.imm = "RTS" =>
                     Fits("rdv_write", Peer(r), out[r] + 1, e, x)
      BY <3>3, <3>4, <1>n, <1>z, <2>m
    <3>6. Becomes(r, [mem[r] EXCEPT ![0] = x], Append(sq[r], Request("SEND_IMM", 0, 1, 0, "RTS", 0)),
                  send_cq[r], recv_cq[r], h, wc[r])
      BY <3>1, <3>2
    <3>7. sq[r] = <<>> /\ send_cq[r] = <<>> /\ 0 \in 0 .. 3 - 1 /\ pc'[r] \in RWPolls
      BY <2>3, <2>g, <1>t DEF RWPolls
    <3>8. Uses("rdv_write", 3, size, r, in[r], i, out[r], o)
      BY <3>4, <3>5, <3>6, <3>7, <1>b, <1>d, <1>n, ControlUsed
    <3>9. \A z \in DOMAIN h : "size" \in DOMAIN h[z] /\ h[z].size \in Nat \ {0}
      BY <3>2, <3>3, <2>o
    <3> QED  BY <3>6, <3>7, <3>8, <3>9, <2>k
  <2>4. CASE pc[r] \in {"poll_rts", "poll_rtr", "poll_fin"}
    <3>1. /\ send_cq[r] # <<>> /\ Head(send_cq[r]).status = "SUCCESS"
          /\ Becomes(r, mem[r], sq[r], Tail(send_cq[r]), recv_cq[r], heap[r], wc[r])
      BY <1>2, <2>4 DEF RWEffect
    <3>2. i = in[r] /\ o = out[r]
      BY <2>4, <2>j, <1>n
    <3>3. Uses("rdv_write", 3, size, r, in[r], i, out[r], o)
      BY <3>1, <3>2, <1>d, CompletionUsed
    <3>4. sq[r] = <<>> /\ Tail(send_cq[r]) = <<>>
      BY <3>1, <1>d, CompletionTaken
    <3> QED  BY <3>1, <3>3, <3>4, <2>k, <2>s
  <2>5. CASE pc[r] \in {"recv_rts", "recv_rtr", "recv_fin"}
    <3>1. /\ recv_cq[r] # <<>>
          /\ Becomes(r, mem[r], sq[r], send_cq[r], Tail(recv_cq[r]), heap[r], Head(recv_cq[r]))
      BY <1>2, <2>5 DEF RWEffect
    <3>2. i = in[r] + 1 /\ o = out[r] /\ sq[r] = <<>> /\ send_cq[r] = <<>>
      BY <2>5, <2>j, <1>n, <1>t DEF RWPolls
    <3>3. Uses("rdv_write", 3, size, r, in[r], i, out[r], o)
      BY <3>1, <3>2, <1>d, ReceiveUsed
    <3> QED  BY <3>1, <3>2, <3>3, <2>k, <2>s
  <2>6. CASE pc[r] = "handle_rts"
    <3>1. PICK c, ctx :
              Becomes(r, [mem[r] EXCEPT ![1] = [v |-> "RTR", t |-> call[r].n, send_ctx |-> ctx,
                                                recv_ctx |-> c, remote_addr |-> 4 + max_msg_size]],
                      Append(sq[r], Request("SEND_IMM", 1, 1, 0, "RTR", 0)),
                      send_cq[r], recv_cq[r],
                      Grown(heap[r], c, [buf |-> 4 + max_msg_size, size |-> call[r].size]), wc[r])
      BY <1>2, <2>6 DEF RWEffect
    <3>2. PICK x, y, h : /\ x = [v |-> "RTR", t |-> call[r].n, send_ctx |-> ctx,
                                 recv_ctx |-> c, remote_addr |-> 4 + max_msg_size]
                         /\ y = [buf |-> 4 + max_msg_size, size |-> call[r].size]
                         /\ h = Grown(heap[r], c, y)
      OBVIOUS
    <3>3. /\ x.v = "RTR" /\ x.t = call[r].n /\ x.remote_addr \in Nat /\ x.remote_addr > 3
          /\ "size" \in DOMAIN y /\ y.size \in Nat \ {0}
      BY <3>2, <1>t, <1>z
    <3>4. /\ i = in[r] /\ o = out[r] + 1
          /\ 3 * (call[r].n - 1) < out[r] + 1 /\ out[r] + 1 <= 3 * call[r].n
      BY <2>6, <2>j, <1>n, <1>z, <1>q DEF RWOut, Counted
    <3>5. \A e : e.opcode = "RECV" /\ e.wr_id = 3 /\ e.imm = "RTR" =>
                     Fits("rdv_write", Peer(r), out[r] + 1, e, x)
      BY <3>3, <3>4, <1>n, <1>z, <2>m
    <3>6. Becomes(r, [mem[r] EXCEPT ![1] = x], Append(sq[r], Request("SEND_IMM", 1, 1, 0, "RTR", 0)),
                  send_cq[r], recv_cq[r], h, wc[r])
      BY <3>1, <3>2
    <3>7. sq[r] = <<>> /\ send_cq[r] = <<>> /\ 1 \in 0 .. 3 - 1 /\ pc'[r] \in RWPolls
      BY <2>6, <2>g, <1>t DEF RWPolls
    <3>8. Uses("rdv_write", 3, size, r, in[r], i, out[r], o)
      BY <3>4, <3>5, <3>6, <3>7, <1>b, <1>d, <1>n, ControlUsed
    <3>9. \A z \in DOMAIN h : "size" \in DOMAIN h[z] /\ h[z].size \in Nat \ {0}
      BY <3>2, <3>3, <2>o
    <3> QED  BY <3>6, <3>7, <3>8, <3>9, <2>k
  <2>7. CASE pc[r] = "handle_rtr"
    <3> DEFINE got == mem[r][wc[r].wr_id]
    <3>1. PICK c, buf, len, addr, v, h :
              /\ got.v = "RTR" /\ addr = got.remote_addr /\ c \in DOMAIN heap[r]
              /\ len = heap[r][c].size /\ h = [heap[r] EXCEPT ![c].recv_ctx = v]
              /\ Becomes(r, mem[r], Append(sq[r], Request("WRITE", buf, len, addr, 0, c)),
                         send_cq[r], recv_cq[r], h, wc[r])
      BY <1>2, <2>7 DEF RWEffect
    <3>2. addr \in Nat /\ addr > 3
      BY <3>1, <2>7, RWFound
    <3>3. PICK w : w = Request("WRITE", buf, len, addr, 0, c)
      OBVIOUS
    <3>4. IsRequest(w) /\ w.inline = FALSE
      BY <3>3, RequestNotInline, Zenon
    <3>5. w.op = "WRITE" /\ w.raddr = addr /\ w.st = "posted" /\ w.left = 1 .. len
      BY <3>3, RequestFields
    <3>6. i = in[r] /\ o = out[r] /\ pc'[r] \in RWPolls
      BY <2>7, <2>j, <2>g, <1>n
    <3>7. len \in Nat \ {0}
      BY <3>1, <2>s
    <3>8. \E j, k \in Nat \ {0} : j <= k /\ w.left = j .. k
      BY <3>5, <3>7
    <3>9. Sound("rdv_write", r, 3, o, w, mem[r])
      BY <3>2, <3>4, <3>5, <3>8 DEF Sound
    <3>10. w.op \notin Messages
      BY <3>5 DEF Messages
    <3>11. sq[r] = <<>> /\ send_cq[r] = <<>>
      BY <2>7, <1>t DEF RWPolls
    <3>12. Becomes(r, mem[r], Append(sq[r], w), send_cq[r], recv_cq[r], h, wc[r])
      BY <3>1, <3>3
    <3>13. o = out[r] + IF w.op \in Messages THEN 1 ELSE 0
      BY <3>6, <3>10, <1>n
    <3>14. Uses("rdv_write", 3, size, r, in[r], i, out[r], o)
      BY <3>5, <3>6, <3>9, <3>11, <3>12, <3>13, <1>b, <1>d, PostUsed
    <3>15. \A z \in DOMAIN h : "size" \in DOMAIN h[z] /\ h[z].size \in Nat \ {0}
      <4>1. SUFFICES ASSUME NEW z \in DOMAIN h
                     PROVE  "size" \in DOMAIN h[z] /\ h[z].size \in Nat \ {0}
        OBVIOUS
      <4>2. z \in DOMAIN heap[r] /\ h[z] = IF z = c THEN [heap[r][c] EXCEPT !.recv_ctx = v] ELSE heap[r][z]
        BY <3>1, <4>1
      <4>3. PICK y : y = heap[r][c]
        OBVIOUS
      <4>4. "size" \in DOMAIN y /\ y.size \in Nat \ {0}
        BY <4>3, <3>1, <2>s
      <4>5. "size" \in DOMAIN [y EXCEPT !.recv_ctx = v] /\ [y EXCEPT !.recv_ctx = v].size = y.size
        BY <4>4
      <4> QED  BY <4>2, <4>3, <4>4, <4>5, <2>s
    <3> QED  BY <3>6, <3>12, <3>14, <3>15, <2>k
  <2>8. CASE pc[r] = "poll_write"
    <3>1. PICK x, c : /\ send_cq[r] # <<>> /\ Head(send_cq[r]).status = "SUCCESS"
                      /\ Becomes(r, [mem[r] EXCEPT ![2] = [v |-> "FIN", t |-> call[r].n,
                                                           recv_ctx |-> x]],
                                 Append(sq[r], Request("SEND_IMM", 2, 1, 0, "FIN", 0)),
                                 Tail(send_cq[r]), recv_cq[r], Shrunk(heap[r], c), wc[r])
      BY <1>2, <2>8 DEF RWEffect
    <3>2. PICK y, h : /\ y = [v |-> "FIN", t |-> call[r].n, recv_ctx |-> x]
                      /\ h = Shrunk(heap[r], c)
      OBVIOUS
    <3>3. y.v = "FIN" /\ y.t = call[r].n
      BY <3>2
    <3>4. /\ i = in[r] /\ o = out[r] + 1 /\ pc'[r] \in RWPolls
          /\ 3 * (call[r].n - 1) < out[r] + 1 /\ out[r] + 1 <= 3 * call[r].n
      BY <2>8, <2>g, <2>j, <1>n, <1>z, <1>q DEF RWOut, Counted
    <3>5. \A e : e.opcode = "RECV" /\ e.wr_id = 3 /\ e.imm = "FIN" =>
                     Fits("rdv_write", Peer(r), out[r] + 1, e, y)
      BY <3>3, <3>4, <1>n, <1>z, <2>m
    <3>6. PICK sc : /\ sc = Tail(send_cq[r])
                    /\ Becomes(r, [mem[r] EXCEPT ![2] = y],
                               Append(sq[r], Request("SEND_IMM", 2, 1, 0, "FIN", 0)),
                               sc, recv_cq[r], h, wc[r])
      BY <3>1, <3>2
    <3>7. sq[r] = <<>> /\ sc = <<>> /\ ~ Broken(send_cq[r]) /\ 2 \in 0 .. 3 - 1
      BY <3>1, <3>6, <1>d, CompletionTaken
    <3>8. Uses("rdv_write", 3, size, r, in[r], i, out[r], o)
      BY <3>4, <3>5, <3>6, <3>7, <1>d, <1>n, ControlUsed
    <3>9. \A z \in DOMAIN h : "size" \in DOMAIN h[z] /\ h[z].size \in Nat \ {0}
      BY <3>2, <2>r
    <3> QED  BY <3>4, <3>6, <3>8, <3>9, <2>k
  <2>9. CASE pc[r] = "handle_fin"
    <3>1. PICK c : Becomes(r, mem[r], sq[r], send_cq[r], recv_cq[r], Shrunk(heap[r], c), wc[r])
      BY <1>2, <2>9 DEF RWEffect
    <3>2. i = in[r] /\ o = out[r] /\ sq[r] = <<>> /\ send_cq[r] = <<>>
      BY <2>9, <2>j, <1>n, <1>t DEF RWPolls
    <3>3. Uses("rdv_write", 3, size, r, in[r], i, out[r], o)
      BY <3>1, <3>2, <1>d, Quiet
    <3> QED  BY <3>1, <3>2, <3>3, <2>k, <2>r
  <2> QED  BY <1>2, <2>1, <2>2, <2>3, <2>4, <2>5, <2>6, <2>7, <2>8, <2>9 DEF RWEffect
<1> QED  BY <1>s, <1>1, <1>2

\* So do those of the adapters.
LEMMA RWChannelCarried ==
    ASSUME RWChannel, NEW r \in Ranks, Adapter(r) \/ LoseAck(r),
           UNCHANGED <<config, pc, call, heap, wc>>
    PROVE  RWChannel'
<1>1. PICK in, out, size : /\ in = [x \in Ranks |-> RWIn(x)] /\ out = [x \in Ranks |-> RWOut(x)]
                           /\ size = 4 + 2 * max_msg_size
  OBVIOUS
<1>2. /\ in \in [Ranks -> Int] /\ out \in [Ranks -> Int] /\ size \in Nat /\ 3 < size
      /\ Channels("rdv_write", 3, size, in, out)
  BY <1>1, RWNumbers DEF RWChannel
<1>3. /\ Channels("rdv_write", 3, size, in, out)'
      /\ \A x \in Ranks : sq[x] = <<>> => sq'[x] = sq[x] /\ send_cq'[x] = send_cq[x]
  BY <1>2, ChannelsCarried
<1>4. size = 4 + 2 * max_msg_size' /\ max_msg_size' = max_msg_size
  BY <1>1 DEF max_msg_size
<1>5. in = [x \in Ranks |-> RWIn(x)'] /\ out = [x \in Ranks |-> RWOut(x)']
  BY <1>1 DEF RWIn, RWOut
<1>6. \A x \in Ranks : /\ pc'[x] \notin RWPolls => sq'[x] = <<>> /\ send_cq'[x] = <<>>
                       /\ RWSized(x)'
  BY <1>3 DEF RWChannel, RWSized
<1> QED  BY <1>3, <1>4, <1>5, <1>6 DEF RWChannel

\* Each handler of ibv_pingpong_rdv_write.cpp works on what it should.
LEMMA RWHandlersFind ==
    ASSUME RWChannel
    PROVE  RW!ControlIntact
<1>1. SUFFICES ASSUME NEW r \in Ranks, pc[r] \in {"handle_rts", "handle_rtr", "handle_fin"}
               PROVE  mem[r][wc[r].wr_id].v = wc[r].imm /\ mem[r][wc[r].wr_id].t = call[r].n
  BY DEF RW!ControlIntact, RW!Ranks, Ranks, RW!Received
<1> QED  BY <1>1, RWFound
=============================================================================
