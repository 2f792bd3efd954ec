------------------------------- MODULE Fabric -------------------------------
(***************************************************************************)
(* The InfiniBand adapters and the wire, as the benchmarks use them through *)
(* libibverbs: one reliable connected queue pair between rank 0 and rank 1, *)
(* one registered memory region, one shared receive queue and two           *)
(* completion queues per rank.  External code: modelled from the calls in   *)
(* ibv_common.hpp and from the attributes init gives the queue pairs        *)
(* (rnr_retry = 7: retry for ever when the peer has no receive posted;      *)
(* retry_cnt = 7: give up when the peer does not answer any more).          *)
(*                                                                          *)
(* A cell of memory is a record: v is what the program sees of it, t a      *)
(* ghost, the number of the call that produced it; a control message of a   *)
(* rendezvous protocol is one cell with more fields.                        *)
(***************************************************************************)
EXTENDS Integers, Sequences, SequencesExt, FiniteSetsExt

CONSTANTS MaxSend,  \* max_send_num: capacity of a send queue
          MaxRecv,  \* max_recv_num: capacity of a shared receive queue
          MaxLost   \* how many acknowledgements the wire loses in a behaviour

VARIABLES mem,      \* mem[r][a]: cell a of rank r's memory region, of mr_size cells
          sq,       \* sq[r]: work requests posted and not yet completed
          srq,      \* srq[r]: receive buffers posted and not yet consumed
          send_cq, recv_cq,  \* completions not yet polled
          lost,     \* acknowledgements lost so far
          order,    \* in which order the adapters place the cells of a write
          up        \* the ranks whose process, hence queue pair, exists

fabricVars == <<mem, sq, srq, send_cq, recv_cq, lost, order, up>>

ASSUME FabricAssumption ==
    /\ MaxSend \in Nat \ {0}
    /\ MaxRecv \in Nat \ {0}
    /\ MaxLost \in Nat

Ranks == {0, 1}
Peer(r) == 1 - r

\* What the region holds after posix_memalign: nothing a program wrote.
Untouched == [v |-> "none", t |-> 0]

\* The cells buf[0 .. len - 1] of memory m.
Load(m, buf, len) == [k \in 1 .. len |-> m[buf + k - 1]]

\* Memory m after data is stored at buf.
Store(m, buf, data) ==
    [a \in DOMAIN m |->
        IF a \in buf .. buf + Len(data) - 1 THEN data[a - buf + 1] ELSE m[a]]

FabricInit(mr_size) ==
    /\ mem = [r \in Ranks |-> [a \in 0 .. mr_size - 1 |-> Untouched]]
    /\ sq = [r \in Ranks |-> <<>>]
    /\ srq = [r \in Ranks |-> <<>>]
    /\ send_cq = [r \in Ranks |-> <<>>]
    /\ recv_cq = [r \in Ranks |-> <<>>]
    /\ lost = 0
    /\ order \in {"ascending", "descending"}
    /\ up = Ranks

----------------------------------------------------------------------------
\* A buffer inside rank r's registered region; its adapter refuses any other.
InRegion(r, buf, len) == buf .. buf + len - 1 \subseteq DOMAIN mem[r]

\* The cells a work request of rank r sends: taken when it was posted if it
\* is inline, otherwise fetched from memory when the adapter gets to it.
Payload(r, w) == IF w.inline THEN w.data ELSE Load(mem[r], w.buf, w.len)

\* The work request at the head of rank r's send queue, in state st.
HeadIs(r, st) == sq[r] # <<>> /\ Head(sq[r]).st = st

SetHead(r, w) == sq' = [sq EXCEPT ![r] = <<w>> \o Tail(@)]

SendOpcode(op) ==
    CASE op \in {"SEND", "SEND_IMM"} -> "SEND"
      [] op \in {"WRITE", "WRITE_IMM"} -> "RDMA_WRITE"
      [] op = "READ" -> "RDMA_READ"

\* The head of rank r's send queue leaves with a completion.
Finish(r, status) ==
    LET w == Head(sq[r])
    IN /\ sq' = [sq EXCEPT ![r] = Tail(@)]
       /\ send_cq' = [send_cq EXCEPT ![r] = Append(@,
              [status |-> status, opcode |-> SendOpcode(w.op), wr_id |-> w.wr_id])]

\* The adapters refuse the request: a buffer outside a memory region, or a
\* message longer than the receive buffer it would be put in.
Refused(r, w) ==
    \/ ~ InRegion(r, w.buf, w.len)
    \/ w.op \in {"WRITE", "WRITE_IMM", "READ"} /\ ~ InRegion(Peer(r), w.raddr, w.len)
    \/ /\ w.op \in {"SEND", "SEND_IMM"}
       /\ srq[Peer(r)] # <<>>
       /\ \/ w.len > Head(srq[Peer(r)]).len
          \/ ~ InRegion(Peer(r), Head(srq[Peer(r)]).buf, w.len)

\* The peer's adapter can take the request of rank r's head.
Ready(r) == HeadIs(r, "posted") /\ Peer(r) \in up /\ ~ Refused(r, Head(sq[r]))

\* A message with a receive completion: SEND fills the buffer of the receive
\* it consumes, WRITE_WITH_IMM the address it names.  Without a receive
\* posted it waits (RNR retry).
Deliver(r) ==
    LET w == Head(sq[r])
        q == Head(srq[Peer(r)])
        d == Peer(r)
    IN /\ Ready(r)
       /\ w.op \in {"SEND", "SEND_IMM", "WRITE_IMM"}
       /\ srq[d] # <<>>
       /\ mem' = [mem EXCEPT ![d] = Store(@,
              IF w.op = "WRITE_IMM" THEN w.raddr ELSE q.buf, Payload(r, w))]
       /\ srq' = [srq EXCEPT ![d] = Tail(@)]
       /\ recv_cq' = [recv_cq EXCEPT ![d] = Append(@,
              [status |-> "SUCCESS",
               opcode |-> IF w.op = "WRITE_IMM" THEN "RECV_RDMA_WITH_IMM" ELSE "RECV",
               imm |-> w.imm, wr_id |-> q.wr_id])]
       /\ SetHead(r, [w EXCEPT !.st = "acked"])
       /\ UNCHANGED <<send_cq, lost, order, up>>

\* One more cell of an RDMA write reaches the peer's memory, unnoticed by its
\* process; the last one acknowledges the write.
Place(r) ==
    LET w == Head(sq[r])
        k == IF order = "ascending" THEN Min(w.left) ELSE Max(w.left)
    IN /\ Ready(r)
       /\ w.op = "WRITE"
       /\ mem' = [mem EXCEPT ![Peer(r)] =
              Store(@, w.raddr + k - 1, <<Payload(r, w)[k]>>)]
       /\ SetHead(r, [w EXCEPT !.left = @ \ {k},
                               !.st = IF w.left = {k} THEN "acked" ELSE "posted"])
       /\ UNCHANGED <<srq, send_cq, recv_cq, lost, order, up>>

\* The peer's adapter answers an RDMA read with what its memory holds now.
Respond(r) ==
    LET w == Head(sq[r])
    IN /\ Ready(r)
       /\ w.op = "READ"
       /\ SetHead(r, [w EXCEPT !.data = Load(mem[Peer(r)], w.raddr, w.len),
                               !.st = "acked"])
       /\ UNCHANGED <<mem, srq, send_cq, recv_cq, lost, order, up>>

\* The acknowledgement (the data of a read with it) arrives: completion.
Ack(r) ==
    LET w == Head(sq[r])
    IN /\ HeadIs(r, "acked")
       /\ mem' = IF w.op = "READ"
                   THEN [mem EXCEPT ![r] = Store(@, w.buf, w.data)] ELSE mem
       /\ Finish(r, "SUCCESS")
       /\ UNCHANGED <<srq, recv_cq, lost, order, up>>

\* The acknowledgement is lost.
LoseAck(r) ==
    /\ HeadIs(r, "acked")
    /\ lost < MaxLost
    /\ lost' = lost + 1
    /\ SetHead(r, [Head(sq[r]) EXCEPT !.st = "unacked"])
    /\ UNCHANGED <<mem, srq, send_cq, recv_cq, order, up>>

\* After the timeout the request is sent again.  The peer's adapter knows the
\* sequence number: it acknowledges a duplicate without executing it, except
\* a read, which it executes again.
Retransmit(r) ==
    LET w == Head(sq[r])
    IN /\ HeadIs(r, "unacked")
       /\ Peer(r) \in up
       /\ SetHead(r, [w EXCEPT !.st = IF w.op = "READ" THEN "posted" ELSE "acked"])
       /\ UNCHANGED <<mem, srq, send_cq, recv_cq, lost, order, up>>

\* The request fails: it is refused, or nobody answers any more and the
\* retries are used up.
Fail(r) ==
    /\ \/ HeadIs(r, "posted") /\ Refused(r, Head(sq[r]))
       \/ HeadIs(r, "posted") /\ Peer(r) \notin up
       \/ HeadIs(r, "unacked") /\ Peer(r) \notin up
    /\ Finish(r, "ERROR")
    /\ UNCHANGED <<mem, srq, recv_cq, lost, order, up>>

\* What the adapters do on their own for the work requests of rank r.
Adapter(r) ==
    Deliver(r) \/ Place(r) \/ Respond(r) \/ Ack(r) \/ Retransmit(r) \/ Fail(r)
============================================================================
