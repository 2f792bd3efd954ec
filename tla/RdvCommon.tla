------------------------------ MODULE RdvCommon ------------------------------
(***************************************************************************)
(* What the three rendezvous benchmarks have in common: contexts on the    *)
(* heap whose addresses travel in control messages, one cache line of the  *)
(* memory region for each kind of control message, and one for ALL the     *)
(* control messages that arrive.  A cache line is one cell.                *)
(***************************************************************************)
EXTENDS BenchCommon

CONSTANT Ctx  \* the addresses malloc returns

VARIABLES heap,  \* heap[r]: the live contexts of rank r and their fields
          wc     \* wc[r]: the receive completion rank r handles

rdvVars == <<heap, wc>>

\* No context has been allocated, no completion taken.
HeapInit ==
    /\ heap = [r \in Ranks |-> [c \in {} |-> 0]]
    /\ wc = [r \in Ranks |-> [imm |-> "none", opcode |-> "none", wr_id |-> 0]]

RdvInit(mr_size) == BenchInit("setup", mr_size) /\ HeapInit

\* A context is allocated at an address not in use.
Live(r, c) == c \in DOMAIN heap[r]
Malloc(r, c, fields) ==
    /\ ~ Live(r, c)
    /\ heap' = [heap EXCEPT ![r] =
           [x \in DOMAIN @ \cup {c} |-> IF x = c THEN fields ELSE @[x]]]

\* delete ctx
Free(r, c) == heap' = [heap EXCEPT ![r] = [x \in DOMAIN @ \ {c} |-> @[x]]]

RdvAbort(r) == Abort(r) /\ UNCHANGED rdvVars

\* Rank r writes msg to its cache line for such messages and posts it.
PostControl(r, line, msg, imm, wr_id) ==
    /\ mem' = [mem EXCEPT ![r][line] = msg]
    /\ postSendImm(r, line, 1, imm, wr_id)

\* write_buffer of the payload
FillSendBuf(r, buf, body) ==
    /\ write_buffer(r, buf, call[r].size)
    /\ Proceed(r, body)
    /\ UNCHANGED sq /\ UnchangedByPost /\ UNCHANGED rdvVars

\* wc = pollRecvCQ(device); the receives go to the control line again.
TakeRecv(r, opcodes, line, body) ==
    /\ recv_cq[r] # <<>>
    /\ LET c == Head(recv_cq[r])
       IN IF c.status = "SUCCESS" /\ c.opcode \in opcodes
               /\ CanPostRecvs(r, posted_recv_num[r] - 1)
            THEN /\ pollRecvCQ(r, line, 1)
                 /\ wc' = [wc EXCEPT ![r] = c]
                 /\ Proceed(r, body)
                 /\ UNCHANGED <<mem, sq, send_cq, lost, order, up, config, bar, heap>>
            ELSE RdvAbort(r)

\* The message the handler finds at wc.wr_id; its fields make sense only if
\* it is of the expected kind.
Received(r) == mem[r][wc[r].wr_id]

UnchangedByHandler ==
    UNCHANGED <<srq, recv_cq, lost, order, up, posted_recv_num, config, bar, wc>>

Halves(r, sender, receiver) == IF r = 0 THEN sender \o receiver ELSE receiver \o sender
============================================================================
