----------------------------- MODULE Benchmarks -----------------------------
(***************************************************************************)
(* The seven InfiniBand benchmarks, two processes each: a behaviour is a   *)
(* run of one of them.  They share the Device, the adapters and the driver *)
(* and are held to the same promises; this module states these for all of  *)
(* them.                                                                   *)
(***************************************************************************)
EXTENDS Rendezvous

CONSTANTS Programs,   \* the benchmarks to run
          CacheLine,  \* CACHE_LINE_SIZE, in cells
          MaxMsg,     \* max_msg_size
          RdvMaxMsg,  \* max_msg_size of the rendezvous benchmarks
          InlineSize  \* inline_size

ASSUME ProgramsAssumption ==
    /\ Programs \subseteq {"sendrecv", "write", "write_imm", "read",
                           "rdv_write", "rdv_write_imm", "rdv_read"}
    /\ CacheLine \in Nat \ {0}
    /\ {MaxMsg, RdvMaxMsg, InlineSize} \subseteq Nat
    /\ MinMsg <= MaxMsg /\ MinMsg <= RdvMaxMsg

VARIABLE bench  \* the benchmark that runs

allVars == <<vars, archiveVars, bench>>

SR == INSTANCE SendRecv
W == INSTANCE Write
WI == INSTANCE WriteImm
RD == INSTANCE Read

\* The benchmarks with an option -i (inline_size); the others leave it at 0.
InlinePrograms == {"sendrecv", "write", "write_imm"}
RdvPrograms == {"rdv_write", "rdv_write_imm", "rdv_read"}

Init ==
    /\ bench \in Programs
    /\ config \in [touch_data : BOOLEAN,
                   max_msg_size : IF bench \in RdvPrograms THEN {RdvMaxMsg}
                                  ELSE IF bench = "read" THEN {MinMsg, MaxMsg} ELSE {MaxMsg},
                   inline_size : {IF bench \in InlinePrograms THEN InlineSize ELSE 0}]
    /\ HeapInit
    /\ RWI!ArchiveInit
    /\ \/ bench = "sendrecv" /\ SR!Init
       \/ bench = "write" /\ W!Init
       \/ bench = "write_imm" /\ WI!Init
       \/ bench = "read" /\ RD!Init
       \/ bench = "rdv_write" /\ RW!Init
       \/ bench = "rdv_write_imm" /\ RWI!Init
       \/ bench = "rdv_read" /\ RR!Init
    \* Only RDMA WRITE without immediate is placed cell by cell.
    /\ bench \in {"write", "rdv_write"} \/ order = "ascending"

\* What rank r does next.
RankStep(r) ==
    /\ \/ /\ \/ bench = "sendrecv" /\ SR!RankStep(r)
             \/ bench = "write" /\ W!RankStep(r)
             \/ bench = "write_imm" /\ WI!RankStep(r)
             \/ bench = "read" /\ RD!RankStep(r)
          /\ UNCHANGED archiveVars
       \/ /\ \/ bench = "rdv_write" /\ RW!RankStep(r)
             \/ bench = "rdv_read" /\ RR!RankStep(r)
          /\ UNCHANGED recv_ctx_archive
       \/ bench = "rdv_write_imm" /\ RWI!RankStep(r)
    /\ UNCHANGED bench

\* What the adapters do for the requests of rank r.
AdapterWork(r) ==
    AdapterStep(r) /\ UNCHANGED <<archiveVars, bench>>

Loss(r) == LossStep(r) /\ UNCHANGED <<archiveVars, bench>>

\* A region of max_msg_size that is smaller than a signal of the read benchmark.
SignalTooLong == bench = "read" /\ max_msg_size < CacheLine

\* Nobody has anything left to do: also rank 0 of a read benchmark whose start
\* signal will never come.
Terminating == (AllOver \/ (SignalTooLong /\ Aborted(1))) /\ UNCHANGED allVars

Next ==
    \/ \E r \in Ranks : RankStep(r) \/ AdapterWork(r) \/ Loss(r)
    \/ Terminating

\* A process that can run runs, and the adapters make progress on their own;
\* nothing forces an acknowledgement to be lost.
Spec == /\ Init /\ [][Next]_allVars
        /\ \A r \in Ranks : WF_allVars(RankStep(r)) /\ WF_allVars(AdapterWork(r))

----------------------------------------------------------------------------
\* Where run ends with a barrier, no MLOG_Assert and no check_buffer fails and
\* no freed context is used.  Where it does not (ibv::finalize waits for
\* nobody), a rank aborts only in the last call and when its peer has left
\* already.  The read benchmark with a region smaller than its signals never
\* gets further than the first of them: rank 1's start signal fails, rank 0
\* waits.
AbortsExplained ==
    /\ bench \in {"write", "write_imm", "read"} => NoAbort \/ SignalTooLong
    /\ SignalTooLong => \A r \in Ranks : Aborted(r) => r = 1 /\ pc[1] = "poll_start"
    /\ bench \in {"sendrecv", "rdv_write", "rdv_write_imm", "rdv_read"} =>
           AbortOnlyAfterPeerExit

\* The data a rank is about to check is all there and is what its peer wrote
\* in the same call.  check_buffer cannot tell: every call sends the same
\* letter.  The buffer may be posted again already, may be written by the peer
\* unasked, or two bytes of it may be all the receiver has looked at.
FreshData ==
    /\ bench = "sendrecv" => SR!FreshData
    /\ bench = "write" => W!FreshData
    /\ bench = "write_imm" => WI!FreshData
    /\ bench = "read" => RD!FreshData
    /\ bench = "rdv_write" => RW!FreshData
    /\ bench = "rdv_write_imm" => RWI!FreshData
    /\ bench = "rdv_read" => RR!FreshData

\* A rank of ibv_pingpong_write.cpp that sets its own letter in the buffer it
\* polls does not wipe out data: no write of the peer is under way.
ResetIsSafe == bench = "write" => W!ResetIsSafe

\* All control messages of a rendezvous arrive in one cache line, and a
\* receive for the next one is posted before a handler looks at it.  Still
\* each handler works on the message, or the context, of the peer's current
\* call.
HandlersFindTheirs ==
    /\ bench = "rdv_write" => RW!ControlIntact
    /\ bench = "rdv_write_imm" => RWI!ControlIntact
    /\ bench = "rdv_read" => RR!ControlIntact /\ RR!FreesRightContext

\* The contexts a call of a rendezvous allocates on either side are freed by
\* its end, and the archive holds the live receive contexts and no other.
ContextsAccounted ==
    /\ bench = "rdv_write" => RW!NoLeak
    /\ bench = "rdv_write_imm" => RWI!NoLeak /\ RWI!ArchiveHoldsRecvCtx
    /\ bench = "rdv_read" => RR!NoLeak

\* Memory does not change while the peer's RDMA READ of it is outstanding, the
\* repetition of a read after a lost answer included.
SourceStable ==
    [][ /\ bench = "read" => RD!SourceKept
        /\ bench = "rdv_read" => RR!SourceKept ]_allVars

\* The messages sent and received so far; ibv_pingpong_read.cpp exchanges none.
Sent(r) ==
    CASE bench = "sendrecv" -> SR!Sent(r) [] bench = "write" -> W!Sent(r)
      [] bench = "write_imm" -> WI!Sent(r) [] bench = "read" -> 0
      [] bench = "rdv_write" -> RW!Sent(r) [] bench = "rdv_write_imm" -> RWI!Sent(r)
      [] bench = "rdv_read" -> RR!Sent(r)
Got(r) ==
    CASE bench = "sendrecv" -> SR!Got(r) [] bench = "write" -> W!Got(r)
      [] bench = "write_imm" -> WI!Got(r) [] bench = "read" -> 0
      [] bench = "rdv_write" -> RW!Got(r) [] bench = "rdv_write_imm" -> RWI!Got(r)
      [] bench = "rdv_read" -> RR!Got(r)

Abstract == INSTANCE PingPong WITH
    sent <- [r \in Ranks |-> Sent(r)],
    got <- [r \in Ranks |-> Got(r)]

\* The two lambdas of a benchmark together are a ping-pong: one message in
\* flight at a time, each received once and before it is answered.
IsPingPong == Abstract!Spec

\* Both processes end: no rank waits for ever for a message, a completion, a
\* posted receive or a barrier; but see SignalTooLong.
Terminates == <>(up = {} \/ SignalTooLong)
============================================================================
