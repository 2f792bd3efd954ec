------------------------------ MODULE Bootstrap ------------------------------
(***************************************************************************)
(* ibv::init: every rank creates a queue pair for every rank, publishes    *)
(* where it can be reached, and after a barrier connects each queue pair   *)
(* to the one its peer created for it.  A second barrier keeps a rank from *)
(* sending to a queue pair that is not connected yet.  The names travel    *)
(* through PmiMpi.  An endpoint name is printed and scanned with formats   *)
(* as wide as its fields (%lx, %x, %x, %hx), so that scanning gives back   *)
(* the fields: it is a record.                                             *)
(***************************************************************************)
EXTENDS PmiMpi

CONSTANT QpNums  \* the queue pair numbers an adapter gives out

ASSUME QpNumsAssumption == IsFiniteSet(QpNums) /\ Cardinality(QpNums) >= NRanks

VARIABLES pc,    \* pc[r]: the phase of init rank r is in
          i,     \* i[r]: the loop index
          qps,   \* qps[r][p]: the queue pair of rank r for rank p
          rmrs   \* rmrs[r][p]: the address of rank p's memory region

bootVars == <<pc, i, qps, rmrs>>
vars == <<pmVars, bootVars>>

NoQp == [qp_num |-> 0, state |-> "none", dest_qp_num |-> 0, dest_lid |-> 0]

Init ==
    /\ PmInit
    /\ pc = [r \in Ranks |-> "create"]
    /\ i = [r \in Ranks |-> 0]
    /\ qps = [r \in Ranks |-> [p \in Ranks |-> NoQp]]
    /\ rmrs = [r \in Ranks |-> [p \in Ranks |-> -1]]

\* "ibvBench_<rank>_<i>": published by rank for its peer i.
Key(rank, p) == <<rank, p>>

\* The condition of both loops over the ranks.
MoreRanks(r) == i[r] < NRanks

\* One iteration of the first loop: a new queue pair, in state INIT, and its
\* name; the address and the lid stand for the rank they belong to.
CreateQp(r) ==
    /\ pc[r] = "create"
    /\ MoreRanks(r)
    /\ \E n \in QpNums \ {qps[r][p].qp_num : p \in Ranks} :
         /\ qps' = [qps EXCEPT ![r][i[r]] = [NoQp EXCEPT !.qp_num = n, !.state = "INIT"]]
         /\ publish(r, Key(r, i[r]), [mr_addr |-> r, qp_num |-> n, lid |-> r])
    /\ i' = [i EXCEPT ![r] = @ + 1]
    /\ UNCHANGED <<pc, rmrs>>

\* lcm_pm_barrier() between two phases.
Barrier(r, before, during) ==
    /\ pc[r] = before
    /\ i[r] = NRanks
    /\ BarrierEnter(r)
    /\ pc' = [pc EXCEPT ![r] = during]
    /\ UNCHANGED <<i, qps, rmrs>>

\* A step of rank r inside lcm_pm_barrier(); the next phase begins after it.
BarrierStep(r, during, after) ==
    /\ pc[r] = during
    /\ InBarrier(r)
    /\ IF at'[r] = "out"
         THEN pc' = [pc EXCEPT ![r] = after] /\ i' = [i EXCEPT ![r] = 0]
         ELSE UNCHANGED <<pc, i>>
    /\ UNCHANGED <<qps, rmrs>>

PublishedBarrier(r) == Barrier(r, "create", "publishing")
PublishedBarrierStep(r) == BarrierStep(r, "publishing", "connect")

\* Mutant: the rank looks for the name it published itself.
OwnKey(r, p) == Key(r, p)

\* The name the peer published for this rank.
PeerKey(r, p) == Key(p, r)

\* One iteration of the second loop: look the peer's name up (the program
\* crashes if it is not there), go to RTR and to RTS.
ConnectQp(r) ==
    /\ pc[r] = "connect"
    /\ MoreRanks(r)
    /\ LET key == PeerKey(r, i[r])
       IN IF HasName(r, key)
            THEN LET ep == getname(r, key)
                 IN /\ qps' = [qps EXCEPT ![r][i[r]] =
                                  [@ EXCEPT !.state = "RTS", !.dest_qp_num = ep.qp_num,
                                            !.dest_lid = ep.lid]]
                    /\ rmrs' = [rmrs EXCEPT ![r][i[r]] = ep.mr_addr]
                    /\ i' = [i EXCEPT ![r] = @ + 1]
                    /\ UNCHANGED pc
            ELSE /\ pc' = [pc EXCEPT ![r] = "crashed"]
                 /\ UNCHANGED <<i, qps, rmrs>>
    /\ UNCHANGED pmVars

\* Mutant: init returns without the second barrier.
ReturnAtOnce(r) ==
    /\ pc[r] = "connect"
    /\ i[r] = NRanks
    /\ pc' = [pc EXCEPT ![r] = "done"]
    /\ UNCHANGED <<pmVars, i, qps, rmrs>>

\* The qp2rank map is built (QpMap), then the second barrier is entered.
ConnectedBarrier(r) == Barrier(r, "connect", "connecting")
ConnectedBarrierStep(r) == BarrierStep(r, "connecting", "done")

RankStep(r) ==
    \/ CreateQp(r) \/ PublishedBarrier(r) \/ PublishedBarrierStep(r)
    \/ ConnectQp(r) \/ ConnectedBarrier(r) \/ ConnectedBarrierStep(r)

Terminating == (\A r \in Ranks : pc[r] = "done") /\ UNCHANGED vars

Next == (\E r \in Ranks : RankStep(r)) \/ Terminating

\* Every rank keeps running.
Spec == Init /\ [][Next]_vars /\ \A r \in Ranks : WF_vars(RankStep(r))

----------------------------------------------------------------------------
\* A rank that has connected a queue pair has connected it to the one its
\* peer created for it, and will write to that peer's memory.
Wired ==
    \A r, p \in Ranks : qps[r][p].state = "RTS" =>
        /\ qps[r][p].dest_qp_num = qps[p][r].qp_num
        /\ qps[r][p].dest_lid = p
        /\ rmrs[r][p] = p

\* Once init has returned on one rank, every queue pair of every rank is
\* connected: the first message finds a peer that can receive it.
ReadyToReceive ==
    (\E r \in Ranks : pc[r] = "done") => \A r, p \in Ranks : qps[r][p].state = "RTS"

\* init returns on every rank; in particular lcm_pm_getname never looks for a
\* name that is not there, where it would copy from a null pointer.
InitReturns == <>(\A r \in Ranks : pc[r] = "done")
============================================================================
