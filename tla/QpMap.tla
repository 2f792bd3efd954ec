------------------------------- MODULE QpMap -------------------------------
(***************************************************************************)
(* The table qp2rank of a Device: the last part of init (ibv_common.hpp).  *)
(* A completion carries the number of the local queue pair it arrived on;  *)
(* the rendezvous handlers turn it into the peer's rank with               *)
(*    device->qp2rank[wc.qp_num % device->qp2rank_mod].                    *)
(* init searches for the smallest modulus, starting at nranks, that gives  *)
(* the numbers of the nranks queue pairs different remainders, then fills  *)
(* a table of that size.  One step of the module is one iteration of a     *)
(* loop of the code.                                                       *)
(***************************************************************************)
EXTENDS Integers

CONSTANTS NRanks,   \* nranks, the number of processes of the job
          QpBound,  \* every queue pair number is below it (24 bits in ibv)
          JMax      \* INT32_MAX, where the search gives up

ASSUME QpMapAssumption ==
    /\ NRanks \in Nat \ {0}
    /\ QpBound \in Nat \ {0}
    /\ JMax \in Nat
    /\ NRanks < JMax /\ QpBound < JMax

VARIABLES qp_num,      \* qp_num[r] = device->qps[r]->qp_num
          pc,          \* which loop of the code runs
          j,           \* the modulus under trial
          b,           \* the table under construction, of size j
          i,           \* the loop counter
          qp2rank_mod, \* the Device's fields, set at the end
          qp2rank

vars == <<qp_num, pc, j, b, i, qp2rank_mod, qp2rank>>

Ranks == 0 .. NRanks - 1

\* The index of a queue pair number in a table of size m.
Slot(q, m) == q % m

NoTable == [k \in {} |-> 0]

\* Mutant: malloc in place of calloc, what the table holds is left over.
UnclearedTable(m) == [k \in 0 .. m - 1 |-> 1]

\* calloc(m, sizeof(int))
NewTable(m) == [k \in 0 .. m - 1 |-> 0]

\* Mutant: the marks are never looked at.
NeverTaken(k) == FALSE

\* if (b[k])
Taken(k) == b[k] # 0

\* Mutants: the modulus is incremented twice; it is not incremented.
SkipModulus(m) == m + 2
SameModulus(m) == m

\* j++
NextModulus(m) == m + 1

Init ==
    /\ qp_num \in [Ranks -> 0 .. QpBound - 1]
    /\ \A r, s \in Ranks : qp_num[r] = qp_num[s] => r = s
    /\ pc = "alloc"
    /\ j = NRanks
    /\ b = NoTable
    /\ i = 0
    /\ qp2rank_mod = 0
    /\ qp2rank = NoTable

\* Head of the search: while (j < INT32_MAX) b = calloc(j).  The assertion
\* after the loop aborts when the search gave up.
Alloc ==
    /\ pc = "alloc"
    /\ IF j < JMax
         THEN /\ pc' = "probe"
              /\ b' = NewTable(j)
              /\ i' = 0
         ELSE /\ pc' = "aborted"
              /\ UNCHANGED <<b, i>>
    /\ UNCHANGED <<qp_num, j, qp2rank_mod, qp2rank>>

\* One iteration of the inner loop whose slot is free: claim it.
Claim ==
    /\ pc = "probe"
    /\ i < NRanks
    /\ ~ Taken(Slot(qp_num[i], j))
    /\ b' = [b EXCEPT ![Slot(qp_num[i], j)] = 1]
    /\ i' = i + 1
    /\ UNCHANGED <<qp_num, pc, j, qp2rank_mod, qp2rank>>

\* The slot is taken: break, try the next modulus with a fresh table.
Collide ==
    /\ pc = "probe"
    /\ i < NRanks
    /\ Taken(Slot(qp_num[i], j))
    /\ j' = NextModulus(j)
    /\ pc' = "alloc"
    /\ b' = NoTable
    /\ UNCHANGED <<qp_num, i, qp2rank_mod, qp2rank>>

\* All queue pairs found a slot: leave the search, start filling the table.
Found ==
    /\ pc = "probe"
    /\ i = NRanks
    /\ pc' = "fill"
    /\ i' = 0
    /\ UNCHANGED <<qp_num, j, b, qp2rank_mod, qp2rank>>

\* One iteration of the filling loop.
Fill ==
    /\ pc = "fill"
    /\ i < NRanks
    /\ b' = [b EXCEPT ![Slot(qp_num[i], j)] = i]
    /\ i' = i + 1
    /\ UNCHANGED <<qp_num, pc, j, qp2rank_mod, qp2rank>>

\* The table becomes the Device's.
Store ==
    /\ pc = "fill"
    /\ i = NRanks
    /\ qp2rank_mod' = j
    /\ qp2rank' = b
    /\ pc' = "done"
    /\ UNCHANGED <<qp_num, j, b, i>>

Terminating ==
    /\ pc \in {"done", "aborted"}
    /\ UNCHANGED vars

Next == Alloc \/ Claim \/ Collide \/ Found \/ Fill \/ Store \/ Terminating

Spec == Init /\ [][Next]_vars /\ WF_vars(Next)

\* What the rendezvous handlers compute from a completion's qp_num.
RankOf(q) == qp2rank[Slot(q, qp2rank_mod)]

----------------------------------------------------------------------------

\* The queue pairs have different remainders modulo m.
Separates(m) ==
    \A r, s \in Ranks : Slot(qp_num[r], m) = Slot(qp_num[s], m) => r = s

\* Type correctness of init's local variables and of the fields it sets.
TypeOK ==
    /\ qp_num \in [Ranks -> 0 .. QpBound - 1]
    /\ pc \in {"alloc", "probe", "fill", "done", "aborted"}
    /\ j \in NRanks .. JMax
    /\ i \in 0 .. NRanks
    /\ pc \in {"probe", "fill", "done"} => b \in [0 .. j - 1 -> 0 .. NRanks]
    /\ pc = "done" => qp2rank_mod = j /\ qp2rank = b

\* The lookup of every rendezvous handler is right: once init is done, the
\* number of each local queue pair leads back to the rank it connects to, and
\* no lookup leaves the table.
LookupCorrect ==
    pc = "done" => \A r \in Ranks : RankOf(qp_num[r]) = r

\* The search keeps the table as small as it can: no modulus it passed over
\* would have separated the queue pairs (an overwritten or stale mark in b
\* would show here, at the cost of memory only).
SmallestModulus ==
    pc = "done" => \A m \in NRanks .. qp2rank_mod - 1 : ~ Separates(m)

\* MLOG_Assert(j != INT32_MAX) never fails: queue pair numbers are distinct
\* and below INT32_MAX, so the search stops at the largest number plus one at
\* the latest.
SearchSucceeds == pc # "aborted"

\* init gets past the search.
Terminates == <>(pc = "done")
============================================================================
