------------------------------- MODULE PmiMpi -------------------------------
(***************************************************************************)
(* pmi_wrapper_mpi.c: the process manager interface on top of MPI.  What a *)
(* rank publishes stays in its l_archive until lcm_pm_barrier exchanges    *)
(* the archives of all ranks: one MPI_Allgather of the counts, then one    *)
(* MPI_Allgatherv of the entries, which every rank appends to its          *)
(* g_archive.  A collective call is external: a rank enters it with its    *)
(* contribution and leaves it once every rank has entered it; a fast rank  *)
(* may then enter the next one while a slow one is still in the last.      *)
(***************************************************************************)
EXTENDS Integers, Sequences, SequencesExt, FiniteSets

CONSTANT NRanks  \* lcm_pm_get_size()

ASSUME NRanksAssumption == NRanks \in Nat \ {0}

Ranks == 0 .. NRanks - 1

VARIABLES l_archive,  \* l_archive[r]: what rank r published since its last barrier
          g_archive,  \* g_archive[r]: what it got from all ranks
          coll,       \* coll[r]: its contributions to the collective calls so far
          at,         \* at[r]: outside the barrier or in which of its two calls
          count_buf,  \* count_buf[r][q]: entries rank r expects from rank q
          pub         \* a ghost: every entry published, with the barrier it is due at

pmVars == <<l_archive, g_archive, coll, at, count_buf, pub>>

PmInit ==
    /\ l_archive = [r \in Ranks |-> <<>>]
    /\ g_archive = [r \in Ranks |-> <<>>]
    /\ coll = [r \in Ranks |-> <<>>]
    /\ at = [r \in Ranks |-> "out"]
    /\ count_buf = [r \in Ranks |-> [q \in Ranks |-> 0]]
    /\ pub = {}

\* The barriers rank r has entered, and left: two collective calls each.
Entered(r) == (Len(coll[r]) + 1) \div 2
Left(r) == IF at[r] = "out" THEN Entered(r) ELSE Entered(r) - 1

\* lcm_pm_publish: archive_push(&l_archive, key, value)
publish(r, key, value) ==
    /\ at[r] = "out"
    /\ l_archive' = [l_archive EXCEPT ![r] = Append(@, [key |-> key, value |-> value])]
    /\ pub' = pub \cup {[key |-> key, value |-> value, due |-> Entered(r) + 1]}
    /\ UNCHANGED <<g_archive, coll, at, count_buf>>

\* archive_search: the index of the first entry with the key, 0 if there is
\* none.
Found(r, key) == SelectInSeq(g_archive[r], LAMBDA e : e.key = key)
HasName(r, key) == Found(r, key) # 0
getname(r, key) == g_archive[r][Found(r, key)].value

\* Rank r has entered the collective call with this contribution.
Contribute(r, data) == coll' = [coll EXCEPT ![r] = Append(@, data)]

\* Every rank has entered the collective call rank r is in.
AllEntered(r) == \A q \in Ranks : Len(coll[q]) >= Len(coll[r])

\* What rank q contributed to the collective call rank r is in.
From(r, q) == coll[q][Len(coll[r])]

\* Mutant: a rank with nothing to send does not take part.
SilentEnter(r) ==
    /\ at[r] = "out"
    /\ l_archive[r] # <<>>
    /\ at' = [at EXCEPT ![r] = "counts"]
    /\ Contribute(r, Len(l_archive[r]))
    /\ UNCHANGED <<l_archive, g_archive, count_buf, pub>>

\* lcm_pm_barrier: it enters MPI_Allgather with its count ...
BarrierEnter(r) ==
    /\ at[r] = "out"
    /\ at' = [at EXCEPT ![r] = "counts"]
    /\ Contribute(r, Len(l_archive[r]))
    /\ UNCHANGED <<l_archive, g_archive, count_buf, pub>>

\* ... leaves it, assembles its entries and enters MPI_Allgatherv ...
BarrierCounts(r) ==
    /\ at[r] = "counts"
    /\ AllEntered(r)
    /\ at' = [at EXCEPT ![r] = "data"]
    /\ count_buf' = [count_buf EXCEPT ![r] = [q \in Ranks |-> From(r, q)]]
    /\ Contribute(r, l_archive[r])
    /\ UNCHANGED <<l_archive, g_archive, pub>>

\* Mutant: the entries of the other ranks replace the ones got before.
ReplaceGlobal(r, dst) == dst

\* The entries received are pushed to g_archive.
PushGlobal(r, dst) == g_archive[r] \o dst

\* Mutant: l_archive is not cleared, its entries are sent again.
KeepLocal(r) == l_archive[r]

\* archive_clear(&l_archive)
ClearLocal(r) == <<>>

\* ... leaves it with the entries of all ranks, in the order of the ranks.
BarrierData(r) ==
    /\ at[r] = "data"
    /\ AllEntered(r)
    /\ at' = [at EXCEPT ![r] = "out"]
    /\ LET dst == FlattenSeq([q \in 1 .. NRanks |->
                                 SubSeq(From(r, q - 1), 1, count_buf[r][q - 1])])
       IN g_archive' = [g_archive EXCEPT ![r] = PushGlobal(r, dst)]
    /\ l_archive' = [l_archive EXCEPT ![r] = ClearLocal(r)]
    /\ UNCHANGED <<coll, count_buf, pub>>

InBarrier(r) == BarrierCounts(r) \/ BarrierData(r)

----------------------------------------------------------------------------
\* A rank that has left a barrier finds the value of every key that any rank
\* published before it entered that barrier.
PublishedIsFound ==
    \A r \in Ranks : \A p \in pub :
        p.due <= Left(r) => HasName(r, p.key) /\ getname(r, p.key) = p.value

\* Each entry is delivered once, however many barriers follow.
DeliveredOnce ==
    \A r \in Ranks : Len(g_archive[r]) = Cardinality({p \in pub : p.due <= Left(r)})
============================================================================
