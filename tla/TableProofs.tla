---------------------------- MODULE TableProofs ----------------------------
(***************************************************************************)
(* The two tables of the library, correct for all their sizes.             *)
(*                                                                         *)
(* The table qp2rank, for every number of ranks and every choice of        *)
(* distinct queue pair numbers.  The lookup's correctness is not           *)
(* inductive: while the table is filled, an entry written early must       *)
(* survive the later writes, which follows from the modulus separating ALL *)
(* the queue pairs; that in turn needs the meaning of the marks in b       *)
(* during the search.                                                      *)
(*                                                                         *)
(* The archive without locks, for every number of threads and every set of *)
(* addresses.  KeyLeadsBack is not inductive: a remove empties an entry    *)
(* some steps after it was called, so the entry of a removing thread must  *)
(* be its own (Removing), and a put must store the address its caller gave *)
(* (Putting).                                                              *)
(***************************************************************************)
EXTENDS QpMap, LcmArchive, TLAPS

\* A mark in b says that one of the queue pairs tried so far has the slot,
\* and these have pairwise different slots.
Marks ==
    pc = "probe" =>
        /\ \A k \in 0 .. j - 1 :
             b[k] # 0 <=> \E r \in 0 .. i - 1 : Slot(qp_num[r], j) = k
        /\ \A r, s \in 0 .. i - 1 :
             Slot(qp_num[r], j) = Slot(qp_num[s], j) => r = s

\* While the table is filled the modulus separates all queue pairs and the
\* entries written so far are right.
Filled ==
    pc \in {"fill", "done"} =>
        /\ Separates(j)
        /\ \A r \in 0 .. i - 1 : b[Slot(qp_num[r], j)] = r
        /\ pc = "done" => i = NRanks

\* The queue pairs are distinct; the search has not passed the bound, and no
\* modulus it passed over separates them.
Search ==
    /\ \A r, s \in Ranks : qp_num[r] = qp_num[s] => r = s
    /\ j <= NRanks \/ j <= QpBound
    /\ \A m \in NRanks .. j - 1 : ~ Separates(m)
    /\ pc # "aborted"

\* The inductive invariant.
IInv == TypeOK /\ Marks /\ Filled /\ Search

----------------------------------------------------------------------------

\* The slot of a queue pair number lies inside a table of size m.
LEMMA SlotInTable ==
    ASSUME NEW q \in Nat, NEW m \in Nat \ {0}
    PROVE  Slot(q, m) \in 0 .. m - 1
BY DEF Slot

\* A number below the modulus is its own slot.
LEMMA SlotOfSmall ==
    ASSUME NEW q \in Nat, NEW m \in Nat \ {0}, q < m
    PROVE  Slot(q, m) = q
BY DEF Slot

\* The slots of the job's queue pairs lie inside every table tried.
LEMMA SlotsInTable ==
    ASSUME TypeOK, NEW r \in Ranks
    PROVE  /\ qp_num[r] \in Nat
           /\ Slot(qp_num[r], j) \in 0 .. j - 1
<1>1. qp_num[r] \in Nat /\ j \in Nat \ {0}
  BY QpMapAssumption DEF TypeOK
<1> QED  BY <1>1, SlotInTable

\* A modulus at least as large as every queue pair number separates them.
LEMMA LargeSeparates ==
    ASSUME TypeOK, Search, QpBound <= j
    PROVE  Separates(j)
<1>1. ASSUME NEW r \in Ranks  PROVE Slot(qp_num[r], j) = qp_num[r]
  <2>1. qp_num[r] \in Nat /\ qp_num[r] < j /\ j \in Nat \ {0}
    BY QpMapAssumption DEF TypeOK
  <2> QED  BY <2>1, SlotOfSmall
<1> QED  BY <1>1 DEF Separates, Search

\* The invariant holds when the search starts.
LEMMA InitInvariant == Init => IInv
BY QpMapAssumption DEF Init, IInv, TypeOK, Marks, Filled, Search, Ranks

\* Every iteration of a loop of init preserves the invariant.
LEMMA StepInvariant == IInv /\ [Next]_vars => IInv'
<1> SUFFICES ASSUME IInv, [Next]_vars  PROVE IInv'
  OBVIOUS
<1> USE QpMapAssumption
<1>a. TypeOK /\ Marks /\ Filled /\ Search
  BY DEF IInv
<1>1. CASE Alloc
  <2>1. j < JMax
    BY <1>a DEF TypeOK, Search
  <2>2. /\ pc' = "probe" /\ b' = [k \in 0 .. j - 1 |-> 0] /\ i' = 0
        /\ j' = j /\ qp_num' = qp_num
    BY <1>1, <2>1 DEF Alloc, NewTable
  <2>3. TypeOK'
    BY <1>a, <2>2 DEF TypeOK, Ranks
  <2>4. Marks'
    BY <1>a, <2>2 DEF TypeOK, Marks
  <2>5. Filled' /\ Search'
    BY <1>a, <2>2 DEF TypeOK, Filled, Search, Separates
  <2> QED  BY <2>3, <2>4, <2>5 DEF IInv
<1>2. CASE Claim
  <2> DEFINE k0 == Slot(qp_num[i], j)
  <2>1. /\ pc = "probe" /\ pc' = pc /\ i \in Ranks /\ i' = i + 1
        /\ b[k0] = 0 /\ b' = [b EXCEPT ![k0] = 1]
        /\ j' = j /\ qp_num' = qp_num
    BY <1>2, <1>a DEF Claim, Taken, TypeOK, Ranks
  <2>2. k0 \in 0 .. j - 1
    BY <2>1, <1>a, SlotsInTable
  <2>3. TypeOK'
    BY <1>a, <2>1, <2>2 DEF TypeOK, Ranks
  <2>4. Marks'
    <3> HIDE DEF k0
    <3>1. ASSUME NEW k \in 0 .. j - 1
          PROVE  b'[k] # 0 <=> \E r \in 0 .. i : Slot(qp_num[r], j) = k
      <4>1. CASE k = k0
        BY <4>1, <2>1, <2>2, <1>a DEF TypeOK, k0, Ranks
      <4>2. CASE k # k0
        <5>1. b'[k] = b[k]
          BY <4>2, <2>1, <2>2, <1>a DEF TypeOK
        <5>2. b[k] # 0 <=> \E r \in 0 .. i - 1 : Slot(qp_num[r], j) = k
          BY <2>1, <1>a DEF Marks
        <5>3. i \in Nat /\ Slot(qp_num[i], j) # k
          BY <4>2, <2>1 DEF k0, Ranks
        <5>4. (\E r \in 0 .. i - 1 : Slot(qp_num[r], j) = k)
              <=> (\E r \in 0 .. i : Slot(qp_num[r], j) = k)
          BY <5>3
        <5> QED  BY <5>1, <5>2, <5>4
      <4> QED  BY <4>1, <4>2
    <3>2. ASSUME NEW r \in 0 .. i - 1  PROVE Slot(qp_num[r], j) # k0
      <4>1. r \in Ranks
        BY <2>1 DEF Ranks
      <4>2. Slot(qp_num[r], j) \in 0 .. j - 1
        BY <4>1, <1>a, SlotsInTable
      <4>3. b[Slot(qp_num[r], j)] # 0
        BY <4>2, <2>1, <1>a DEF Marks
      <4> QED  BY <4>3, <2>1
    <3>3. ASSUME NEW r \in 0 .. i, NEW s \in 0 .. i,
                 Slot(qp_num[r], j) = Slot(qp_num[s], j)
          PROVE  r = s
      <4>1. i \in Nat
        BY <2>1 DEF Ranks
      <4>2. CASE r = i \/ s = i
        BY <3>2, <3>3, <4>1, <4>2 DEF k0
      <4>3. CASE r # i /\ s # i
        BY <3>3, <4>1, <4>3, <2>1, <1>a DEF Marks
      <4> QED  BY <4>2, <4>3
    <3>4. i' - 1 = i
      BY <2>1 DEF Ranks
    <3> QED  BY <3>1, <3>3, <3>4, <2>1 DEF Marks
  <2>5. Filled' /\ Search'
    BY <1>a, <2>1 DEF Filled, Search, Separates
  <2> QED  BY <2>3, <2>4, <2>5 DEF IInv
<1>3. CASE Collide
  <2>1. /\ pc = "probe" /\ pc' = "alloc" /\ i \in Ranks /\ i' = i
        /\ b[Slot(qp_num[i], j)] # 0
        /\ j' = j + 1 /\ qp_num' = qp_num
    BY <1>3, <1>a DEF Collide, Taken, NextModulus, TypeOK, Ranks
  <2>2. Slot(qp_num[i], j) \in 0 .. j - 1
    BY <2>1, <1>a, SlotsInTable
  <2>3. PICK r \in 0 .. i - 1 : Slot(qp_num[r], j) = Slot(qp_num[i], j)
    BY <2>1, <2>2, <1>a DEF Marks
  <2>4. ~ Separates(j)
    BY <2>1, <2>3 DEF Separates, Ranks
  <2>5. j < QpBound
    BY <2>4, <1>a, LargeSeparates DEF TypeOK
  <2>6. TypeOK'
    BY <1>a, <2>1, <2>5 DEF TypeOK, Ranks
  <2>7. Marks' /\ Filled'
    BY <2>1 DEF Marks, Filled
  <2>8. ASSUME NEW m \in NRanks .. j' - 1  PROVE ~ Separates(m)'
    <3>1. ~ Separates(m)
      BY <2>1, <2>4, <1>a DEF Search, TypeOK
    <3> QED  BY <3>1, <2>1 DEF Separates
  <2>9. Search'
    BY <1>a, <2>1, <2>5, <2>8 DEF Search, TypeOK
  <2> QED  BY <2>6, <2>7, <2>9 DEF IInv
<1>4. CASE Found
  <2>1. /\ pc = "probe" /\ pc' = "fill" /\ i = NRanks /\ i' = 0
        /\ b' = b /\ j' = j /\ qp_num' = qp_num
    BY <1>4 DEF Found
  <2>2. Separates(j)
    BY <2>1, <1>a DEF Marks, Separates, Ranks
  <2>3. TypeOK'
    BY <1>a, <2>1 DEF TypeOK, Ranks
  <2>4. Marks'
    BY <2>1 DEF Marks
  <2>5. Filled' /\ Search'
    BY <1>a, <2>1, <2>2 DEF Filled, Search, Separates
  <2> QED  BY <2>3, <2>4, <2>5 DEF IInv
<1>5. CASE Fill
  <2> DEFINE k0 == Slot(qp_num[i], j)
  <2>1. /\ pc = "fill" /\ pc' = pc /\ i \in Ranks /\ i' = i + 1
        /\ b' = [b EXCEPT ![k0] = i]
        /\ j' = j /\ qp_num' = qp_num
    BY <1>5, <1>a DEF Fill, TypeOK, Ranks
  <2>2. k0 \in 0 .. j - 1
    BY <2>1, <1>a, SlotsInTable
  <2>3. TypeOK'
    BY <1>a, <2>1, <2>2 DEF TypeOK, Ranks
  <2>4. Marks' /\ Search'
    BY <1>a, <2>1 DEF Marks, Search, Separates
  <2>5. ASSUME NEW r \in 0 .. i  PROVE b'[Slot(qp_num[r], j)] = r
    <3>1. r \in Ranks /\ i \in Nat
      BY <2>1 DEF Ranks
    <3>2. Slot(qp_num[r], j) \in 0 .. j - 1
      BY <3>1, <1>a, SlotsInTable
    <3>3. CASE r = i
      BY <3>3, <2>1, <2>2, <1>a DEF TypeOK
    <3>4. CASE r # i
      <4>1. Slot(qp_num[r], j) # k0
        BY <3>1, <3>4, <2>1, <1>a DEF Filled, Separates
      <4>2. b[Slot(qp_num[r], j)] = r
        BY <3>1, <3>4, <2>1, <1>a DEF Filled
      <4> HIDE DEF k0
      <4> QED  BY <4>1, <4>2, <3>2, <2>1, <2>2, <1>a DEF TypeOK
    <3> QED  BY <3>3, <3>4
  <2>6. Filled'
    <3>1. i' - 1 = i
      BY <2>1 DEF Ranks
    <3> QED  BY <1>a, <2>1, <2>5, <3>1 DEF Filled, Separates
  <2> QED  BY <2>3, <2>4, <2>6 DEF IInv
<1>6. CASE Store
  <2>1. TypeOK'
    BY <1>6, <1>a DEF Store, TypeOK, Ranks
  <2>2. Marks' /\ Filled' /\ Search'
    BY <1>6, <1>a DEF Store, Marks, Filled, Search, Separates
  <2> QED  BY <2>1, <2>2 DEF IInv
<1>7. CASE UNCHANGED vars
  BY <1>7, <1>a DEF vars, IInv, TypeOK, Marks, Filled, Search, Separates, Ranks
<1> QED
  BY <1>1, <1>2, <1>3, <1>4, <1>5, <1>6, <1>7 DEF Next, Terminating

\* The invariant holds throughout init's search.
THEOREM Invariance == Spec => []IInv
BY InitInvariant, StepInvariant, PTL DEF Spec

\* Type correctness: no index leaves the table under construction.
THEOREM TypeCorrect == Spec => []TypeOK
<1>1. IInv => TypeOK
  BY DEF IInv
<1> QED  BY <1>1, Invariance, PTL

\* For every number of ranks and every distinct queue pair numbers, the
\* handlers' lookup device->qp2rank[qp_num % mod] yields the right rank.
THEOREM LookupIsCorrect == Spec => []LookupCorrect
<1>1. IInv => LookupCorrect
  <2> SUFFICES ASSUME IInv, pc = "done", NEW r \in Ranks
               PROVE  RankOf(qp_num[r]) = r
    BY DEF LookupCorrect
  <2>1. qp2rank = b /\ qp2rank_mod = j /\ i = NRanks
    BY DEF IInv, TypeOK, Filled
  <2> QED  BY <2>1 DEF IInv, Filled, RankOf, Ranks
<1> QED  BY <1>1, Invariance, PTL

\* The table is as small as a modulus at least nranks allows.
THEOREM ModulusIsSmallest == Spec => []SmallestModulus
<1>1. IInv => SmallestModulus
  BY DEF IInv, TypeOK, Search, SmallestModulus
<1> QED  BY <1>1, Invariance, PTL

\* The assertion "Cannot find a suitable mod" never fails.
THEOREM SearchAlwaysSucceeds == Spec => []SearchSucceeds
<1>1. IInv => SearchSucceeds
  BY DEF IInv, Search, SearchSucceeds
<1> QED  BY <1>1, Invariance, PTL

----------------------------------------------------------------------------
\* The archive.

\* A put still has the address it was called with.
Putting ==
    \A t \in Threads : at[t] \in {"test", "cas"} => val[t] = own[t] /\ own[t] \in Values

\* Thread t is inside LCM_archive_remove.
InRemove(t) == at[t] \in {"read", "clear"}

\* The entry a thread removes holds its address until it empties it; nobody
\* has been given its key and no other thread removes it.
Removing ==
    \A t \in Threads : InRemove(t) =>
        /\ own[t] \in Values
        /\ ptr[key[t]] = own[t]
        /\ at[t] = "clear" => val[t] = own[t]
        /\ \A h \in held : h.key # key[t]
        /\ \A u \in Threads : InRemove(u) /\ key[u] = key[t] => u = t

\* The inductive invariant.
ArchiveInv == ArchiveTypeOK /\ Putting /\ KeyLeadsBack /\ Removing /\ NothingLost

----------------------------------------------------------------------------
\* The keys a put tries are natural numbers; the first one is in the table.
LEMMA KeyTypes ==
    /\ \A v \in Values : HashKey(v) \in Entries
    /\ \A k, n \in Nat : NextKey(k, n) \in Nat
<1>1. ASSUME NEW v \in Values  PROVE HashKey(v) \in Entries
  <2>1. v \in Nat /\ Cap \in Nat \ {0}
    BY ArchiveAssumption, CapAssumption
  <2>2. v \div 64 \in Nat
    BY <2>1
  <2> QED  BY <2>1, <2>2 DEF HashKey, Entries
<1>2. ASSUME NEW k \in Nat, NEW n \in Nat  PROVE NextKey(k, n) \in Nat
  BY DEF NextKey
<1> QED  BY <1>1, <1>2

\* An address is not the mark of an empty entry.
LEMMA ValuesNotEmpty == \A v \in Values : v # LCM_ARCHIVE_EMPTY
BY ArchiveAssumption DEF LCM_ARCHIVE_EMPTY

\* Equal keys were given out once.
LEMMA KeysUnique ==
    ASSUME ArchiveTypeOK, KeyLeadsBack, NEW g \in held, NEW h \in held, g.key = h.key
    PROVE  g = h
<1>1. g \in [key : Entries, own : Values] /\ h \in [key : Entries, own : Values]
  BY DEF ArchiveTypeOK
<1>2. g.own = h.own
  BY DEF KeyLeadsBack
<1> QED  BY <1>1, <1>2

\* A step that only moves a thread that is not removing, and leaves the table
\* and the keys alone.
LEMMA QuietStep ==
    ASSUME ArchiveInv, NEW t \in Threads,
           ~ InRemove(t),
           at' \in [Threads -> {"idle", "test", "cas", "read", "clear", "wild"}],
           val' \in [Threads -> Values \cup {LCM_ARCHIVE_EMPTY}],
           own' \in [Threads -> Values \cup {LCM_ARCHIVE_EMPTY}],
           key' \in [Threads -> Nat],
           tries' \in [Threads -> Nat],
           \A u \in Threads \ {t} :
               at'[u] = at[u] /\ val'[u] = val[u] /\ own'[u] = own[u] /\ key'[u] = key[u],
           at'[t] \in {"idle", "test", "cas", "wild"},
           at'[t] = "cas" => key'[t] \in Entries,
           at'[t] \in {"test", "cas"} => val'[t] = own'[t] /\ own'[t] \in Values,
           UNCHANGED <<ptr, held>>
    PROVE  ArchiveInv'
<1>1. ArchiveTypeOK'
  BY DEF ArchiveInv, ArchiveTypeOK
<1>2. Putting'
  BY DEF ArchiveInv, Putting
<1>3. KeyLeadsBack'
  BY DEF ArchiveInv, KeyLeadsBack
<1>4. Removing'
  BY DEF ArchiveInv, Removing, InRemove
<1>5. NothingLost'
  <2> SUFFICES ASSUME NEW k \in Entries, ptr[k] # LCM_ARCHIVE_EMPTY
               PROVE  \/ \E h \in held : h.key = k
                      \/ \E u \in Threads : at'[u] \in {"read", "clear"} /\ key'[u] = k
    BY DEF NothingLost
  <2>1. CASE \E h \in held : h.key = k
    BY <2>1
  <2>2. ASSUME NEW u \in Threads, at[u] \in {"read", "clear"}, key[u] = k
        PROVE  at'[u] \in {"read", "clear"} /\ key'[u] = k
    BY <2>2 DEF InRemove
  <2> QED  BY <2>1, <2>2 DEF ArchiveInv, NothingLost
<1> QED  BY <1>1, <1>2, <1>3, <1>4, <1>5 DEF ArchiveInv

\* A try that failed preserves the invariant.
LEMMA TryNextInvariant ==
    ASSUME ArchiveInv, NEW t \in Threads, at[t] \in {"test", "cas"}, TryNext(t)
    PROVE  ArchiveInv'
<1>1. CASE tries[t] < LCM_ARCHIVE_NTRY
  <2>1. /\ at' = [at EXCEPT ![t] = "test"]
        /\ key' = [key EXCEPT ![t] = NextKey(key[t], tries[t])]
        /\ tries' = [tries EXCEPT ![t] = @ + 1]
        /\ UNCHANGED <<val, own, ptr, held>>
    BY <1>1 DEF TryNext
  <2>2. NextKey(key[t], tries[t]) \in Nat
    BY KeyTypes DEF ArchiveInv, ArchiveTypeOK
  <2>3. val[t] = own[t] /\ own[t] \in Values
    BY DEF ArchiveInv, Putting
  <2> QED  BY <2>1, <2>2, <2>3, QuietStep DEF ArchiveInv, ArchiveTypeOK, InRemove
<1>2. CASE ~ (tries[t] < LCM_ARCHIVE_NTRY)
  BY <1>2, QuietStep DEF TryNext, Return, ArchiveInv, ArchiveTypeOK, InRemove
<1> QED  BY <1>1, <1>2

\* A put that gets its entry preserves the invariant.
LEMMA SucceedInvariant ==
    ASSUME ArchiveInv, NEW t \in Threads, at[t] = "cas",
           ptr[key[t]] = LCM_ARCHIVE_EMPTY, Succeed(t)
    PROVE  ArchiveInv'
<1> DEFINE k0 == key[t]
           h0 == [key |-> key[t], own |-> own[t]]
<1>1. /\ ptr' = [ptr EXCEPT ![k0] = val[t]]
      /\ held' = held \cup {h0}
      /\ at' = [at EXCEPT ![t] = "idle"]
      /\ val' = [val EXCEPT ![t] = LCM_ARCHIVE_EMPTY]
      /\ own' = [own EXCEPT ![t] = LCM_ARCHIVE_EMPTY]
      /\ key' = [key EXCEPT ![t] = 0]
      /\ tries' = [tries EXCEPT ![t] = 0]
  BY DEF Succeed, Return
<1>2. k0 \in Entries /\ val[t] = own[t] /\ own[t] \in Values
  BY DEF ArchiveInv, ArchiveTypeOK, Putting
<1>3. \A h \in held : h.key # k0 /\ h.key \in Entries
  BY ValuesNotEmpty DEF ArchiveInv, ArchiveTypeOK, KeyLeadsBack
<1>4. ASSUME NEW u \in Threads, InRemove(u)
      PROVE  u # t /\ key[u] # k0 /\ key[u] \in Entries
  BY <1>4, ValuesNotEmpty DEF ArchiveInv, ArchiveTypeOK, Removing, InRemove
<1>5. ArchiveTypeOK'
  <2>1. h0 \in [key : Entries, own : Values]
    BY <1>2
  <2> QED  BY <1>1, <1>2, <2>1 DEF ArchiveInv, ArchiveTypeOK
<1>6. Putting'
  BY <1>1 DEF ArchiveInv, ArchiveTypeOK, Putting
<1>7. KeyLeadsBack'
  BY <1>1, <1>2, <1>3 DEF ArchiveInv, ArchiveTypeOK, KeyLeadsBack
<1>8. Removing'
  <2> SUFFICES ASSUME NEW u \in Threads, InRemove(u)'
               PROVE  /\ own'[u] \in Values
                      /\ ptr'[key'[u]] = own'[u]
                      /\ at'[u] = "clear" => val'[u] = own'[u]
                      /\ \A h \in held' : h.key # key'[u]
                      /\ \A w \in Threads : InRemove(w)' /\ key'[w] = key'[u] => w = u
    BY DEF Removing
  <2>1. InRemove(u) /\ u # t /\ \A w \in Threads : InRemove(w)' => InRemove(w) /\ w # t
    BY <1>1 DEF InRemove, ArchiveInv, ArchiveTypeOK
  <2>2. own'[u] = own[u] /\ key'[u] = key[u] /\ val'[u] = val[u] /\ at'[u] = at[u]
    BY <2>1, <1>1 DEF ArchiveInv, ArchiveTypeOK
  <2>3. ptr'[key'[u]] = ptr[key[u]]
    BY <2>1, <2>2, <1>1, <1>4 DEF ArchiveInv, ArchiveTypeOK
  <2>4. \A h \in held' : h.key # key'[u]
    BY <2>1, <2>2, <1>1, <1>4 DEF ArchiveInv, Removing
  <2>5. \A w \in Threads : InRemove(w)' /\ key'[w] = key'[u] => w = u
    BY <2>1, <2>2, <1>1 DEF ArchiveInv, ArchiveTypeOK, Removing
  <2> QED  BY <2>1, <2>2, <2>3, <2>4, <2>5 DEF ArchiveInv, Removing
<1>9. NothingLost'
  <2> SUFFICES ASSUME NEW k \in Entries, ptr'[k] # LCM_ARCHIVE_EMPTY
               PROVE  \/ \E h \in held' : h.key = k
                      \/ \E u \in Threads : at'[u] \in {"read", "clear"} /\ key'[u] = k
    BY DEF NothingLost
  <2>1. CASE k = k0
    <3>1. h0 \in held' /\ h0.key = k
      BY <2>1, <1>1
    <3> QED  BY <3>1
  <2>2. CASE k # k0
    <3>1. ptr'[k] = ptr[k]
      BY <2>2, <1>1 DEF ArchiveInv, ArchiveTypeOK
    <3>2. CASE \E h \in held : h.key = k
      BY <3>2, <1>1
    <3>3. ASSUME NEW u \in Threads, at[u] \in {"read", "clear"}, key[u] = k
          PROVE  at'[u] \in {"read", "clear"} /\ key'[u] = k
      <4>1. u # t
        BY <3>3
      <4> QED  BY <3>3, <4>1, <1>1 DEF ArchiveInv, ArchiveTypeOK
    <3> QED  BY <3>1, <3>2, <3>3 DEF ArchiveInv, NothingLost
  <2> QED  BY <2>1, <2>2
<1> QED  BY <1>5, <1>6, <1>7, <1>8, <1>9 DEF ArchiveInv

\* Calling remove with a key takes the key out of circulation.
LEMMA RemoveInvariant ==
    ASSUME ArchiveInv, NEW t \in Threads, NEW h \in held, Remove(t, h)
    PROVE  ArchiveInv'
<1>1. /\ at[t] = "idle"
      /\ held' = held \ {h}
      /\ at' = [at EXCEPT ![t] = "read"]
      /\ own' = [own EXCEPT ![t] = h.own]
      /\ key' = [key EXCEPT ![t] = h.key]
      /\ UNCHANGED <<ptr, val, tries>>
  BY DEF Remove
<1>2. /\ h.key \in Entries /\ h.own \in Values /\ ptr[h.key] = h.own
      /\ Entries \subseteq Nat
  BY CapAssumption DEF ArchiveInv, ArchiveTypeOK, KeyLeadsBack, Entries
<1>3. \A g \in held' : g \in held /\ g.key # h.key
  BY <1>1, KeysUnique DEF ArchiveInv
<1>4. \A u \in Threads : InRemove(u) => u # t /\ key[u] # h.key
  BY <1>1 DEF ArchiveInv, Removing, InRemove
<1>5. \A u \in Threads \ {t} :
          /\ at'[u] = at[u] /\ own'[u] = own[u] /\ key'[u] = key[u]
          /\ InRemove(u)' <=> InRemove(u)
  BY <1>1 DEF ArchiveInv, ArchiveTypeOK, InRemove
<1>6. at'[t] = "read" /\ own'[t] = h.own /\ key'[t] = h.key
  BY <1>1 DEF ArchiveInv, ArchiveTypeOK
<1>7. ArchiveTypeOK'
  BY <1>1, <1>2 DEF ArchiveInv, ArchiveTypeOK
<1>8. Putting'
  BY <1>1, <1>5, <1>6 DEF ArchiveInv, Putting
<1>9. KeyLeadsBack'
  BY <1>1 DEF ArchiveInv, KeyLeadsBack
<1>10. Removing'
  <2> SUFFICES ASSUME NEW u \in Threads, InRemove(u)'
               PROVE  /\ own'[u] \in Values
                      /\ ptr'[key'[u]] = own'[u]
                      /\ at'[u] = "clear" => val'[u] = own'[u]
                      /\ \A g \in held' : g.key # key'[u]
                      /\ \A w \in Threads : InRemove(w)' /\ key'[w] = key'[u] => w = u
    BY DEF Removing
  <2>1. CASE u = t
    BY <2>1, <1>1, <1>2, <1>3, <1>4, <1>5, <1>6
  <2>2. CASE u # t
    BY <2>2, <1>1, <1>3, <1>4, <1>5, <1>6 DEF ArchiveInv, Removing
  <2> QED  BY <2>1, <2>2
<1>11. NothingLost'
  <2> SUFFICES ASSUME NEW k \in Entries, ptr[k] # LCM_ARCHIVE_EMPTY
               PROVE  \/ \E g \in held' : g.key = k
                      \/ \E u \in Threads : at'[u] \in {"read", "clear"} /\ key'[u] = k
    BY <1>1 DEF NothingLost
  <2>1. CASE k = h.key
    BY <2>1, <1>6
  <2>2. ASSUME NEW g \in held, g.key = k, k # h.key
        PROVE  g \in held'
    BY <2>2, <1>1
  <2>3. ASSUME NEW u \in Threads, at[u] \in {"read", "clear"}, key[u] = k
        PROVE  at'[u] \in {"read", "clear"} /\ key'[u] = k
    BY <2>3, <1>4, <1>5 DEF InRemove
  <2> QED  BY <2>1, <2>2, <2>3 DEF ArchiveInv, NothingLost
<1> QED  BY <1>7, <1>8, <1>9, <1>10, <1>11 DEF ArchiveInv

\* Reading the entry gives the address the key stands for.
LEMMA RemoveReadInvariant ==
    ASSUME ArchiveInv, NEW t \in Threads, RemoveRead(t)
    PROVE  ArchiveInv'
<1>1. /\ at[t] = "read"
      /\ val' = [val EXCEPT ![t] = ptr[key[t]]]
      /\ at' = [at EXCEPT ![t] = "clear"]
      /\ UNCHANGED <<ptr, own, key, tries, held>>
  BY DEF RemoveRead
<1>2. key[t] \in Entries /\ own[t] \in Values /\ ptr[key[t]] = own[t]
  BY <1>1 DEF ArchiveInv, ArchiveTypeOK, Removing, InRemove
<1>3. \A u \in Threads : InRemove(u)' <=> InRemove(u)
  BY <1>1 DEF ArchiveInv, ArchiveTypeOK, InRemove
<1>4. ArchiveTypeOK'
  BY <1>1, <1>2 DEF ArchiveInv, ArchiveTypeOK
<1>5. Putting' /\ KeyLeadsBack'
  BY <1>1 DEF ArchiveInv, ArchiveTypeOK, Putting, KeyLeadsBack
<1>6. Removing'
  BY <1>1, <1>2, <1>3 DEF ArchiveInv, ArchiveTypeOK, Removing
<1>7. NothingLost'
  BY <1>1, <1>3 DEF ArchiveInv, NothingLost, InRemove
<1> QED  BY <1>4, <1>5, <1>6, <1>7 DEF ArchiveInv

\* Emptying the entry frees it and disturbs no other.
LEMMA RemoveClearInvariant ==
    ASSUME ArchiveInv, NEW t \in Threads, RemoveClear(t)
    PROVE  ArchiveInv'
<1>1. /\ at[t] = "clear"
      /\ ptr' = [ptr EXCEPT ![key[t]] = LCM_ARCHIVE_EMPTY]
      /\ at' = [at EXCEPT ![t] = "idle"]
      /\ val' = [val EXCEPT ![t] = LCM_ARCHIVE_EMPTY]
      /\ own' = [own EXCEPT ![t] = LCM_ARCHIVE_EMPTY]
      /\ key' = [key EXCEPT ![t] = 0]
      /\ tries' = [tries EXCEPT ![t] = 0]
      /\ held' = held
  BY DEF RemoveClear, EmptyEntry, Return
<1>2. InRemove(t) /\ key[t] \in Entries
  BY <1>1 DEF ArchiveInv, ArchiveTypeOK, InRemove
<1>3. \A h \in held : h.key # key[t] /\ h.key \in Entries
  BY <1>2 DEF ArchiveInv, ArchiveTypeOK, Removing
<1>4. ASSUME NEW u \in Threads, InRemove(u)'
      PROVE  /\ u # t /\ InRemove(u) /\ key[u] # key[t] /\ key[u] \in Entries
             /\ at'[u] = at[u] /\ own'[u] = own[u]
             /\ key'[u] = key[u] /\ val'[u] = val[u]
  <2>1. u # t
    BY <1>4, <1>1 DEF ArchiveInv, ArchiveTypeOK, InRemove
  <2>2. /\ at'[u] = at[u] /\ own'[u] = own[u]
        /\ key'[u] = key[u] /\ val'[u] = val[u]
    BY <2>1, <1>1 DEF ArchiveInv, ArchiveTypeOK
  <2>3. InRemove(u) /\ key[u] \in Entries
    BY <2>2, <1>4 DEF ArchiveInv, ArchiveTypeOK, InRemove
  <2> QED  BY <2>1, <2>2, <2>3, <1>2 DEF ArchiveInv, Removing
<1>5. ArchiveTypeOK'
  BY <1>1, <1>2 DEF ArchiveInv, ArchiveTypeOK
<1>6. Putting'
  BY <1>1 DEF ArchiveInv, ArchiveTypeOK, Putting
<1>7. KeyLeadsBack'
  BY <1>1, <1>2, <1>3 DEF ArchiveInv, ArchiveTypeOK, KeyLeadsBack
<1>8. Removing'
  BY <1>1, <1>2, <1>4 DEF ArchiveInv, ArchiveTypeOK, Removing
<1>9. NothingLost'
  <2> SUFFICES ASSUME NEW k \in Entries, ptr'[k] # LCM_ARCHIVE_EMPTY
               PROVE  \/ \E h \in held : h.key = k
                      \/ \E u \in Threads : at'[u] \in {"read", "clear"} /\ key'[u] = k
    BY <1>1 DEF NothingLost
  <2>1. k # key[t] /\ ptr'[k] = ptr[k]
    BY <1>1, <1>2 DEF ArchiveInv, ArchiveTypeOK
  <2>2. ASSUME NEW u \in Threads, at[u] \in {"read", "clear"}, key[u] = k
        PROVE  at'[u] \in {"read", "clear"} /\ key'[u] = k
    BY <2>1, <2>2, <1>1 DEF ArchiveInv, ArchiveTypeOK
  <2> QED  BY <2>1, <2>2 DEF ArchiveInv, NothingLost
<1> QED  BY <1>5, <1>6, <1>7, <1>8, <1>9 DEF ArchiveInv

----------------------------------------------------------------------------
\* Every step of every thread preserves the invariant.
LEMMA ArchiveStep == ArchiveInv /\ [ArchiveNext]_lcmVars => ArchiveInv'
<1> SUFFICES ASSUME ArchiveInv, [ArchiveNext]_lcmVars  PROVE ArchiveInv'
  OBVIOUS
<1>1. ASSUME NEW t \in Threads, NEW v \in Values, Put(t, v)  PROVE ArchiveInv'
  <2>1. HashKey(v) \in Nat
    BY KeyTypes, CapAssumption DEF Entries
  <2> QED  BY <1>1, <2>1, QuietStep DEF Put, ArchiveInv, ArchiveTypeOK, InRemove
<1>2. ASSUME NEW t \in Threads, NEW h \in held, Remove(t, h)  PROVE ArchiveInv'
  BY <1>2, RemoveInvariant
<1>3. ASSUME NEW t \in Threads, TestTaken(t)  PROVE ArchiveInv'
  BY <1>3, TryNextInvariant DEF TestTaken
<1>4. ASSUME NEW t \in Threads, TestFree(t)  PROVE ArchiveInv'
  <2>1. /\ at[t] = "test" /\ UNCHANGED <<ptr, val, own, key, tries, held>>
        /\ \/ key[t] \in Entries /\ at' = [at EXCEPT ![t] = "cas"]
           \/ at' = [at EXCEPT ![t] = "wild"]
    BY <1>4 DEF TestFree
  <2>2. val[t] = own[t] /\ own[t] \in Values
    BY <2>1 DEF ArchiveInv, Putting
  <2> QED  BY <2>1, <2>2, QuietStep DEF ArchiveInv, ArchiveTypeOK, InRemove
<1>5. ASSUME NEW t \in Threads, Cas(t)  PROVE ArchiveInv'
  <2>1. CASE ptr[key[t]] = LCM_ARCHIVE_EMPTY
    BY <1>5, <2>1, SucceedInvariant DEF Cas, ClaimEntry
  <2>2. CASE ptr[key[t]] # LCM_ARCHIVE_EMPTY
    BY <1>5, <2>2, TryNextInvariant DEF Cas, ClaimEntry
  <2> QED  BY <2>1, <2>2
<1>6. ASSUME NEW t \in Threads, RemoveRead(t)  PROVE ArchiveInv'
  BY <1>6, RemoveReadInvariant
<1>7. ASSUME NEW t \in Threads, RemoveClear(t)  PROVE ArchiveInv'
  BY <1>7, RemoveClearInvariant
<1>8. CASE UNCHANGED lcmVars
  BY <1>8 DEF lcmVars, ArchiveInv, ArchiveTypeOK, Putting, KeyLeadsBack, Removing, InRemove, NothingLost
<1> QED  BY <1>1, <1>2, <1>3, <1>4, <1>5, <1>6, <1>7, <1>8 DEF ArchiveNext, Step

\* The invariant holds of a new archive.
LEMMA ArchiveInitially == LCM_archive_init => ArchiveInv
<1>1. LCM_archive_init => ArchiveTypeOK
  BY DEF LCM_archive_init, ArchiveTypeOK
<1> QED  BY <1>1 DEF LCM_archive_init, ArchiveInv, Putting, KeyLeadsBack, Removing, InRemove, NothingLost

\* The invariant holds in every behaviour.
THEOREM ArchiveInvariance == ArchiveSpec => []ArchiveInv
BY ArchiveInitially, ArchiveStep, PTL DEF ArchiveSpec

\* Entries hold addresses and a thread that touches one is inside the table,
\* unless a probe has left it.
THEOREM ArchiveTypes == ArchiveSpec => []ArchiveTypeOK
<1>1. ArchiveInv => ArchiveTypeOK
  BY DEF ArchiveInv
<1> QED  BY <1>1, ArchiveInvariance, PTL

\* A key LCM_archive_put gave out leads to the address it was given for until
\* it is removed.
THEOREM KeysLeadBack == ArchiveSpec => []KeyLeadsBack
<1>1. ArchiveInv => KeyLeadsBack
  BY DEF ArchiveInv
<1> QED  BY <1>1, ArchiveInvariance, PTL

\* LCM_archive_remove returns the address its key stands for and empties the
\* entry of no other key.
THEOREM RemovesOwnEntry == ArchiveSpec => []RemoveReturnsOwn
<1>1. ArchiveInv => RemoveReturnsOwn
  BY DEF ArchiveInv, Removing, InRemove, RemoveReturnsOwn
<1> QED  BY <1>1, ArchiveInvariance, PTL

\* No entry stays in use without somebody who can free it.
THEOREM NoEntryLost == ArchiveSpec => []NothingLost
<1>1. ArchiveInv => NothingLost
  BY DEF ArchiveInv
<1> QED  BY <1>1, ArchiveInvariance, PTL
============================================================================
