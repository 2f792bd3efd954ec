-------------------------- MODULE BootstrapProofs --------------------------
(***************************************************************************)
(* ibv::init over the MPI process manager, for every number of ranks: what *)
(* a rank publishes before the barrier is found by every rank after it,    *)
(* once; no lookup fails; every queue pair is connected to its counterpart;*)
(* and nobody leaves init before everybody can receive.                    *)
(*                                                                         *)
(* The invariant Boot says for each phase of a rank how many collective    *)
(* calls it has entered and what it contributed to each: its count, its    *)
(* names, a zero and nothing. A rank that is past a barrier knows that all *)
(* others have entered it (Fenced), so that the names in its g_archive are *)
(* the names of all queue pairs, and none of them changes any more.        *)
(*                                                                         *)
(* That the concatenation of what all ranks sent holds every name exactly  *)
(* once is an induction over the ranks. It is carried out by the least     *)
(* counterexample: LeastNatural follows from the well-foundedness of the   *)
(* order on the natural numbers, and needs no induction theorem.           *)
(***************************************************************************)
EXTENDS Bootstrap, SequenceTheorems, FiniteSetTheorems, WellFoundedInduction, TLAPS

\* What rank q publishes for rank k.
Val(q, k) == [mr_addr |-> q, qp_num |-> qps[q][k].qp_num, lid |-> q]
Entry(q, k) == [key |-> Key(q, k), value |-> Val(q, k)]

\* The queue pairs rank q has created; the names of the first n of them.
Created(q) == IF pc[q] = "create" THEN i[q] ELSE NRanks
Names(q, n) == [k \in 1 .. n |-> Entry(q, k - 1)]

\* The phases before and after the first barrier.
Early == {"create", "publishing"}
Late == {"connect", "connecting", "done"}

\* The values of the archives and of a queue pair.
EntrySet == [key : Ranks \X Ranks, value : [mr_addr : Ranks, qp_num : QpNums, lid : Ranks]]
Qp == [qp_num : QpNums \cup {0}, state : {"none", "INIT", "RTS"},
       dest_qp_num : QpNums \cup {0}, dest_lid : Ranks]

\* The types.
Types ==
    /\ pc \in [Ranks -> Early \cup Late]
    /\ i \in [Ranks -> 0 .. NRanks]
    /\ at \in [Ranks -> {"out", "counts", "data"}]
    /\ qps \in [Ranks -> [Ranks -> Qp]]
    /\ rmrs \in [Ranks -> [Ranks -> Int]]
    /\ l_archive \in [Ranks -> Seq(EntrySet)]
    /\ g_archive \in [Ranks -> Seq(EntrySet)]
    /\ coll \in [Ranks -> Seq(Nat \cup Seq(EntrySet))]
    /\ count_buf \in [Ranks -> [Ranks -> Nat]]

\* Where rank r is in its collective calls, in each phase of init.
Phase(r) ==
    /\ pc[r] = "create" => at[r] = "out" /\ Len(coll[r]) = 0
    /\ pc[r] = "publishing" =>
          /\ i[r] = NRanks
          /\ \/ at[r] = "counts" /\ Len(coll[r]) = 1
             \/ at[r] = "data" /\ Len(coll[r]) = 2
    /\ pc[r] = "connect" => at[r] = "out" /\ Len(coll[r]) = 2
    /\ pc[r] = "connecting" =>
          /\ i[r] = NRanks
          /\ \/ at[r] = "counts" /\ Len(coll[r]) = 3
             \/ at[r] = "data" /\ Len(coll[r]) = 4
    /\ pc[r] = "done" => at[r] = "out" /\ Len(coll[r]) = 4

\* A barrier that rank r has left was entered by everybody.
Fenced(r) ==
    /\ pc[r] \in Late => \A q \in Ranks : Len(coll[q]) >= 2
    /\ pc[r] = "done" => \A q \in Ranks : Len(coll[q]) >= 4

\* What rank r gave to the collective calls it has entered.
Contributed(r) ==
    /\ Len(coll[r]) >= 1 => coll[r][1] = NRanks
    /\ Len(coll[r]) >= 2 => coll[r][2] = Names(r, NRanks)
    /\ Len(coll[r]) >= 3 => coll[r][3] = 0
    /\ Len(coll[r]) >= 4 => coll[r][4] = <<>>

\* The counts rank r received before it receives the entries.
Counted(r) ==
    at[r] = "data" =>
        count_buf[r] = [q \in Ranks |-> IF pc[r] = "publishing" THEN NRanks ELSE 0]

\* l_archive: the names of the queue pairs created so far, until they are sent.
Local(r) == l_archive[r] = IF pc[r] \in Early THEN Names(r, Created(r)) ELSE <<>>

\* The names of all queue pairs of all ranks, each once.
AllNames(s) ==
    /\ \A j \in 1 .. Len(s) : \E q, k \in Ranks : s[j] = Entry(q, k)
    /\ \A q, k \in Ranks : \E j \in 1 .. Len(s) : s[j] = Entry(q, k)
    /\ \A j, l \in 1 .. Len(s) : s[j] = s[l] => j = l

\* g_archive: nothing before the first barrier, everything after it.
Global(r) == IF pc[r] \in Early THEN g_archive[r] = <<>> ELSE AllNames(g_archive[r])

\* The ghost: what has been published so far is due at the first barrier.
Published ==
    pub = {[key |-> Key(c[1], c[2]), value |-> Val(c[1], c[2]), due |-> 1] :
              c \in {d \in Ranks \X Ranks : d[2] < Created(d[1])}}

\* The queue pairs rank r has created and connected.
Wiring(r) ==
    /\ \A p \in Ranks : p < Created(r) => qps[r][p].qp_num \in QpNums
    /\ \A p \in Ranks : qps[r][p].state = "RTS" => pc[r] \in Late
    /\ pc[r] = "connect" => \A p \in Ranks : p < i[r] => qps[r][p].state = "RTS"
    /\ pc[r] \in {"connecting", "done"} => \A p \in Ranks : qps[r][p].state = "RTS"

\* The inductive invariant.
Boot ==
    /\ Types
    /\ \A r \in Ranks : Phase(r) /\ Fenced(r) /\ Contributed(r) /\ Counted(r)
    /\ \A r \in Ranks : Local(r) /\ Global(r) /\ Wiring(r)
    /\ Published
    /\ Wired
----------------------------------------------------------------------------
\* Every nonempty set of natural numbers has a least element.
LEMMA LeastNatural ==
  ASSUME NEW T \in SUBSET Nat, T # {}
  PROVE  \E x \in T : \A y \in T : x <= y
<1> DEFINE R == OpToRel(<, Nat)
<1>1. IsWellFoundedOn(R, Nat)
  BY NatLessThanWellFounded
<1>2. \A a, b \in Nat : a < b => <<a, b>> \in R
  BY DEF OpToRel
<1> HIDE DEF R
<1>3. PICK x \in T : \A y \in T : ~ (<<y, x>> \in R)
  BY <1>1, WFMin
<1>4. ASSUME NEW y \in T  PROVE x <= y
  <2>1. x \in Nat /\ y \in Nat
    OBVIOUS
  <2>2. ~ (y < x)
    BY <2>1, <1>2, <1>3
  <2> QED  BY <2>1, <2>2
<1> QED  BY <1>4

\* The recursive function that FlattenSeq chooses exists.
LEMMA FlattenDef ==
  ASSUME NEW s, NEW n \in Nat
  PROVE \E f : f = [j \in 1 .. n |-> IF j = 1 THEN s[j] ELSE f[j-1] \o s[j]]
<1> DEFINE P(m) == \E f : f = [j \in 1 .. m |-> IF j = 1 THEN s[j] ELSE f[j-1] \o s[j]]
           T == {m \in Nat : ~ P(m)}
<1>1. SUFFICES ASSUME T # {} PROVE FALSE
  OBVIOUS
<1>2. PICK m \in T : \A y \in T : m <= y
  BY <1>1, LeastNatural
<1>3. P(0)
  <2> DEFINE g == [j \in 1 .. 0 |-> 0]
  <2>1. g = [j \in 1 .. 0 |-> IF j = 1 THEN s[j] ELSE g[j-1] \o s[j]]
    OBVIOUS
  <2> QED  BY <2>1
<1>4. m \in Nat /\ ~ P(m) /\ m # 0
  BY <1>3
<1>9. m - 1 \in Nat /\ ~ (m <= m - 1)
  BY <1>4
<1>10. P(m - 1)
  BY <1>2, <1>9
<1>5. PICK f : f = [j \in 1 .. m - 1 |-> IF j = 1 THEN s[j] ELSE f[j-1] \o s[j]]
  BY <1>10
<1> DEFINE g == [j \in 1 .. m |-> IF j = 1 THEN s[j] ELSE f[j-1] \o s[j]]
<1>6. ASSUME NEW j \in 1 .. m - 1  PROVE g[j] = f[j]
  <2>1. j \in 1 .. m
    BY <1>4
  <2>2. f[j] = IF j = 1 THEN s[j] ELSE f[j-1] \o s[j]
    BY <1>5
  <2> QED  BY <2>1, <2>2
<1>7. ASSUME NEW j \in 1 .. m  PROVE g[j] = IF j = 1 THEN s[j] ELSE g[j-1] \o s[j]
  <2>1. j # 1 => j - 1 \in 1 .. m - 1
    BY <1>4
  <2>2. j # 1 => g[j - 1] = f[j - 1]
    BY <2>1, <1>6
  <2>3. g[j] = IF j = 1 THEN s[j] ELSE f[j-1] \o s[j]
    OBVIOUS
  <2> HIDE DEF g
  <2> QED  BY <2>2, <2>3
<1>8. g = [j \in 1 .. m |-> IF j = 1 THEN s[j] ELSE g[j-1] \o s[j]]
  <2>1. g = [j \in 1 .. m |-> g[j]]
    OBVIOUS
  <2> HIDE DEF g
  <2> QED  BY <2>1, <1>7
<1> HIDE DEF g
<1> QED  BY <1>8, <1>4

\* FlattenSeq satisfies its recursion.
LEMMA FlattenEq ==
  ASSUME NEW s, Len(s) \in Nat \ {0}
  PROVE \E f : /\ f = [j \in 1 .. Len(s) |-> IF j = 1 THEN s[j] ELSE f[j-1] \o s[j]]
               /\ FlattenSeq(s) = f[Len(s)]
<1> DEFINE fl == CHOOSE f : f = [j \in 1 .. Len(s) |-> IF j = 1 THEN s[j] ELSE f[j-1] \o s[j]]
<1>1. fl = [j \in 1 .. Len(s) |-> IF j = 1 THEN s[j] ELSE fl[j-1] \o s[j]]
  BY FlattenDef
<1>2. FlattenSeq(s) = fl[Len(s)]
  BY DEF FlattenSeq
<1> QED  BY <1>1, <1>2

\* t holds the entries of the first m sequences of s, and nothing else.
Holds(s, m, t) ==
    /\ \A j \in 1 .. m : \A k \in 1 .. Len(s[j]) :
          \E a \in 1 .. Len(t) : t[a] = s[j][k]
    /\ \A a \in 1 .. Len(t) : \E j \in 1 .. m : \E k \in 1 .. Len(s[j]) : t[a] = s[j][k]

\* No entry is there twice; the entries of the first n sequences of s differ.
Once(t) == \A a, b \in 1 .. Len(t) : t[a] = t[b] => a = b
Distinct(s, n) ==
    \A j, l \in 1 .. n : \A k \in 1 .. Len(s[j]) : \A m \in 1 .. Len(s[l]) :
        s[j][k] = s[l][m] => j = l /\ k = m

\* One more sequence is appended.
LEMMA HoldsStep ==
  ASSUME NEW S, NEW n \in Nat, NEW s, \A j \in 1 .. n : s[j] \in Seq(S),
         NEW m \in 1 .. n, m - 1 \in 1 .. n, NEW t \in Seq(S), Holds(s, m - 1, t),
         Distinct(s, n) => Once(t)
  PROVE  /\ t \o s[m] \in Seq(S)
         /\ Holds(s, m, t \o s[m])
         /\ Distinct(s, n) => Once(t \o s[m])
<1> DEFINE u == s[m]
           c == t \o u
<1>1. u \in Seq(S) /\ Len(t) \in Nat /\ Len(u) \in Nat
  BY LenProperties
<1>2. /\ c \in Seq(S) /\ Len(c) = Len(t) + Len(u)
      /\ \A a \in 1 .. Len(t) + Len(u) : c[a] = IF a <= Len(t) THEN t[a] ELSE u[a - Len(t)]
  BY <1>1, ConcatProperties
<1> HIDE DEF c
<1> DEFINE lt == Len(t)  lu == Len(u)
<1>3. /\ lt \in Nat /\ lu \in Nat /\ Len(c) = lt + lu
      /\ \A a \in 1 .. lt : a \in 1 .. Len(c) /\ c[a] = t[a]
      /\ \A k \in 1 .. lu : lt + k \in 1 .. Len(c) /\ c[lt + k] = u[k]
      /\ \A a \in 1 .. Len(c) : \/ a \in 1 .. lt
                                \/ a - lt \in 1 .. lu /\ c[a] = u[a - lt]
  <2>1. lt \in Nat /\ lu \in Nat /\ Len(c) = lt + lu
    BY <1>1, <1>2
  <2>2. \A a \in 1 .. lt + lu : c[a] = IF a <= lt THEN t[a] ELSE u[a - lt]
    BY <1>2
  <2> HIDE DEF lt, lu, u
  <2>3. ASSUME NEW a \in 1 .. lt  PROVE a \in 1 .. lt + lu /\ c[a] = t[a]
    BY <2>1, <2>2
  <2>4. ASSUME NEW k \in 1 .. lu  PROVE lt + k \in 1 .. lt + lu /\ c[lt + k] = u[k]
    <3>1. lt + k \in 1 .. lt + lu /\ ~ (lt + k <= lt) /\ (lt + k) - lt = k
      BY <2>1
    <3> QED  BY <2>2, <3>1
  <2>5. ASSUME NEW a \in 1 .. lt + lu, ~ (a \in 1 .. lt)
        PROVE  a - lt \in 1 .. lu /\ c[a] = u[a - lt]
    BY <2>1, <2>2, <2>5
  <2> QED  BY <2>1, <2>3, <2>4, <2>5
<1>4. \A j \in 1 .. m : j \in 1 .. m - 1 \/ j = m
  OBVIOUS
<1>5. m \in 1 .. m /\ \A j \in 1 .. m - 1 : j \in 1 .. m /\ j \in 1 .. n /\ j # m
  OBVIOUS
<1> HIDE DEF lt, lu
<1>6. ASSUME NEW j \in 1 .. m, NEW k \in 1 .. Len(s[j])
      PROVE  \E a \in 1 .. Len(c) : c[a] = s[j][k]
  <2>1. CASE j = m
    BY <2>1, <1>3 DEF lu
  <2>2. CASE j \in 1 .. m - 1
    <3>1. PICK a \in 1 .. Len(t) : t[a] = s[j][k]
      BY <2>2 DEF Holds
    <3> QED  BY <3>1, <1>3 DEF lt
  <2> QED  BY <2>1, <2>2, <1>4
<1>7. ASSUME NEW a \in 1 .. Len(c)
      PROVE  \E j \in 1 .. m : \E k \in 1 .. Len(s[j]) : c[a] = s[j][k]
  <2>1. CASE a \in 1 .. lt
    <3>1. PICK j \in 1 .. m - 1 : \E k \in 1 .. Len(s[j]) : t[a] = s[j][k]
      BY <2>1 DEF Holds, lt
    <3> QED  BY <3>1, <2>1, <1>3, <1>5
  <2>2. CASE a - lt \in 1 .. lu /\ c[a] = u[a - lt]
    BY <2>2, <1>5 DEF lu
  <2> QED  BY <2>1, <2>2, <1>3
<1>8. ASSUME Distinct(s, n), NEW a \in 1 .. Len(c), NEW b \in 1 .. Len(c), c[a] = c[b]
      PROVE  a = b
  <2>0. ASSUME NEW x \in 1 .. lt, NEW y \in 1 .. lu, t[x] = u[y]  PROVE FALSE
    <3>1. PICK j \in 1 .. m - 1 : \E k \in 1 .. Len(s[j]) : t[x] = s[j][k]
      BY DEF Holds, lt
    <3>2. PICK k \in 1 .. Len(s[j]) : t[x] = s[j][k]
      BY <3>1
    <3>3. j \in 1 .. n /\ j # m /\ s[j][k] = s[m][y] /\ y \in 1 .. Len(s[m])
      BY <3>2, <1>5, <2>0 DEF lu
    <3> QED  BY <3>3, <1>8 DEF Distinct
  <2>1. CASE a \in 1 .. lt /\ b \in 1 .. lt
    BY <2>1, <1>3, <1>8 DEF Once, lt
  <2>2. CASE a \in 1 .. lt /\ (b - lt \in 1 .. lu /\ c[b] = u[b - lt])
    <3>1. c[a] = t[a]
      BY <2>2, <1>3
    <3> QED  BY <3>1, <2>2, <2>0, <1>8
  <2>3. CASE b \in 1 .. lt /\ (a - lt \in 1 .. lu /\ c[a] = u[a - lt])
    <3>1. c[b] = t[b]
      BY <2>3, <1>3
    <3> QED  BY <3>1, <2>3, <2>0, <1>8
  <2>4. CASE /\ a - lt \in 1 .. lu /\ c[a] = u[a - lt]
             /\ b - lt \in 1 .. lu /\ c[b] = u[b - lt]
    <3>1. ASSUME NEW x \in 1 .. lu, NEW y \in 1 .. lu, u[x] = u[y]  PROVE x = y
      BY <3>1, <1>8 DEF Distinct, lu
    <3>2. a - lt = b - lt
      BY <2>4, <1>8, <3>1
    <3> QED  BY <3>2, <1>3
  <2> QED  BY <2>1, <2>2, <2>3, <2>4, <1>3
<1>9. Holds(s, m, c) /\ (Distinct(s, n) => Once(c))
  BY <1>6, <1>7, <1>8 DEF Holds, Once
<1> QED  BY <1>9, <1>2 DEF c

\* FlattenSeq returns all entries, and each once if they are different.
LEMMA FlattenHolds ==
  ASSUME NEW S, NEW s, NEW n \in Nat \ {0}, Len(s) = n, \A j \in 1 .. n : s[j] \in Seq(S)
  PROVE  /\ FlattenSeq(s) \in Seq(S)
         /\ Holds(s, n, FlattenSeq(s))
         /\ Distinct(s, n) => Once(FlattenSeq(s))
<1>1. PICK f : /\ f = [j \in 1 .. n |-> IF j = 1 THEN s[j] ELSE f[j-1] \o s[j]]
               /\ FlattenSeq(s) = f[n]
  BY FlattenEq
<1> DEFINE P(m) == /\ f[m] \in Seq(S)
                   /\ Holds(s, m, f[m])
                   /\ Distinct(s, n) => Once(f[m])
           T == {m \in 1 .. n : ~ P(m)}
<1>2. ASSUME T # {} PROVE FALSE
  <2>1. T \in SUBSET Nat
    OBVIOUS
  <2>2. PICK m \in T : \A y \in T : m <= y
    BY <1>2, <2>1, LeastNatural
  <2>3. m \in 1 .. n /\ ~ P(m)
    OBVIOUS
  <2>4. f[m] = IF m = 1 THEN s[m] ELSE f[m-1] \o s[m]
    BY <1>1, <2>3
  <2>5. P(1)
    <3>1. 1 \in 1 .. n
      OBVIOUS
    <3>2. f[1] = s[1] /\ s[1] \in Seq(S)
      BY <1>1, <3>1
    <3>3. Holds(s, 1, s[1])
      BY <3>2 DEF Holds
    <3>4. Distinct(s, n) => Once(s[1])
      BY <3>1 DEF Distinct, Once
    <3> QED  BY <3>2, <3>3, <3>4
  <2>6. m # 1
    BY <2>3, <2>5
  <2>7. m - 1 \in 1 .. n /\ ~ (m <= m - 1)
    BY <2>3, <2>6
  <2>8. P(m - 1)
    BY <2>2, <2>7
  <2>9. P(m)
    <3>1. f[m] = f[m-1] \o s[m]
      BY <2>4, <2>6
    <3> DEFINE t == f[m-1]
    <3>2. t \in Seq(S) /\ Holds(s, m - 1, t) /\ (Distinct(s, n) => Once(t))
      BY <2>8
    <3> HIDE DEF t
    <3>3. /\ t \o s[m] \in Seq(S)
          /\ Holds(s, m, t \o s[m])
          /\ Distinct(s, n) => Once(t \o s[m])
      BY <3>2, <2>3, <2>7, HoldsStep
    <3> QED  BY <3>1, <3>3 DEF t
  <2> QED  BY <2>9, <2>3
<1>3. P(n)
  BY <1>2
<1> QED  BY <1>1, <1>3
----------------------------------------------------------------------------
\* A name of a queue pair that was created, and to whom it belongs.
LEMMA EntryFacts ==
  ASSUME Types
  PROVE  /\ \A q, k \in Ranks : qps[q][k].qp_num \in QpNums => Entry(q, k) \in EntrySet
         /\ \A q, k, p, l \in Ranks : Entry(q, k) = Entry(p, l) => q = p /\ k = l
  BY DEF Types, Entry, Val, Key, EntrySet, Qp

\* The first n names of a rank.
LEMMA NamesFacts ==
  ASSUME Types, NEW q \in Ranks, NEW n \in 0 .. NRanks,
         \A k \in Ranks : k < n => qps[q][k].qp_num \in QpNums
  PROVE  /\ Names(q, n) \in Seq(EntrySet) /\ Len(Names(q, n)) = n
         /\ \A k \in 1 .. n : k - 1 \in Ranks /\ Names(q, n)[k] = Entry(q, k - 1)
<1>1. NRanks \in Nat
  BY NRanksAssumption
<1>2. ASSUME NEW k \in 1 .. n  PROVE k - 1 \in Ranks /\ Entry(q, k - 1) \in EntrySet
  <2>1. k - 1 \in Ranks /\ k - 1 < n
    BY <1>1 DEF Ranks
  <2> QED  BY <2>1, EntryFacts
<1> DEFINE t == Names(q, n)
<1>3. t = [k \in 1 .. n |-> Entry(q, k - 1)]
  BY DEF Names
<1>4. t \in [1 .. n -> EntrySet]
  BY <1>2, <1>3
<1> HIDE DEF t
<1>5. n \in Nat
  BY <1>1
<1>6. t \in Seq(EntrySet) /\ Len(t) = n
  BY <1>4, <1>5, SeqDef
<1> QED  BY <1>2, <1>3, <1>6 DEF t

\* The names do not change once the queue pairs are there.
LEMMA NamesKept ==
  ASSUME \A q, k \in Ranks : qps'[q][k].qp_num = qps[q][k].qp_num
  PROVE  /\ \A q, k \in Ranks : Entry(q, k)' = Entry(q, k) /\ Val(q, k)' = Val(q, k)
         /\ \A q \in Ranks : Names(q, NRanks)' = Names(q, NRanks)
<1>1. ASSUME NEW q \in Ranks, NEW k \in Ranks
      PROVE  Entry(q, k)' = Entry(q, k) /\ Val(q, k)' = Val(q, k)
  BY DEF Entry, Val, Key
<1>2. ASSUME NEW q \in Ranks  PROVE Names(q, NRanks)' = Names(q, NRanks)
  <2>1. \A k \in 1 .. NRanks : k - 1 \in Ranks
    BY NRanksAssumption DEF Ranks
  <2>2. \A k \in 1 .. NRanks : Entry(q, k - 1)' = Entry(q, k - 1)
    BY <2>1, <1>1
  <2> QED  BY <2>2 DEF Names
<1> QED  BY <1>1, <1>2

\* An archive with all names keeps them.
LEMMA AllNamesKept ==
  ASSUME NEW r \in Ranks, \A q, k \in Ranks : Entry(q, k)' = Entry(q, k),
         AllNames(g_archive'[r])
  PROVE  AllNames(g_archive[r])'
<1>1. ASSUME NEW j \in 1 .. Len(g_archive'[r])
      PROVE  \E q, k \in Ranks : g_archive'[r][j] = Entry(q, k)'
  <2>1. PICK q \in Ranks, k \in Ranks : g_archive'[r][j] = Entry(q, k)
    BY DEF AllNames
  <2>2. g_archive'[r][j] = Entry(q, k)'
    BY <2>1
  <2> QED  BY <2>2
<1>2. ASSUME NEW q \in Ranks, NEW k \in Ranks
      PROVE  \E j \in 1 .. Len(g_archive'[r]) : g_archive'[r][j] = Entry(q, k)'
  <2>1. PICK j \in 1 .. Len(g_archive'[r]) : g_archive'[r][j] = Entry(q, k)
    BY DEF AllNames
  <2>2. g_archive'[r][j] = Entry(q, k)'
    BY <2>1
  <2> QED  BY <2>2
<1>3. \A j, l \in 1 .. Len(g_archive'[r]) : g_archive'[r][j] = g_archive'[r][l] => j = l
  BY DEF AllNames
<1> QED  BY <1>1, <1>2, <1>3 DEF AllNames

\* A step that neither creates nor publishes.
LEMMA PublishedKept ==
  ASSUME Published, \A q, k \in Ranks : qps'[q][k].qp_num = qps[q][k].qp_num,
         \A q \in Ranks : Created(q)' = Created(q), pub' = pub
  PROVE  Published'
<1> DEFINE C == {d \in Ranks \X Ranks : d[2] < Created(d[1])}
<1>1. C' = C
  OBVIOUS
<1>2. \A c \in C : Val(c[1], c[2])' = Val(c[1], c[2])
  BY NamesKept
<1> QED  BY <1>1, <1>2 DEF Published, Key

\* The invariant holds initially.
LEMMA InitBoot == Init => Boot
<1> SUFFICES ASSUME Init  PROVE Boot
  OBVIOUS
<1>1. NRanks \in Nat /\ 0 \in Ranks /\ 0 \in 0 .. NRanks
  BY NRanksAssumption DEF Ranks
<1>2. Types
  <2>1. NoQp \in Qp
    BY <1>1 DEF NoQp, Qp
  <2> QED  BY <1>1, <2>1 DEF Types, Init, PmInit, Early, Late
<1>3. ASSUME NEW r \in Ranks
      PROVE Phase(r) /\ Fenced(r) /\ Contributed(r) /\ Counted(r) /\ Global(r)
  BY DEF Init, PmInit, Phase, Fenced, Contributed, Counted, Global, Early, Late
<1>4. ASSUME NEW r \in Ranks  PROVE Wiring(r)
  BY <1>1 DEF Init, Wiring, Created, NoQp, Ranks
<1>5. ASSUME NEW r \in Ranks  PROVE Local(r)
  <2>1. Created(r) = 0
    BY DEF Init, Created
  <2>2. Names(r, 0) = <<>>
    BY DEF Names
  <2> QED  BY <2>1, <2>2 DEF Init, PmInit, Local, Early
<1>6. Published
  <2>1. \A d \in Ranks \X Ranks : ~ (d[2] < Created(d[1]))
    BY DEF Init, Created, Ranks
  <2> QED  BY <2>1 DEF Published, Init, PmInit
<1>7. Wired
  BY DEF Init, Wired, NoQp
<1> QED  BY <1>2, <1>3, <1>4, <1>5, <1>6, <1>7 DEF Boot

\* CreateQp: nobody has left the first barrier yet.
LEMMA CreateStep ==
  ASSUME Boot, NEW r \in Ranks, CreateQp(r)
  PROVE  Boot'
<1>1. Types /\ Phase(r) /\ Wiring(r) /\ Local(r) /\ Published
  BY DEF Boot
<1>2. NRanks \in Nat /\ NRanks > 0
  BY NRanksAssumption
<1> PICK c \in Int : c = i[r]
  BY <1>1, <1>2 DEF Types
<1>3. /\ pc[r] = "create" /\ at[r] = "out" /\ Len(coll[r]) = 0
      /\ c \in Nat /\ c < NRanks /\ c \in Ranks
  <2>1. c \in 0 .. NRanks /\ c < NRanks
    BY <1>1 DEF Types, CreateQp, MoreRanks
  <2>2. c \in Nat /\ c \in Ranks
    BY <2>1, <1>2 DEF Ranks
  <2> QED  BY <2>1, <2>2, <1>1 DEF CreateQp, Phase
<1>4. PICK n \in QpNums : 
        /\ qps' = [qps EXCEPT ![r][c] = [NoQp EXCEPT !.qp_num = n, !.state = "INIT"]]
        /\ publish(r, Key(r, c), [mr_addr |-> r, qp_num |-> n, lid |-> r])
  BY DEF CreateQp
<1>5. /\ i' = [i EXCEPT ![r] = c + 1] /\ UNCHANGED <<pc, rmrs, g_archive, coll, at, count_buf>>
      /\ l_archive' = [l_archive EXCEPT ![r] =
           Append(@, [key |-> Key(r, c), value |-> [mr_addr |-> r, qp_num |-> n, lid |-> r]])]
      /\ pub' = pub \cup {[key |-> Key(r, c), due |-> Entered(r) + 1,
                           value |-> [mr_addr |-> r, qp_num |-> n, lid |-> r]]}
  BY <1>4 DEF CreateQp, publish
<1>6. Entered(r) + 1 = 1
  BY <1>3 DEF Entered
<1> DEFINE new == [NoQp EXCEPT !.qp_num = n, !.state = "INIT"]
<1>7. qps' = [qps EXCEPT ![r] = [qps[r] EXCEPT ![c] = new]]
  BY <1>4
<1>8. new \in Qp /\ new.qp_num = n /\ new.state = "INIT"
  <2>1. NoQp \in Qp
    BY <1>2 DEF NoQp, Qp, Ranks
  <2> QED  BY <2>1 DEF Qp
<1> HIDE DEF new
<1>9. /\ qps' \in [Ranks -> [Ranks -> Qp]] /\ qps'[r][c] = new
      /\ \A q, k \in Ranks : q # r \/ k # c => qps'[q][k] = qps[q][k]
  <2>1. qps \in [Ranks -> [Ranks -> Qp]]
    BY <1>1 DEF Types
  <2> QED  BY <2>1, <1>3, <1>7, <1>8
<1>11. ASSUME NEW q \in Ranks  PROVE pc[q] \in Early
  <2>1. pc[q] \notin Late
    BY <1>3 DEF Boot, Fenced
  <2> QED  BY <2>1, <1>1 DEF Types
<1>12. Created(r) = c /\ Created(r)' = c + 1 /\ \A q \in Ranks \ {r} : Created(q)' = Created(q)
  <2>1. i \in [Ranks -> 0 .. NRanks]
    BY <1>1 DEF Types
  <2> QED  BY <2>1, <1>3, <1>5 DEF Created
<1>13. \A q, k \in Ranks : q # r \/ k # c =>
          Entry(q, k)' = Entry(q, k) /\ Val(q, k)' = Val(q, k)
  BY <1>9 DEF Entry, Val, Key
<1>14. /\ Val(r, c)' = [mr_addr |-> r, qp_num |-> n, lid |-> r]
       /\ Entry(r, c)' = [key |-> Key(r, c), value |-> [mr_addr |-> r, qp_num |-> n, lid |-> r]]
  BY <1>9, <1>8 DEF Entry, Val, Key
<1>15. Entry(r, c)' \in EntrySet
  BY <1>3, <1>14 DEF EntrySet, Key
<1>20. Types'
  <2>1. i' \in [Ranks -> 0 .. NRanks]
    <3>1. i \in [Ranks -> 0 .. NRanks]
      BY <1>1 DEF Types
    <3>2. c + 1 \in 0 .. NRanks
      BY <1>2, <1>3
    <3> QED  BY <3>1, <3>2, <1>5
  <2>2. l_archive' \in [Ranks -> Seq(EntrySet)]
    <3>1. l_archive \in [Ranks -> Seq(EntrySet)]
      BY <1>1 DEF Types
    <3>2. Append(l_archive[r], Entry(r, c)') \in Seq(EntrySet)
      BY <3>1, <1>15
    <3>3. l_archive' = [l_archive EXCEPT ![r] = Append(l_archive[r], Entry(r, c)')]
      BY <1>5, <1>14
    <3> QED  BY <3>1, <3>2, <3>3
  <2> QED  BY <1>1, <1>5, <1>9, <2>1, <2>2 DEF Types
<1>21. ASSUME NEW q \in Ranks  PROVE Phase(q)' /\ Fenced(q)' /\ Counted(q)'
  <2>1. Phase(q) /\ Fenced(q) /\ Counted(q)
    BY DEF Boot
  <2>2. q # r => i'[q] = i[q]
    BY <1>5, <1>1 DEF Types
  <2> QED  BY <2>1, <2>2, <1>3, <1>5 DEF Phase, Fenced, Counted
<1>22. ASSUME NEW q \in Ranks  PROVE Contributed(q)'
  <2>1. Contributed(q)
    BY DEF Boot
  <2>2. q # r => Names(q, NRanks)' = Names(q, NRanks)
    <3>1. \A k \in 1 .. NRanks : k - 1 \in Ranks
      BY <1>2 DEF Ranks
    <3> QED  BY <3>1, <1>13 DEF Names
  <2>3. CASE q = r
    BY <2>3, <1>3, <1>5 DEF Contributed
  <2>4. CASE q # r
    BY <2>1, <2>2, <2>4, <1>5 DEF Contributed
  <2> QED  BY <2>3, <2>4
<1>23. ASSUME NEW q \in Ranks  PROVE Global(q)'
  BY <1>11, <1>5 DEF Boot, Global
<1>24. ASSUME NEW q \in Ranks  PROVE Local(q)'
  <2>1. Local(q) /\ Wiring(q)
    BY DEF Boot
  <2>2. CASE q # r
    <3>1. Names(q, Created(q))' = Names(q, Created(q))
      <4>1. Created(q) \in 0 .. NRanks
        BY <1>1, <1>2 DEF Types, Created
      <4>2. \A k \in 1 .. Created(q) : k - 1 \in Ranks
        BY <1>2, <4>1 DEF Ranks
      <4> QED  BY <4>2, <1>12, <1>13, <2>2 DEF Names
    <3>2. l_archive'[q] = l_archive[q]
      BY <2>2, <1>5, <1>1 DEF Types
    <3> QED  BY <3>1, <3>2, <2>1, <1>5, <2>2 DEF Local
  <2>3. CASE q = r
    <3>1. l_archive[r] = Names(r, c)
      BY <2>1, <2>3, <1>12, <1>11 DEF Local
    <3>2. \A k \in Ranks : k < c => qps[r][k].qp_num \in QpNums
      BY <1>1, <1>12 DEF Wiring
    <3>3. c \in 0 .. NRanks
      BY <1>2, <1>3
    <3> DEFINE s == Names(r, c)
    <3>4. /\ s \in Seq(EntrySet) /\ Len(s) = c
          /\ \A k \in 1 .. c : k - 1 \in Ranks /\ s[k] = Entry(r, k - 1)
      BY <1>1, <3>2, <3>3, NamesFacts
    <3> HIDE DEF s
    <3> DEFINE t == [k \in 1 .. c + 1 |-> Entry(r, k - 1)']
               u == Append(s, Entry(r, c)')
    <3>5. /\ u \in Seq(EntrySet) /\ Len(u) = c + 1 /\ u[c + 1] = Entry(r, c)'
          /\ \A k \in 1 .. c : u[k] = s[k]
      BY <3>4, <1>3, <1>15
    <3>6. \A k \in 1 .. c : Entry(r, k - 1)' = Entry(r, k - 1)
      <4>1. \A k \in 1 .. c : k - 1 # c
        BY <1>3
      <4> QED  BY <3>4, <1>13, <4>1
    <3> HIDE DEF u
    <3>7. \A k \in 1 .. c + 1 : u[k] = Entry(r, k - 1)'
      <4>1. (c + 1) - 1 = c /\ \A k \in 1 .. c + 1 : k \in 1 .. c \/ k = c + 1
        BY <1>3
      <4>2. ASSUME NEW k \in 1 .. c  PROVE u[k] = Entry(r, k - 1)'
        BY <3>4, <3>5, <3>6
      <4>3. u[c + 1] = Entry(r, (c + 1) - 1)'
        BY <3>5, <4>1
      <4> QED  BY <4>1, <4>2, <4>3
    <3>8. u = [k \in 1 .. c + 1 |-> u[k]]
      BY <3>5, LenProperties
    <3>9. u = t
      BY <3>7, <3>8
    <3>11. l_archive'[r] = u
      BY <3>1, <1>5, <1>14, <1>1 DEF u, s, Types
    <3>12. Names(r, Created(r))' = t
      BY <1>12 DEF Names
    <3> QED  BY <3>9, <3>11, <3>12, <2>3, <1>11, <1>5 DEF Local
  <2> QED  BY <2>2, <2>3
<1>25. ASSUME NEW q \in Ranks  PROVE Wiring(q)'
  <2>1. Wiring(q) /\ pc[q] \in Early
    BY <1>11 DEF Boot
  <2>2. CASE q # r
    BY <2>1, <2>2, <1>9, <1>12, <1>5, ZenonT(40) DEF Wiring, Early, Late
  <2>3. CASE q = r
    <3>1. \A p \in Ranks : p < c + 1 => p < c \/ p = c
      BY <1>3 DEF Ranks
    <3>2. \A p \in Ranks : p < Created(r)' => qps'[r][p].qp_num \in QpNums
      BY <3>1, <1>9, <1>8, <1>12, <2>1, <2>3 DEF Wiring
    <3>3. \A p \in Ranks : qps'[r][p].state # "RTS"
      BY <1>9, <1>8, <2>1, <2>3 DEF Wiring, Early, Late
    <3> QED  BY <2>3, <3>2, <3>3, <1>3, <1>5 DEF Wiring
  <2> QED  BY <2>2, <2>3
<1>26. Published'
  <2> DEFINE C == {d \in Ranks \X Ranks : d[2] < Created(d[1])}
             D == {d \in Ranks \X Ranks : d[2] < Created(d[1])'}
             Old(d) == [key |-> Key(d[1], d[2]), value |-> Val(d[1], d[2]), due |-> 1]
             New(d) == [key |-> Key(d[1], d[2]), value |-> Val(d[1], d[2])', due |-> 1]
  <2>1. pub = {Old(d) : d \in C}
    BY <1>1 DEF Published
  <2>2. pub' = pub \cup {New(<<r, c>>)}
    BY <1>5, <1>6, <1>14
  <2>3. D = C \cup {<<r, c>>} /\ <<r, c>> \notin C
    <3>1. ASSUME NEW p \in Ranks, NEW k \in Ranks
          PROVE  k < Created(p)' <=> k < Created(p) \/ (p = r /\ k = c)
      BY <1>3, <1>12 DEF Ranks
    <3>2. ~ (c < Created(r))
      BY <1>3, <1>12
    <3>3. <<r, c>> \notin C
      BY <3>2
    <3>4. ASSUME NEW d \in Ranks \X Ranks  PROVE d \in D <=> d \in C \/ d = <<r, c>>
      <4>1. d[1] \in Ranks /\ d[2] \in Ranks /\ d = <<d[1], d[2]>>
        OBVIOUS
      <4>2. d[2] < Created(d[1])' <=> d[2] < Created(d[1]) \/ (d[1] = r /\ d[2] = c)
        BY <4>1, <3>1
      <4>3. d = <<r, c>> <=> d[1] = r /\ d[2] = c
        BY <4>1
      <4> QED  BY <4>2, <4>3
    <3>5. {<<r, c>>} \cup C \cup D \subseteq Ranks \X Ranks
      BY <1>3
    <3> HIDE DEF C, D, Old, New
    <3> QED  BY <3>3, <3>4, <3>5
  <2>4. \A d \in C : New(d) = Old(d)
    <3>1. \A d \in C : d[1] \in Ranks /\ d[2] \in Ranks /\ (d[1] # r \/ d[2] # c)
      BY <2>3
    <3> QED  BY <3>1, <1>13
  <2> HIDE DEF C, D, Old, New
  <2>5. pub' = {New(d) : d \in D}
    BY <2>1, <2>2, <2>3, <2>4
  <2> QED  BY <2>5 DEF Published, D, New, Key
<1>27. Wired'
  <2>1. \A q, p \in Ranks : qps[q][p].state # "RTS"
    BY <1>11 DEF Boot, Wiring, Early, Late
  <2>2. \A q, p \in Ranks : qps'[q][p].state # "RTS"
    BY <2>1, <1>9, <1>8
  <2> QED  BY <2>2 DEF Wired
<1> QED  BY <1>20, <1>21, <1>22, <1>23, <1>24, <1>25, <1>26, <1>27 DEF Boot

\* A rank enters a collective call.
LEMMA Appended ==
  ASSUME Types, NEW r \in Ranks, NEW d \in Nat \cup Seq(EntrySet), Contribute(r, d)
  PROVE  /\ coll' \in [Ranks -> Seq(Nat \cup Seq(EntrySet))]
         /\ \A q \in Ranks \ {r} : coll'[q] = coll[q]
         /\ \A q \in Ranks : Len(coll[q]) \in Nat /\ Len(coll'[q]) \in Nat
         /\ \A q \in Ranks : Len(coll'[q]) >= Len(coll[q])
         /\ Len(coll'[r]) = Len(coll[r]) + 1
         /\ coll'[r][Len(coll[r]) + 1] = d
         /\ \A k \in 1 .. Len(coll[r]) : coll'[r][k] = coll[r][k]
<1> DEFINE C == Nat \cup Seq(EntrySet)
<1>1. coll \in [Ranks -> Seq(C)]
  BY DEF Types
<1> PICK s \in Seq(C) : s = coll[r]
  BY <1>1
<1>2. d \in C
  OBVIOUS
<1> HIDE DEF C
<1> DEFINE u == Append(s, d)
<1>3. /\ u \in Seq(C) /\ Len(s) \in Nat /\ Len(u) = Len(s) + 1 /\ u[Len(s) + 1] = d
      /\ \A k \in 1 .. Len(s) : u[k] = s[k]
  BY <1>2
<1>4. coll' = [coll EXCEPT ![r] = u]
  BY DEF Contribute
<1> HIDE DEF u
<1>5. coll' \in [Ranks -> Seq(C)] /\ coll'[r] = u /\ \A q \in Ranks \ {r} : coll'[q] = coll[q]
  BY <1>1, <1>3, <1>4
<1>6. ASSUME NEW q \in Ranks
      PROVE  Len(coll[q]) \in Nat /\ Len(coll'[q]) \in Nat /\ Len(coll'[q]) >= Len(coll[q])
  <2>1. Len(coll[q]) \in Nat
    BY <1>1
  <2>2. CASE q = r
    BY <2>2, <1>3, <1>5
  <2>3. CASE q # r
    BY <2>1, <2>3, <1>5
  <2> QED  BY <2>1, <2>2, <2>3
<1> QED  BY <1>3, <1>5, <1>6 DEF C

\* What rank r publishes, once it is ready.
LEMMA LocalFacts ==
  ASSUME Boot, NEW r \in Ranks, Created(r) = NRanks
  PROVE  /\ Names(r, NRanks) \in Seq(EntrySet) /\ Len(Names(r, NRanks)) = NRanks
         /\ \A k \in 1 .. NRanks : k - 1 \in Ranks /\ Names(r, NRanks)[k] = Entry(r, k - 1)
         /\ pc[r] \in Early => l_archive[r] = Names(r, NRanks)
<1>1. Types /\ Wiring(r) /\ Local(r)
  BY DEF Boot
<1>2. NRanks \in 0 .. NRanks
  BY NRanksAssumption
<1>3. \A k \in Ranks : k < NRanks => qps[r][k].qp_num \in QpNums
  BY <1>1 DEF Wiring
<1>4. pc[r] \in Early => l_archive[r] = Names(r, NRanks)
  BY <1>1 DEF Local
<1> QED  BY <1>1, <1>2, <1>3, <1>4, NamesFacts

\* lcm_pm_barrier is entered with the number of names to send: all, or none.
LEMMA EnterStep ==
  ASSUME Boot, NEW r \in Ranks, PublishedBarrier(r) \/ ConnectedBarrier(r)
  PROVE  Boot'
<1> DEFINE pub1 == pc[r] = "create"
<1>1. Types /\ Phase(r) /\ Wiring(r) /\ Local(r) /\ Published /\ Contributed(r)
  BY DEF Boot
<1>2. NRanks \in Nat /\ NRanks > 0
  BY NRanksAssumption
<1>3. /\ pc[r] \in {"create", "connect"} /\ i[r] = NRanks /\ at[r] = "out"
      /\ at' = [at EXCEPT ![r] = "counts"]
      /\ Contribute(r, Len(l_archive[r]))
      /\ pc' = [pc EXCEPT ![r] = IF pub1 THEN "publishing" ELSE "connecting"]
      /\ UNCHANGED <<l_archive, g_archive, count_buf, pub, i, qps, rmrs>>
  BY DEF PublishedBarrier, ConnectedBarrier, Barrier, BarrierEnter
<1>4. Created(r) = NRanks
  BY <1>3 DEF Created
<1> PICK d \in Nat : d = Len(l_archive[r])
  BY <1>1 DEF Types
<1>5. d = IF pub1 THEN NRanks ELSE 0
  <2>1. CASE pub1
    BY <2>1, <1>4, LocalFacts DEF Early
  <2>2. CASE ~ pub1
    BY <2>2, <1>3, <1>1 DEF Local, Early
  <2> QED  BY <2>1, <2>2
<1>6. Contribute(r, d) /\ d \in Nat \cup Seq(EntrySet)
  BY <1>3
<1>7. /\ coll' \in [Ranks -> Seq(Nat \cup Seq(EntrySet))]
      /\ \A q \in Ranks \ {r} : coll'[q] = coll[q]
      /\ \A q \in Ranks : Len(coll[q]) \in Nat /\ Len(coll'[q]) \in Nat
      /\ \A q \in Ranks : Len(coll'[q]) >= Len(coll[q])
      /\ Len(coll'[r]) = Len(coll[r]) + 1
      /\ coll'[r][Len(coll[r]) + 1] = d
      /\ \A k \in 1 .. Len(coll[r]) : coll'[r][k] = coll[r][k]
  BY <1>1, <1>6, Appended
<1>8. /\ pub1 => Len(coll[r]) = 0
      /\ ~ pub1 => Len(coll[r]) = 2
  BY <1>1, <1>3 DEF Phase
<1>13. /\ pub1 => Len(coll'[r]) = 1 /\ coll'[r][1] = NRanks
       /\ ~ pub1 => /\ Len(coll'[r]) = 3 /\ coll'[r][3] = 0
                    /\ coll'[r][1] = coll[r][1] /\ coll'[r][2] = coll[r][2]
  <2>1. CASE pub1
    <3>1. Len(coll[r]) + 1 = 1
      BY <2>1, <1>8
    <3> QED  BY <2>1, <3>1, <1>5, <1>7
  <2>2. CASE ~ pub1
    <3>1. Len(coll[r]) = 2
      BY <2>2, <1>8
    <3>2. Len(coll[r]) + 1 = 3 /\ 1 \in 1 .. Len(coll[r]) /\ 2 \in 1 .. Len(coll[r])
      BY <3>1
    <3> QED  BY <2>2, <3>2, <1>5, <1>7
  <2> QED  BY <2>1, <2>2
<1>9. /\ pc'[r] = (IF pub1 THEN "publishing" ELSE "connecting") /\ at'[r] = "counts"
      /\ \A q \in Ranks \ {r} : pc'[q] = pc[q] /\ at'[q] = at[q]
  BY <1>1, <1>3 DEF Types
<1>10. ASSUME NEW q \in Ranks
       PROVE  /\ Created(q)' = Created(q) /\ (pc'[q] \in Early <=> pc[q] \in Early)
              /\ (pc'[q] \in Late <=> pc[q] \in Late) /\ (pc'[q] = "done" <=> pc[q] = "done")
  BY <1>3, <1>9 DEF Created, Early, Late
<1>11. \A q, k \in Ranks : qps'[q][k].qp_num = qps[q][k].qp_num
  BY <1>3
<1>12. \A q \in Ranks : Names(q, NRanks)' = Names(q, NRanks)
  BY <1>11, NamesKept
<1>20. Types'
  <2>1. pc' \in [Ranks -> Early \cup Late] /\ at' \in [Ranks -> {"out", "counts", "data"}]
    BY <1>1, <1>3 DEF Types, Early, Late
  <2> QED  BY <1>1, <1>3, <1>7, <2>1 DEF Types
<1>21. ASSUME NEW q \in Ranks  PROVE Phase(q)'
  <2>1. CASE q = r
    BY <2>1, <1>3, <1>13, <1>9 DEF Phase
  <2>2. CASE q # r
    BY <2>2, <1>3, <1>7, <1>9 DEF Phase, Boot
  <2> QED  BY <2>1, <2>2
<1>22. ASSUME NEW q \in Ranks  PROVE Fenced(q)'
  <2>1. Fenced(q)
    BY DEF Boot
  <2>2. ASSUME NEW p \in Ranks, NEW k \in Nat, Len(coll[p]) >= k  PROVE Len(coll'[p]) >= k
    BY <2>2, <1>7
  <2> QED  BY <2>1, <2>2, <1>10 DEF Fenced
<1>23. ASSUME NEW q \in Ranks  PROVE Contributed(q)'
  <2>1. CASE q # r
    BY <2>1, <1>7, <1>12 DEF Contributed, Boot
  <2>2. CASE q = r /\ pub1
    BY <2>2, <1>13 DEF Contributed
  <2>3. CASE q = r /\ ~ pub1
    <3>1. coll[r][1] = NRanks /\ coll[r][2] = Names(r, NRanks)
      BY <1>1, <1>8, <2>3 DEF Contributed
    <3> QED  BY <2>3, <3>1, <1>12, <1>13 DEF Contributed
  <2> QED  BY <2>1, <2>2, <2>3
<1>24. ASSUME NEW q \in Ranks  PROVE Counted(q)' /\ Local(q)' /\ Global(q)'
  <2>1. Counted(q) /\ Local(q) /\ Global(q)
    BY DEF Boot
  <2>2. Counted(q)'
    <3>1. CASE q = r
      BY <3>1, <1>9 DEF Counted
    <3>2. CASE q # r
      BY <3>2, <2>1, <1>9, <1>3 DEF Counted
    <3> QED  BY <3>1, <3>2
  <2>3. Local(q)'
    <3>1. Names(q, Created(q))' = Names(q, Created(q))
      BY <1>10, <1>3 DEF Names, Entry, Val
    <3> QED  BY <3>1, <2>1, <1>3, <1>10 DEF Local
  <2>4. Global(q)'
    <3>1. AllNames(g_archive[q])' <=> AllNames(g_archive[q])
      BY <1>3 DEF AllNames, Entry, Val
    <3> QED  BY <3>1, <2>1, <1>3, <1>10 DEF Global
  <2> QED  BY <2>2, <2>3, <2>4
<1>25. ASSUME NEW q \in Ranks  PROVE Wiring(q)'
  <2>1. Wiring(q)
    BY DEF Boot
  <2>2. CASE q # r
    BY <2>1, <2>2, <1>3, <1>9, <1>10 DEF Wiring
  <2>3. CASE q = r /\ pub1
    BY <2>1, <2>3, <1>3, <1>9, <1>10 DEF Wiring
  <2>4. CASE q = r /\ ~ pub1
    <3>1. \A p \in Ranks : p < i[r]
      BY <1>2, <1>3 DEF Ranks
    <3>2. \A p \in Ranks : qps'[r][p].state = "RTS"
      BY <2>1, <2>4, <3>1, <1>3 DEF Wiring
    <3> QED  BY <2>1, <2>4, <3>2, <1>3, <1>9, <1>10 DEF Wiring
  <2> QED  BY <2>2, <2>3, <2>4
<1>26. Published'
  <2>1. pub' = pub
    BY <1>3
  <2> QED  BY <2>1, <1>1, <1>10, <1>11, PublishedKept
<1>27. Wired'
  BY <1>3 DEF Boot, Wired
<1> QED  BY <1>20, <1>21, <1>22, <1>23, <1>24, <1>25, <1>26, <1>27 DEF Boot

\* Everybody has created its queue pairs once everybody has entered the first
\* barrier.
LEMMA AllCreated ==
  ASSUME Boot, NEW q \in Ranks, Len(coll[q]) # 0
  PROVE  Created(q) = NRanks
<1>1. Types /\ Phase(q)
  BY DEF Boot
<1> QED  BY <1>1 DEF Phase, Created

\* The counts are there, the names are sent.
LEMMA CountsStep ==
  ASSUME Boot, NEW r \in Ranks, PublishedBarrierStep(r) \/ ConnectedBarrierStep(r),
         BarrierCounts(r)
  PROVE  Boot'
<1> DEFINE first == pc[r] = "publishing"
<1>1. Types /\ Phase(r) /\ Wiring(r) /\ Local(r) /\ Published /\ Contributed(r)
  BY DEF Boot
<1>2. NRanks \in Nat /\ NRanks > 0
  BY NRanksAssumption
<1>3. /\ pc[r] \in {"publishing", "connecting"} /\ at[r] = "counts"
      /\ at' = [at EXCEPT ![r] = "data"]
      /\ AllEntered(r)
      /\ count_buf' = [count_buf EXCEPT ![r] = [q \in Ranks |-> From(r, q)]]
      /\ Contribute(r, l_archive[r])
      /\ UNCHANGED <<l_archive, g_archive, pub, qps, rmrs>>
  BY DEF PublishedBarrierStep, ConnectedBarrierStep, BarrierStep, BarrierCounts
<1>4. at'[r] = "data" /\ \A q \in Ranks \ {r} : at'[q] = at[q]
  BY <1>1, <1>3 DEF Types
<1>5. UNCHANGED <<pc, i>>
  BY <1>4 DEF PublishedBarrierStep, ConnectedBarrierStep, BarrierStep
<1>6. Len(coll[r]) = IF first THEN 1 ELSE 3
  BY <1>1, <1>3 DEF Phase
<1>7. Created(r) = NRanks
  BY <1>3 DEF Created
<1>8. l_archive[r] = IF first THEN Names(r, NRanks) ELSE <<>>
  BY <1>1, <1>3, <1>7 DEF Local, Early
<1> PICK d \in Seq(EntrySet) : d = l_archive[r]
  BY <1>1 DEF Types
<1>9. Contribute(r, d) /\ d \in Nat \cup Seq(EntrySet)
  BY <1>3
<1>10. /\ coll' \in [Ranks -> Seq(Nat \cup Seq(EntrySet))]
       /\ \A q \in Ranks \ {r} : coll'[q] = coll[q]
       /\ \A q \in Ranks : Len(coll[q]) \in Nat /\ Len(coll'[q]) \in Nat
       /\ \A q \in Ranks : Len(coll'[q]) >= Len(coll[q])
       /\ Len(coll'[r]) = Len(coll[r]) + 1
       /\ coll'[r][Len(coll[r]) + 1] = d
       /\ \A k \in 1 .. Len(coll[r]) : coll'[r][k] = coll[r][k]
  BY <1>1, <1>9, Appended
<1>11. \A q \in Ranks : Names(q, NRanks)' = Names(q, NRanks)
  BY <1>3, NamesKept
<1>12. ASSUME NEW q \in Ranks  PROVE From(r, q) = IF first THEN NRanks ELSE 0
  <2>1. Len(coll[q]) >= Len(coll[r]) /\ Contributed(q)
    BY <1>3 DEF AllEntered, Boot
  <2>2. CASE first
    BY <2>1, <2>2, <1>6 DEF Contributed, From
  <2>3. CASE ~ first
    BY <2>1, <2>3, <1>6 DEF Contributed, From
  <2> QED  BY <2>2, <2>3
<1>13. count_buf'[r] = [q \in Ranks |-> IF first THEN NRanks ELSE 0]
  BY <1>1, <1>3, <1>12 DEF Types
<1>14. \A q \in Ranks \ {r} : count_buf'[q] = count_buf[q]
  BY <1>1, <1>3 DEF Types
<1>15. \A q \in Ranks : Created(q)' = Created(q)
  BY <1>5 DEF Created
<1>20. Types'
  <2>1. at' \in [Ranks -> {"out", "counts", "data"}]
    BY <1>1, <1>3 DEF Types
  <2>2. [q \in Ranks |-> From(r, q)] \in [Ranks -> Nat]
    BY <1>2, <1>12
  <2>3. count_buf' \in [Ranks -> [Ranks -> Nat]]
    BY <2>2, <1>1, <1>3 DEF Types
  <2> QED  BY <1>1, <1>3, <1>5, <1>10, <2>1, <2>3 DEF Types
<1>21. ASSUME NEW q \in Ranks  PROVE Phase(q)'
  <2>1. CASE q = r
    <3>1. Len(coll'[r]) = IF first THEN 2 ELSE 4
      BY <1>6, <1>10
    <3>2. i[r] = NRanks
      BY <1>1, <1>3 DEF Phase
    <3> QED  BY <2>1, <3>1, <3>2, <1>3, <1>4, <1>5 DEF Phase
  <2>2. CASE q # r
    BY <2>2, <1>4, <1>5, <1>10 DEF Phase, Boot
  <2> QED  BY <2>1, <2>2
<1>22. ASSUME NEW q \in Ranks  PROVE Fenced(q)'
  <2>1. Fenced(q)
    BY DEF Boot
  <2>2. ASSUME NEW p \in Ranks, NEW k \in Nat, Len(coll[p]) >= k  PROVE Len(coll'[p]) >= k
    BY <2>2, <1>10
  <2> QED  BY <2>1, <2>2, <1>5 DEF Fenced
<1>23. ASSUME NEW q \in Ranks  PROVE Contributed(q)'
  <2>1. CASE q # r
    BY <2>1, <1>10, <1>11 DEF Contributed, Boot
  <2>2. CASE q = r /\ first
    <3>1. Len(coll[r]) = 1
      BY <2>2, <1>6
    <3>2. Len(coll'[r]) = 2 /\ coll'[r][2] = d /\ coll'[r][1] = coll[r][1]
      BY <3>1, <1>10
    <3>3. d = Names(r, NRanks) /\ coll[r][1] = NRanks
      BY <2>2, <3>1, <1>1, <1>8 DEF Contributed
    <3> QED  BY <2>2, <3>2, <3>3, <1>11 DEF Contributed
  <2>3. CASE q = r /\ ~ first
    <3>1. Len(coll[r]) = 3
      BY <2>3, <1>6
    <3>2. 1 \in 1 .. Len(coll[r]) /\ 2 \in 1 .. Len(coll[r]) /\ 3 \in 1 .. Len(coll[r])
      BY <3>1
    <3>3. /\ Len(coll'[r]) = 4 /\ coll'[r][4] = d /\ coll'[r][1] = coll[r][1]
          /\ coll'[r][2] = coll[r][2] /\ coll'[r][3] = coll[r][3]
      BY <3>1, <3>2, <1>10
    <3>4. d = <<>> /\ coll[r][1] = NRanks /\ coll[r][2] = Names(r, NRanks) /\ coll[r][3] = 0
      BY <2>3, <3>1, <1>1, <1>8 DEF Contributed
    <3> QED  BY <2>3, <3>3, <3>4, <1>11 DEF Contributed
  <2> QED  BY <2>1, <2>2, <2>3
<1>24. ASSUME NEW q \in Ranks  PROVE Counted(q)' /\ Local(q)' /\ Global(q)' /\ Wiring(q)'
  <2>1. Counted(q) /\ Local(q) /\ Global(q) /\ Wiring(q)
    BY DEF Boot
  <2>2. Counted(q)'
    <3>1. CASE q = r
      BY <3>1, <1>5, <1>13 DEF Counted
    <3>2. CASE q # r
      BY <3>2, <2>1, <1>4, <1>5, <1>14 DEF Counted
    <3> QED  BY <3>1, <3>2
  <2>3. Local(q)'
    <3>1. Names(q, Created(q))' = Names(q, Created(q))
      BY <1>3, <1>15 DEF Names, Entry, Val
    <3> QED  BY <3>1, <2>1, <1>3, <1>5 DEF Local
  <2>4. Global(q)'
    <3>1. AllNames(g_archive[q])' <=> AllNames(g_archive[q])
      BY <1>3 DEF AllNames, Entry, Val
    <3> QED  BY <3>1, <2>1, <1>3, <1>5 DEF Global
  <2>5. Wiring(q)'
    BY <2>1, <1>3, <1>5, <1>15 DEF Wiring
  <2> QED  BY <2>2, <2>3, <2>4, <2>5
<1>25. Published'
  <2>1. pub' = pub /\ \A q, k \in Ranks : qps'[q][k].qp_num = qps[q][k].qp_num
    BY <1>3
  <2> QED  BY <2>1, <1>1, <1>15, PublishedKept
<1>26. Wired'
  BY <1>3 DEF Boot, Wired
<1> QED  BY <1>20, <1>21, <1>22, <1>23, <1>24, <1>25, <1>26 DEF Boot

\* The names every rank contributed, one rank after the other, are all names,
\* each once.
LEMMA GatheredNames ==
  ASSUME Boot, \A q \in Ranks : Created(q) = NRanks,
         NEW s, Len(s) = NRanks, \A p \in 1 .. NRanks : s[p] = Names(p - 1, NRanks)
  PROVE  FlattenSeq(s) \in Seq(EntrySet) /\ AllNames(FlattenSeq(s))
<1>1. NRanks \in Nat \ {0} /\ Types
  BY NRanksAssumption DEF Boot
<1>2. /\ \A p \in 1 .. NRanks : p - 1 \in Ranks
      /\ \A q \in Ranks : q + 1 \in 1 .. NRanks /\ (q + 1) - 1 = q
  BY <1>1 DEF Ranks
<1>3. ASSUME NEW p \in 1 .. NRanks
      PROVE  /\ s[p] \in Seq(EntrySet) /\ Len(s[p]) = NRanks
             /\ \A k \in 1 .. NRanks : s[p][k] = Entry(p - 1, k - 1)
  BY <1>2, LocalFacts
<1> DEFINE F == FlattenSeq(s)
<1>4. F \in Seq(EntrySet) /\ Holds(s, NRanks, F) /\ (Distinct(s, NRanks) => Once(F))
  BY <1>1, <1>3, FlattenHolds
<1> HIDE DEF F
<1>5. ASSUME NEW j \in 1 .. NRanks, NEW l \in 1 .. NRanks, NEW k \in 1 .. Len(s[j]),
             NEW m \in 1 .. Len(s[l]), s[j][k] = s[l][m]
      PROVE  j = l /\ k = m
  <2>1. k \in 1 .. NRanks /\ m \in 1 .. NRanks
    BY <1>3
  <2>2. Entry(j - 1, k - 1) = Entry(l - 1, m - 1)
    BY <1>3, <1>5, <2>1
  <2>3. j - 1 \in Ranks /\ k - 1 \in Ranks /\ l - 1 \in Ranks /\ m - 1 \in Ranks
    BY <1>2, <2>1
  <2>4. j - 1 = l - 1 /\ k - 1 = m - 1
    BY <2>2, <2>3, <1>1, EntryFacts
  <2> QED  BY <2>1, <2>4
<1>6. Once(F)
  BY <1>4, <1>5 DEF Distinct
<1>7. ASSUME NEW a \in 1 .. Len(F)  PROVE \E q, k \in Ranks : F[a] = Entry(q, k)
  <2>1. PICK p \in 1 .. NRanks : \E k \in 1 .. Len(s[p]) : F[a] = s[p][k]
    BY <1>4 DEF Holds
  <2>2. PICK k \in 1 .. Len(s[p]) : F[a] = s[p][k]
    BY <2>1
  <2>3. k \in 1 .. NRanks /\ F[a] = Entry(p - 1, k - 1)
    BY <2>2, <1>3
  <2> QED  BY <2>3, <1>2
<1>8. ASSUME NEW q \in Ranks, NEW k \in Ranks
      PROVE  \E a \in 1 .. Len(F) : F[a] = Entry(q, k)
  <2>1. q + 1 \in 1 .. NRanks /\ k + 1 \in 1 .. NRanks
    BY <1>2
  <2>2. k + 1 \in 1 .. Len(s[q + 1]) /\ s[q + 1][k + 1] = Entry((q + 1) - 1, (k + 1) - 1)
    BY <2>1, <1>3
  <2>3. s[q + 1][k + 1] = Entry(q, k)
    BY <2>2, <1>2
  <2> QED  BY <2>1, <2>2, <2>3, <1>4, ZenonT(40) DEF Holds
<1> QED  BY <1>4, <1>6, <1>7, <1>8 DEF F, AllNames, Once

\* Nothing contributed is nothing received.
LEMMA GatheredNothing ==
  ASSUME NEW s, Len(s) = NRanks, \A p \in 1 .. NRanks : s[p] = <<>>
  PROVE  FlattenSeq(s) = <<>>
<1>1. NRanks \in Nat \ {0}
  BY NRanksAssumption
<1>2. \A p \in 1 .. NRanks : s[p] \in Seq(EntrySet) /\ Len(s[p]) = 0
  BY EmptySeq
<1> DEFINE F == FlattenSeq(s)
<1>3. F \in Seq(EntrySet) /\ Holds(s, NRanks, F)
  BY <1>1, <1>2, FlattenHolds
<1> HIDE DEF F
<1>4. ASSUME NEW a \in 1 .. Len(F)  PROVE FALSE
  BY <1>2, <1>3 DEF Holds
<1>5. Len(F) = 0
  BY <1>3, <1>4
<1> QED  BY <1>3, <1>5 DEF F

\* The names of all ranks are there: everybody has entered the barrier.
LEMMA DataStep ==
  ASSUME Boot, NEW r \in Ranks, PublishedBarrierStep(r) \/ ConnectedBarrierStep(r),
         BarrierData(r)
  PROVE  Boot'
<1> DEFINE first == pc[r] = "publishing"
           parts == [p \in 1 .. NRanks |-> SubSeq(From(r, p - 1), 1, count_buf[r][p - 1])]
           dst == FlattenSeq(parts)
<1>1. Types /\ Phase(r) /\ Wiring(r) /\ Local(r) /\ Published /\ Counted(r) /\ Global(r)
  BY DEF Boot
<1>2. NRanks \in Nat \ {0}
  BY NRanksAssumption
<1>3. /\ pc[r] \in {"publishing", "connecting"} /\ at[r] = "data"
      /\ at' = [at EXCEPT ![r] = "out"]
      /\ AllEntered(r)
      /\ g_archive' = [g_archive EXCEPT ![r] = g_archive[r] \o dst]
      /\ l_archive' = [l_archive EXCEPT ![r] = <<>>]
      /\ UNCHANGED <<coll, count_buf, pub, qps, rmrs>>
  BY DEF PublishedBarrierStep, ConnectedBarrierStep, BarrierStep, BarrierData, PushGlobal,
         ClearLocal
<1>4. at'[r] = "out" /\ \A q \in Ranks \ {r} : at'[q] = at[q]
  BY <1>1, <1>3 DEF Types
<1>5. /\ pc' = [pc EXCEPT ![r] = IF first THEN "connect" ELSE "done"]
      /\ i' = [i EXCEPT ![r] = 0]
  BY <1>3, <1>4 DEF PublishedBarrierStep, ConnectedBarrierStep, BarrierStep
<1>6. /\ pc'[r] = (IF first THEN "connect" ELSE "done") /\ i'[r] = 0
      /\ \A q \in Ranks \ {r} : pc'[q] = pc[q] /\ i'[q] = i[q]
  BY <1>1, <1>5 DEF Types
<1>7. Len(coll[r]) = IF first THEN 2 ELSE 4
  BY <1>1, <1>3 DEF Phase
<1>8. ASSUME NEW q \in Ranks
      PROVE  /\ Len(coll[q]) >= (IF first THEN 2 ELSE 4) /\ Len(coll[q]) \in Nat
             /\ Created(q) = NRanks
  <2>1. Len(coll[q]) >= (IF first THEN 2 ELSE 4)
    BY <1>3, <1>7 DEF AllEntered
  <2>2. Len(coll[q]) \in Nat
    BY <1>1 DEF Types
  <2>3. Len(coll[q]) # 0
    BY <2>1, <2>2
  <2> QED  BY <2>1, <2>2, <2>3, AllCreated
<1>9. ASSUME NEW q \in Ranks  PROVE Created(q)' = Created(q)
  <2>1. CASE q = r
    BY <2>1, <1>6, <1>8 DEF Created
  <2>2. CASE q # r
    BY <2>2, <1>6 DEF Created
  <2> QED  BY <2>1, <2>2
<1>10. ASSUME NEW p \in 1 .. NRanks
       PROVE  parts[p] = IF first THEN Names(p - 1, NRanks) ELSE <<>>
  <2>1. p - 1 \in Ranks
    BY <1>2 DEF Ranks
  <2> PICK q \in Ranks : q = p - 1
    BY <2>1
  <2>2. parts[p] = SubSeq(From(r, q), 1, count_buf[r][q])
    OBVIOUS
  <2>3. count_buf[r][q] = IF first THEN NRanks ELSE 0
    BY <1>1, <1>3 DEF Counted
  <2>4. CASE first
    <3>1. From(r, q) = Names(q, NRanks)
      BY <2>4, <1>7, <1>8 DEF From, Boot, Contributed
    <3>2. Names(q, NRanks) \in Seq(EntrySet) /\ Len(Names(q, NRanks)) = NRanks
      BY <1>8, LocalFacts
    <3>3. SubSeq(Names(q, NRanks), 1, NRanks) = Names(q, NRanks)
      BY <3>2, SubSeqFull
    <3> QED  BY <2>2, <2>3, <2>4, <3>1, <3>3
  <2>5. CASE ~ first
    <3>1. SubSeq(From(r, q), 1, 0) = <<>>
      BY SubSeqEmpty
    <3> QED  BY <2>2, <2>3, <2>5, <3>1
  <2> QED  BY <2>4, <2>5
<1>11. Len(parts) = NRanks
  <2>1. parts \in [1 .. NRanks -> {parts[p] : p \in 1 .. NRanks}]
    OBVIOUS
  <2>2. parts \in Seq({parts[p] : p \in 1 .. NRanks})
    BY <2>1, <1>2, SeqDef, ZenonT(40)
  <2>3. DOMAIN parts = 1 .. NRanks
    OBVIOUS
  <2> HIDE DEF parts
  <2> QED  BY <2>2, <2>3, <1>2, LenProperties
<1> HIDE DEF parts
<1>12. /\ first => dst \in Seq(EntrySet) /\ AllNames(dst)
       /\ ~ first => dst = <<>>
  <2>1. ASSUME first  PROVE dst \in Seq(EntrySet) /\ AllNames(dst)
    <3>1. \A p \in 1 .. NRanks : parts[p] = Names(p - 1, NRanks)
      BY <2>1, <1>10
    <3>2. \A q \in Ranks : Created(q) = NRanks
      BY <1>8
    <3> QED  BY <3>1, <3>2, <1>11, GatheredNames
  <2>2. ASSUME ~ first  PROVE dst = <<>>
    <3>1. \A p \in 1 .. NRanks : parts[p] = <<>>
      BY <2>2, <1>10
    <3> QED  BY <3>1, <1>11, GatheredNothing
  <2> QED  BY <2>1, <2>2
<1> HIDE DEF dst
<1>13. g_archive[r] \in Seq(EntrySet) /\ (first => g_archive[r] = <<>>)
  BY <1>1 DEF Types, Global, Early
<1>14. g_archive[r] \o dst = (IF first THEN dst ELSE g_archive[r])
  BY <1>12, <1>13, ConcatEmptySeq
<1>15. /\ g_archive' \in [Ranks -> Seq(EntrySet)]
       /\ g_archive'[r] = IF first THEN dst ELSE g_archive[r]
       /\ \A q \in Ranks \ {r} : g_archive'[q] = g_archive[q]
  <2>1. g_archive \in [Ranks -> Seq(EntrySet)]
    BY <1>1 DEF Types
  <2>2. g_archive[r] \o dst \in Seq(EntrySet)
    BY <1>12, <1>13, <1>14
  <2> QED  BY <2>1, <2>2, <1>3, <1>14
<1>20. Types'
  <2>1. at' \in [Ranks -> {"out", "counts", "data"}]
    BY <1>1, <1>3 DEF Types
  <2>2. pc' \in [Ranks -> Early \cup Late]
    BY <1>1, <1>5 DEF Types, Early, Late
  <2>3. i' \in [Ranks -> 0 .. NRanks]
    <3>1. 0 \in 0 .. NRanks
      BY <1>2
    <3> QED  BY <3>1, <1>1, <1>5 DEF Types
  <2>4. l_archive' \in [Ranks -> Seq(EntrySet)]
    <3>1. <<>> \in Seq(EntrySet)
      OBVIOUS
    <3> QED  BY <3>1, <1>1, <1>3 DEF Types
  <2> QED  BY <1>1, <1>3, <1>15, <2>1, <2>2, <2>3, <2>4 DEF Types
<1>21. ASSUME NEW q \in Ranks  PROVE Phase(q)'
  <2>1. CASE q = r
    BY <2>1, <1>3, <1>4, <1>6, <1>7 DEF Phase
  <2>2. CASE q # r
    BY <2>2, <1>3, <1>4, <1>6 DEF Phase, Boot
  <2> QED  BY <2>1, <2>2
<1>22. ASSUME NEW q \in Ranks  PROVE Fenced(q)'
  <2>1. CASE q = r
    BY <2>1, <1>3, <1>6, <1>8 DEF Fenced
  <2>2. CASE q # r
    BY <2>2, <1>3, <1>6 DEF Fenced, Boot
  <2> QED  BY <2>1, <2>2
<1>23. ASSUME NEW q \in Ranks  PROVE Contributed(q)'
  <2>1. Names(q, NRanks)' = Names(q, NRanks)
    BY <1>3, NamesKept
  <2> QED  BY <2>1, <1>3 DEF Contributed, Boot
<1>24. ASSUME NEW q \in Ranks  PROVE Counted(q)' /\ Local(q)' /\ Global(q)' /\ Wiring(q)'
  <2>1. Counted(q) /\ Local(q) /\ Global(q) /\ Wiring(q)
    BY DEF Boot
  <2>2. Counted(q)'
    <3>1. CASE q = r
      BY <3>1, <1>4 DEF Counted
    <3>2. CASE q # r
      BY <3>2, <2>1, <1>3, <1>4, <1>6 DEF Counted
    <3> QED  BY <3>1, <3>2
  <2>3. Local(q)'
    <3>1. CASE q = r
      <4>1. l_archive'[r] = <<>>
        BY <1>1, <1>3 DEF Types
      <4> QED  BY <3>1, <4>1, <1>6 DEF Local, Early
    <3>2. CASE q # r
      <4>1. Names(q, Created(q))' = Names(q, Created(q))
        BY <1>3, <1>9 DEF Names, Entry, Val
      <4>2. l_archive'[q] = l_archive[q]
        BY <3>2, <1>1, <1>3 DEF Types
      <4> QED  BY <3>2, <4>1, <4>2, <2>1, <1>6 DEF Local
    <3> QED  BY <3>1, <3>2
  <2>4. Global(q)'
    <3>1. \A p, k \in Ranks : Entry(p, k)' = Entry(p, k)
      BY <1>3 DEF Entry, Val, Key
    <3>2. CASE q = r
      <4>1. AllNames(g_archive'[r])
        <5>1. CASE first
          BY <5>1, <1>12, <1>15
        <5>2. CASE ~ first
          BY <5>2, <1>1, <1>3, <1>15 DEF Global, Early
        <5> QED  BY <5>1, <5>2
      <4>2. AllNames(g_archive[r])'
        BY <4>1, <3>1, AllNamesKept
      <4> QED  BY <3>2, <4>2, <1>6 DEF Global, Early
    <3>3. CASE q # r
      <4>1. g_archive'[q] = g_archive[q] /\ pc'[q] = pc[q]
        BY <3>3, <1>6, <1>15
      <4>2. AllNames(g_archive[q]) => AllNames(g_archive[q])'
        BY <3>1, <4>1, AllNamesKept
      <4> QED  BY <4>1, <4>2, <2>1 DEF Global
    <3> QED  BY <3>2, <3>3
  <2>5. Wiring(q)'
    <3>1. CASE q = r
      <4>1. \A p \in Ranks : ~ (p < 0)
        BY DEF Ranks
      <4>2. ~ first => \A p \in Ranks : qps[r][p].state = "RTS"
        BY <1>1, <1>3 DEF Wiring
      <4>3. pc'[r] \in Late
        BY <1>6 DEF Late
      <4> QED  BY <2>1, <3>1, <4>1, <4>2, <4>3, <1>3, <1>6, <1>9 DEF Wiring
    <3>2. CASE q # r
      BY <2>1, <3>2, <1>3, <1>6, <1>9 DEF Wiring
    <3> QED  BY <3>1, <3>2
  <2> QED  BY <2>2, <2>3, <2>4, <2>5
<1>25. Published'
  <2>1. pub' = pub /\ \A q, k \in Ranks : qps'[q][k].qp_num = qps[q][k].qp_num
    BY <1>3
  <2> QED  BY <2>1, <1>1, <1>9, PublishedKept
<1>26. Wired'
  BY <1>3 DEF Boot, Wired
<1> QED  BY <1>20, <1>21, <1>22, <1>23, <1>24, <1>25, <1>26 DEF Boot

\* archive_search finds the first entry with the key.
LEMMA FirstFound ==
  ASSUME Types, NEW r \in Ranks, NEW key, NEW j \in 1 .. Len(g_archive[r]),
         g_archive[r][j].key = key
  PROVE  /\ Found(r, key) \in 1 .. Len(g_archive[r])
         /\ g_archive[r][Found(r, key)].key = key
<1> DEFINE I == {k \in 1 .. Len(g_archive[r]) : g_archive[r][k].key = key}
<1>1. I # {} /\ I \in SUBSET Nat
  <2>1. Len(g_archive[r]) \in Nat
    BY DEF Types
  <2> QED  BY <2>1
<1>2. Found(r, key) = Min(I)
  BY <1>1 DEF Found, SelectInSeq
<1> HIDE DEF I
<1>3. PICK x \in I : \A y \in I : x <= y
  BY <1>1, LeastNatural
<1>4. Min(I) \in I
  BY <1>3 DEF Min
<1> QED  BY <1>2, <1>4 DEF I

\* After the first barrier every rank finds every name.
LEMMA Lookup ==
  ASSUME Boot, NEW r \in Ranks, pc[r] \in Late, NEW q \in Ranks, NEW k \in Ranks
  PROVE  HasName(r, Key(q, k)) /\ getname(r, Key(q, k)) = Val(q, k)
<1>1. Types /\ AllNames(g_archive[r])
  <2>1. Types /\ Global(r)
    BY DEF Boot
  <2>2. pc[r] \notin Early
    BY DEF Early, Late
  <2> QED  BY <2>1, <2>2 DEF Global
<1>2. PICK j \in 1 .. Len(g_archive[r]) : g_archive[r][j] = Entry(q, k)
  BY <1>1 DEF AllNames
<1>3. g_archive[r][j].key = Key(q, k)
  BY <1>2 DEF Entry
<1> PICK m \in 1 .. Len(g_archive[r]) : m = Found(r, Key(q, k))
  BY <1>1, <1>3, FirstFound
<1>4. g_archive[r][m].key = Key(q, k)
  BY <1>1, <1>3, FirstFound
<1>5. PICK p \in Ranks, l \in Ranks : g_archive[r][m] = Entry(p, l)
  BY <1>1 DEF AllNames
<1>6. Key(p, l) = Key(q, k)
  BY <1>4, <1>5 DEF Entry
<1>7. p = q /\ l = k
  BY <1>6 DEF Key
<1>8. g_archive[r][m].value = Val(q, k)
  BY <1>5, <1>7 DEF Entry
<1>9. m # 0
  BY <1>1 DEF Types
<1> QED  BY <1>8, <1>9 DEF HasName, getname

\* ConnectQp finds the name and connects to the queue pair it names.
LEMMA ConnectStep ==
  ASSUME Boot, NEW r \in Ranks, ConnectQp(r)
  PROVE  Boot'
<1>1. Types /\ Phase(r) /\ Wiring(r) /\ Fenced(r) /\ Published
  BY DEF Boot
<1>2. NRanks \in Nat /\ NRanks > 0
  BY NRanksAssumption
<1> PICK c \in Int : c = i[r]
  BY <1>1, <1>2 DEF Types
<1>3. pc[r] = "connect" /\ c \in Nat /\ c < NRanks /\ c \in Ranks
  <2>1. c \in 0 .. NRanks /\ c < NRanks
    BY <1>1 DEF Types, ConnectQp, MoreRanks
  <2>2. c \in Nat /\ c \in Ranks
    BY <2>1, <1>2 DEF Ranks
  <2> QED  BY <2>1, <2>2 DEF ConnectQp
<1>4. HasName(r, Key(c, r)) /\ getname(r, Key(c, r)) = Val(c, r)
  BY <1>3, Lookup DEF Late
<1> DEFINE ep == Val(c, r)
           new == [qps[r][c] EXCEPT !.state = "RTS", !.dest_qp_num = ep.qp_num,
                                    !.dest_lid = ep.lid]
<1>5. /\ qps' = [qps EXCEPT ![r] = [qps[r] EXCEPT ![c] = new]]
      /\ rmrs' = [rmrs EXCEPT ![r][c] = ep.mr_addr]
      /\ i' = [i EXCEPT ![r] = c + 1]
      /\ UNCHANGED <<pc, pmVars>>
  BY <1>4 DEF ConnectQp, PeerKey
<1>6. ASSUME NEW q \in Ranks  PROVE Created(q) = NRanks /\ Len(coll[q]) >= 2
  <2>1. Len(coll[q]) >= 2 /\ Len(coll[q]) \in Nat
    BY <1>1, <1>3 DEF Fenced, Late, Types
  <2>2. Len(coll[q]) # 0
    BY <2>1
  <2> QED  BY <2>1, <2>2, AllCreated
<1>7. ep.qp_num = qps[c][r].qp_num /\ ep.lid = c /\ ep.mr_addr = c
  BY DEF Val
<1>8. qps[c][r].qp_num \in QpNums /\ qps[r][c] \in Qp
  <2>1. Wiring(c) /\ r < Created(c)
    BY <1>2, <1>3, <1>6 DEF Boot, Ranks
  <2>2. qps[r][c] \in Qp
    BY <1>1, <1>3 DEF Types
  <2> QED  BY <2>1, <2>2 DEF Wiring
<1>9. /\ new \in Qp /\ new.qp_num = qps[r][c].qp_num /\ new.state = "RTS"
      /\ new.dest_qp_num = qps[c][r].qp_num /\ new.dest_lid = c
  BY <1>3, <1>7, <1>8 DEF Qp
<1> HIDE DEF new, ep
<1>10. /\ qps' \in [Ranks -> [Ranks -> Qp]] /\ qps'[r][c] = new
       /\ \A q, k \in Ranks : q # r \/ k # c => qps'[q][k] = qps[q][k]
  <2>1. qps \in [Ranks -> [Ranks -> Qp]]
    BY <1>1 DEF Types
  <2> QED  BY <2>1, <1>3, <1>5, <1>9
<1>11. /\ rmrs' \in [Ranks -> [Ranks -> Int]] /\ rmrs'[r][c] = c
       /\ \A q, k \in Ranks : q # r \/ k # c => rmrs'[q][k] = rmrs[q][k]
  <2>1. rmrs \in [Ranks -> [Ranks -> Int]]
    BY <1>1 DEF Types
  <2>2. rmrs' = [rmrs EXCEPT ![r] = [rmrs[r] EXCEPT ![c] = c]]
    BY <1>5, <1>7
  <2> QED  BY <2>1, <2>2, <1>3
<1>12. ASSUME NEW q \in Ranks, NEW k \in Ranks  PROVE qps'[q][k].qp_num = qps[q][k].qp_num
  BY <1>9, <1>10
<1>13. /\ \A q, k \in Ranks : Entry(q, k)' = Entry(q, k) /\ Val(q, k)' = Val(q, k)
       /\ \A q \in Ranks : Names(q, NRanks)' = Names(q, NRanks)
  BY <1>12, NamesKept
<1>14. ASSUME NEW q \in Ranks  PROVE i'[q] = IF q = r THEN c + 1 ELSE i[q]
  BY <1>1, <1>5 DEF Types
<1>15. ASSUME NEW q \in Ranks  PROVE Created(q)' = Created(q)
  BY <1>3, <1>5, <1>14 DEF Created
<1>16. UNCHANGED <<pc, l_archive, g_archive, coll, at, count_buf, pub>>
  BY <1>5 DEF pmVars
<1>20. Types'
  <2>1. i' \in [Ranks -> 0 .. NRanks]
    <3>1. i \in [Ranks -> 0 .. NRanks]
      BY <1>1 DEF Types
    <3>2. c + 1 \in 0 .. NRanks
      BY <1>2, <1>3
    <3> QED  BY <3>1, <3>2, <1>5
  <2> QED  BY <1>1, <1>10, <1>11, <1>16, <2>1 DEF Types
<1>21. ASSUME NEW q \in Ranks  PROVE Phase(q)' /\ Fenced(q)' /\ Contributed(q)' /\ Counted(q)'
  <2>1. Phase(q) /\ Fenced(q) /\ Contributed(q) /\ Counted(q)
    BY DEF Boot
  <2>2. Phase(q)'
    BY <2>1, <1>3, <1>14, <1>16 DEF Phase
  <2>3. Fenced(q)' /\ Counted(q)'
    BY <2>1, <1>16 DEF Fenced, Counted
  <2>4. Contributed(q)'
    BY <2>1, <1>13, <1>16 DEF Contributed
  <2> QED  BY <2>2, <2>3, <2>4
<1>22. ASSUME NEW q \in Ranks  PROVE Local(q)'
  <2>1. Local(q)
    BY DEF Boot
  <2>2. CASE pc[q] \in Early
    <3>1. Names(q, Created(q))' = Names(q, Created(q))
      BY <1>6, <1>13, <1>15 DEF Names
    <3> QED  BY <2>1, <2>2, <3>1, <1>16 DEF Local
  <2>3. CASE pc[q] \notin Early
    BY <2>1, <2>3, <1>16 DEF Local
  <2> QED  BY <2>2, <2>3
<1>23. ASSUME NEW q \in Ranks  PROVE Global(q)'
  <2>1. Global(q)
    BY DEF Boot
  <2>2. AllNames(g_archive[q]) => AllNames(g_archive[q])'
    BY <1>13, <1>16, AllNamesKept
  <2> QED  BY <2>1, <2>2, <1>16 DEF Global
<1>24. ASSUME NEW q \in Ranks  PROVE Wiring(q)'
  <2>1. Wiring(q)
    BY DEF Boot
  <2>2. \A p \in Ranks : p < Created(q)' => qps'[q][p].qp_num \in QpNums
    BY <2>1, <1>12, <1>15 DEF Wiring
  <2>3. CASE q # r
    BY <2>1, <2>2, <2>3, <1>10, <1>14, <1>16 DEF Wiring
  <2>4. CASE q = r
    <3>1. \A p \in Ranks : p < c + 1 => p < c \/ p = c
      BY <1>3 DEF Ranks
    <3>2. \A p \in Ranks : p < i'[r] => qps'[r][p].state = "RTS"
      BY <2>1, <2>4, <3>1, <1>3, <1>9, <1>10, <1>14 DEF Wiring
    <3> QED  BY <2>2, <2>4, <3>2, <1>3, <1>16 DEF Wiring, Late
  <2> QED  BY <2>3, <2>4
<1>25. Published'
  BY <1>1, <1>12, <1>15, <1>16, PublishedKept
<1>26. Wired'
  <2>1. Wired
    BY DEF Boot
  <2>2. ASSUME NEW q \in Ranks, NEW p \in Ranks, qps'[q][p].state = "RTS"
        PROVE  /\ qps'[q][p].dest_qp_num = qps'[p][q].qp_num
               /\ qps'[q][p].dest_lid = p
               /\ rmrs'[q][p] = p
    <3>1. CASE q = r /\ p = c
      <4>1. qps'[r][c].dest_qp_num = qps[c][r].qp_num /\ qps'[r][c].dest_lid = c
        BY <1>9, <1>10
      <4>2. qps'[c][r].qp_num = qps[c][r].qp_num
        BY <1>3, <1>12
      <4> QED  BY <3>1, <4>1, <4>2, <1>11
    <3>2. CASE q # r \/ p # c
      <4>1. qps'[q][p] = qps[q][p] /\ rmrs'[q][p] = rmrs[q][p]
        BY <3>2, <1>10, <1>11
      <4> QED  BY <4>1, <2>1, <2>2, <1>12 DEF Wired
    <3> QED  BY <3>1, <3>2
  <2> QED  BY <2>2 DEF Wired
<1> QED  BY <1>20, <1>21, <1>22, <1>23, <1>24, <1>25, <1>26 DEF Boot

\* Every step of every rank keeps the invariant.
LEMMA NextBoot == Boot /\ [Next]_vars => Boot'
<1> SUFFICES ASSUME Boot, [Next]_vars  PROVE Boot'
  OBVIOUS
<1>1. ASSUME UNCHANGED vars  PROVE Boot'
  <2> USE <1>1 DEF vars, pmVars, bootVars
  <2>1. Types' /\ Wired' /\ \A q \in Ranks : Created(q)' = Created(q)
    BY DEF Boot, Types, Wired, Created
  <2>2. ASSUME NEW q \in Ranks  PROVE Phase(q)' /\ Fenced(q)' /\ Counted(q)' /\ Wiring(q)'
    BY <2>1 DEF Boot, Phase, Fenced, Counted, Wiring
  <2>3. /\ \A q, k \in Ranks : Entry(q, k)' = Entry(q, k)
        /\ \A q \in Ranks : Names(q, NRanks)' = Names(q, NRanks)
    BY NamesKept
  <2>4. ASSUME NEW q \in Ranks  PROVE Contributed(q)'
    BY <2>3 DEF Boot, Contributed
  <2>5. ASSUME NEW q \in Ranks  PROVE Local(q)'
    <3>1. Names(q, Created(q))' = Names(q, Created(q))
      BY <2>1 DEF Names, Entry, Val
    <3> QED  BY <3>1 DEF Boot, Local
  <2>6. ASSUME NEW q \in Ranks  PROVE Global(q)'
    <3>1. AllNames(g_archive[q]) => AllNames(g_archive[q])'
      BY <2>3, AllNamesKept
    <3> QED  BY <3>1 DEF Boot, Global
  <2>7. Published'
    BY <2>1, PublishedKept DEF Boot
  <2> QED  BY <2>1, <2>2, <2>4, <2>5, <2>6, <2>7 DEF Boot
<1>2. ASSUME NEW r \in Ranks, RankStep(r)  PROVE Boot'
  <2>1. CASE CreateQp(r)
    BY <2>1, CreateStep
  <2>2. CASE PublishedBarrier(r) \/ ConnectedBarrier(r)
    BY <2>2, EnterStep
  <2>3. CASE PublishedBarrierStep(r) \/ ConnectedBarrierStep(r)
    <3>1. BarrierCounts(r) \/ BarrierData(r)
      BY <2>3 DEF PublishedBarrierStep, ConnectedBarrierStep, BarrierStep, InBarrier
    <3> QED  BY <2>3, <3>1, CountsStep, DataStep
  <2>4. CASE ConnectQp(r)
    BY <2>4, ConnectStep
  <2> QED  BY <1>2, <2>1, <2>2, <2>3, <2>4 DEF RankStep
<1> QED  BY <1>1, <1>2 DEF Next, Terminating

\* Boot is an invariant of init over MPI.
THEOREM BootInvariant == Spec => []Boot
  BY InitBoot, NextBoot, PTL DEF Spec

\* Every connected queue pair leads to the one its peer created for it, and to
\* that peer's memory (the second loop of ibv::init).
THEOREM QueuePairsWired == Spec => []Wired
<1>1. Boot => Wired
  BY DEF Boot
<1> QED  BY <1>1, BootInvariant, PTL

\* Nobody returns from init before every queue pair of every rank is connected
\* (the barrier at the end of ibv::init).
THEOREM PeersReady == Spec => []ReadyToReceive
<1>1. Boot => ReadyToReceive
  <2> SUFFICES ASSUME Boot, NEW r \in Ranks, pc[r] = "done", NEW q \in Ranks, NEW p \in Ranks
               PROVE  qps[q][p].state = "RTS"
    BY DEF ReadyToReceive
  <2>0. Len(coll[q]) >= 4
    BY DEF Boot, Fenced
  <2>1. Types /\ Phase(q) /\ Wiring(q)
    BY DEF Boot
  <2> PICK n \in Nat : n = Len(coll[q])
    BY <2>1 DEF Types
  <2>2. pc[q] \in {"create", "publishing", "connect", "connecting", "done"}
    BY <2>1 DEF Types, Early, Late
  <2>3. n # 0 /\ n # 1 /\ n # 2
    <3>1. \A m \in Nat : m >= 4 => m # 0 /\ m # 1 /\ m # 2
      OBVIOUS
    <3> QED  BY <2>0, <3>1
  <2>4. pc[q] \in {"connecting", "done"}
    <3>1. pc[q] # "create" /\ pc[q] # "publishing" /\ pc[q] # "connect"
      BY <2>1, <2>3 DEF Phase
    <3> QED  BY <2>2, <3>1
  <2> QED  BY <2>1, <2>4 DEF Wiring
<1> QED  BY <1>1, BootInvariant, PTL

\* archive_search returned a null pointer to lcm_pm_getname, which copies from
\* it.
Crashed(r) == pc[r] = "crashed"

\* lcm_pm_getname never looks for a name that is not there.
THEOREM LookupsSucceed == Spec => [](\A r \in Ranks : ~ Crashed(r))
<1>1. Boot => \A r \in Ranks : ~ Crashed(r)
  BY DEF Boot, Types, Early, Late, Crashed
<1> QED  BY <1>1, BootInvariant, PTL

\* The barriers a rank has left.
LEMMA LeftFacts ==
  ASSUME Boot, NEW r \in Ranks
  PROVE  /\ pc[r] \in Early => Left(r) = 0
         /\ pc[r] \in Late => Left(r) >= 1
<1>1. Types /\ Phase(r)
  BY DEF Boot
<1> PICK n \in Nat : n = Len(coll[r])
  BY <1>1 DEF Types
<1>3. /\ pc[r] = "create" => at[r] = "out" /\ n = 0
      /\ pc[r] = "publishing" => at[r] # "out" /\ n \in {1, 2}
      /\ pc[r] = "connect" => at[r] = "out" /\ n = 2
      /\ pc[r] = "connecting" => at[r] # "out" /\ n \in {3, 4}
      /\ pc[r] = "done" => at[r] = "out" /\ n = 4
  BY <1>1 DEF Phase
<1>4. /\ n = 0 => Entered(r) = 0
      /\ n \in {1, 2} => Entered(r) = 1
      /\ n \in {3, 4} => Entered(r) = 2
  <2>1. \A m \in Nat : /\ m = 0 => (m + 1) \div 2 = 0
                       /\ m = 1 \/ m = 2 => (m + 1) \div 2 = 1
                       /\ m = 3 \/ m = 4 => (m + 1) \div 2 = 2
    OBVIOUS
  <2> QED  BY <2>1 DEF Entered
<1>5. /\ pc[r] = "create" => Left(r) = 0
      /\ pc[r] = "publishing" => Left(r) = 0
      /\ pc[r] = "connect" => Left(r) = 1
      /\ pc[r] = "connecting" => Left(r) = 1
      /\ pc[r] = "done" => Left(r) = 2
  BY <1>3, <1>4 DEF Left
<1> QED  BY <1>5 DEF Early, Late

\* After a barrier lcm_pm_getname finds what was published before it.
THEOREM NamesAreFound == Spec => []PublishedIsFound
<1>1. Boot => PublishedIsFound
  <2> SUFFICES ASSUME Boot, NEW r \in Ranks, NEW p \in pub, p.due <= Left(r)
               PROVE  HasName(r, p.key) /\ getname(r, p.key) = p.value
    BY DEF PublishedIsFound
  <2>1. PICK c \in Ranks \X Ranks :
          p = [key |-> Key(c[1], c[2]), value |-> Val(c[1], c[2]), due |-> 1]
    BY DEF Boot, Published
  <2>2. pc[r] \in Late
    <3>1. pc[r] \in Early \cup Late
      BY DEF Boot, Types
    <3>2. ~ (1 <= 0)
      OBVIOUS
    <3> QED  BY <2>1, <3>1, <3>2, LeftFacts
  <2>3. c[1] \in Ranks /\ c[2] \in Ranks
    BY <2>1
  <2> QED  BY <2>1, <2>2, <2>3, Lookup
<1> QED  BY <1>1, BootInvariant, PTL

\* lcm_pm_barrier delivers every entry once, also when it is called again.
THEOREM NamesDeliveredOnce == Spec => []DeliveredOnce
<1>1. Boot => DeliveredOnce
  <2> SUFFICES ASSUME Boot, NEW r \in Ranks
               PROVE  Len(g_archive[r]) = Cardinality({p \in pub : p.due <= Left(r)})
    BY DEF DeliveredOnce
  <2> DEFINE Item(q, k) == [key |-> Key(q, k), value |-> Val(q, k), due |-> 1]
             All == {p \in pub : p.due <= Left(r)}
  <2>1. Types /\ Global(r) /\ Published /\ pc[r] \in Early \cup Late
    BY DEF Boot, Types
  <2>2. \A p \in pub : p.due = 1
    BY <2>1 DEF Published
  <2>3. CASE pc[r] \in Early
    <3>1. ~ (1 <= 0)
      OBVIOUS
    <3>2. All = {}
      BY <2>2, <2>3, <3>1, LeftFacts
    <3>3. g_archive[r] = <<>>
      BY <2>1, <2>3 DEF Global
    <3>4. Cardinality(All) = 0
      BY <3>2, FS_EmptySet
    <3>5. Len(g_archive[r]) = 0
      BY <3>3
    <3> QED  BY <3>2, <3>3, <3>4, <3>5
  <2>4. CASE pc[r] \in Late
    <3> PICK g \in Seq(EntrySet) : g = g_archive[r]
      BY <2>1 DEF Types
    <3> PICK n \in Nat : n = Len(g)
      OBVIOUS
    <3>1. AllNames(g)
      BY <2>1, <2>4 DEF Global, Early, Late
    <3>2. All = pub
      BY <2>2, <2>4, LeftFacts
    <3>3. \A q \in Ranks : Created(q) = NRanks
      <4>1. ASSUME NEW q \in Ranks  PROVE Len(coll[q]) # 0
        <5>1. Len(coll[q]) >= 2 /\ Len(coll[q]) \in Nat
          BY <2>1, <2>4 DEF Boot, Fenced, Types
        <5> QED  BY <5>1
      <4> QED  BY <4>1, AllCreated
    <3>4. \A q, k \in Ranks : Item(q, k) \in pub
      <4>1. ASSUME NEW q \in Ranks, NEW k \in Ranks  PROVE Item(q, k) \in pub
        <5>1. k < Created(q)
          BY <3>3, NRanksAssumption DEF Ranks
        <5>2. <<q, k>> \in {d \in Ranks \X Ranks : d[2] < Created(d[1])}
          BY <5>1
        <5>3. <<q, k>>[1] = q /\ <<q, k>>[2] = k
          OBVIOUS
        <5> QED  BY <2>1, <5>2, <5>3 DEF Published
      <4> QED  BY <4>1
    <3>5. \A p \in pub : \E q, k \in Ranks : p = Item(q, k)
      <4>1. ASSUME NEW p \in pub  PROVE \E q, k \in Ranks : p = Item(q, k)
        <5>1. PICK c \in Ranks \X Ranks :
                p = [key |-> Key(c[1], c[2]), value |-> Val(c[1], c[2]), due |-> 1]
          BY <2>1 DEF Published
        <5>2. c[1] \in Ranks /\ c[2] \in Ranks
          OBVIOUS
        <5> QED  BY <5>1, <5>2
      <4> QED  BY <4>1
    <3> DEFINE f == [j \in 1 .. n |-> [key |-> g[j].key, value |-> g[j].value, due |-> 1]]
    <3>6. ASSUME NEW j \in 1 .. n, NEW q \in Ranks, NEW k \in Ranks, g[j] = Entry(q, k)
          PROVE  f[j] = Item(q, k)
      BY <3>6 DEF Entry
    <3>7. ASSUME NEW q \in Ranks, NEW k \in Ranks, NEW p \in Ranks, NEW l \in Ranks,
                 Item(q, k) = Item(p, l)
          PROVE  q = p /\ k = l
      <4>1. Key(q, k) = Key(p, l)
        BY <3>7
      <4> QED  BY <4>1 DEF Key
    <3>8. DOMAIN f = 1 .. n
      OBVIOUS
    <3>16. f = [j \in 1 .. n |-> f[j]]
      OBVIOUS
    <3> HIDE DEF f, Item
    <3>9. ASSUME NEW j \in 1 .. n
          PROVE  \E q, k \in Ranks : g[j] = Entry(q, k) /\ f[j] = Item(q, k)
      BY <3>1, <3>6 DEF AllNames
    <3>10. f \in [1 .. n -> pub]
      BY <3>16, <3>9, <3>4
    <3>11. ASSUME NEW a \in 1 .. n, NEW b \in 1 .. n, f[a] = f[b]  PROVE a = b
      <4>1. PICK q \in Ranks, k \in Ranks : g[a] = Entry(q, k) /\ f[a] = Item(q, k)
        BY <3>9
      <4>2. PICK p \in Ranks, l \in Ranks : g[b] = Entry(p, l) /\ f[b] = Item(p, l)
        BY <3>9
      <4>3. q = p /\ k = l
        BY <3>7, <3>11, <4>1, <4>2, ZenonT(40)
      <4>4. g[a] = g[b]
        BY <4>1, <4>2, <4>3
      <4> QED  BY <3>1, <4>4 DEF AllNames
    <3>12. ASSUME NEW p \in pub  PROVE \E j \in 1 .. n : f[j] = p
      <4>1. PICK q \in Ranks, k \in Ranks : p = Item(q, k)
        BY <3>5
      <4>2. PICK j \in 1 .. n : g[j] = Entry(q, k)
        BY <3>1 DEF AllNames
      <4> QED  BY <4>1, <4>2, <3>6
    <3>13. f \in Bijection(1 .. n, pub)
      BY <3>10, <3>11, <3>12 DEF Bijection, Injection, Surjection, IsInjective
    <3>14. ExistsBijection(1 .. n, pub)
      BY <3>13 DEF ExistsBijection
    <3>15. Cardinality(pub) = n
      BY <3>14, FS_CountingElements
    <3> QED  BY <3>2, <3>15
  <2> QED  BY <2>1, <2>3, <2>4
<1> QED  BY <1>1, BootInvariant, PTL
============================================================================
