------------------------ MODULE VerbsPingpongProofs ------------------------
(***************************************************************************)
(* The ping-pongs of rdma-core, for every receive depth, number of queue   *)
(* pairs and iterations, and any number of losses and short reads: the     *)
(* receive credits are exact, a message finds its receiver ready, main     *)
(* fails only for a reason, and every queue pair carries a ping-pong.      *)
(*                                                                         *)
(* The four rest on one invariant, Inv.  Its heart is the pile of a side,  *)
(* the completions its program has not counted yet, in main's array or in  *)
(* the queue.  A step takes the first completion off the pile, or puts one *)
(* at its end, or leaves it alone; no two completions of a pile are of the *)
(* same kind and queue pair.  So a pile has at most one receive for each   *)
(* queue pair, none for a queue pair whose message is still under way, and *)
(* the low-water mark of routs leaves a receive for every such message.    *)
(***************************************************************************)
EXTENDS VerbsPingpong, FiniteSetTheorems, SequenceTheorems, TLAPS

\* The labels before the main loop, those of the loop, and those at which
\* main's array of completions is not empty.
Opening == {"write_addr", "read_addr", "write_done", "connect", "read_done", "start"}
Parsing == {"parse", "parse_next", "answer", "answer_next"}
Loop == Parsing \cup {"event", "poll", "next_poll", "close", "ended"}

\* A completion: of a send or a receive, of a queue pair, with or without an
\* error status.
Completions == [id : {"SEND", "RECV"}, qp : Qps, ok : BOOLEAN]

\* The variables have these types; the client never waits for "done", the
\* server never writes it.
Types ==
    /\ prog \in AllPrograms /\ use_event \in BOOLEAN
    /\ use_event => prog \in Sleeping
    /\ pc \in [Sides -> Opening \cup Loop \cup {"failed"}]
    /\ pc["client"] # "read_done" /\ pc["server"] # "write_done"
    /\ tcp \in [Sides -> Seq({"write_addr", "write_done"})] /\ short \in Nat
    /\ connected \in [Sides -> BOOLEAN]
    /\ routs \in [Sides -> Int] /\ rx \in [Sides -> Nat]
    /\ scnt \in [Sides -> Nat] /\ rcnt \in [Sides -> Nat]
    /\ pending \in [Sides -> [Qps -> SUBSET {"RECV", "SEND"}]]
    /\ wc \in [Sides -> Seq(Completions)] /\ cq \in [Sides -> Seq(Completions)]
    /\ st \in [Sides -> [Qps -> {"idle", "posted", "delivered", "unacked", "done"}]]
    /\ net \in [Sides -> Nat]
    /\ sent \in [Sides -> [Qps -> Nat]] /\ got \in [Sides -> [Qps -> Nat]]

----------------------------------------------------------------------------
\* The exchange of addresses.

\* Messages of the exchange that side s has written, and read.
Wrote(s) ==
    IF s = "client"
      THEN IF pc[s] = "write_addr" THEN 0
           ELSE IF pc[s] \in {"read_addr", "write_done"} THEN 1 ELSE 2
      ELSE IF pc[s] \in {"read_addr", "connect", "write_addr"} THEN 0 ELSE 1
Took(s) ==
    IF s = "client"
      THEN IF pc[s] \in {"write_addr", "read_addr"} THEN 0 ELSE 1
      ELSE IF pc[s] = "read_addr" THEN 0
           ELSE IF pc[s] \in {"connect", "write_addr", "read_done"} THEN 1 ELSE 2

\* As long as nobody has failed, what was written and not read is on the way.
\* The server is connected before the client has its address, and the client
\* before its first message.
Exchange ==
    /\ (\A s \in Sides : pc[s] # "failed") =>
          /\ Len(tcp["server"]) = Wrote("client") - Took("server")
          /\ Len(tcp["client"]) = Wrote("server") - Took("client")
    /\ tcp["client"] # <<>> => connected["server"]
    /\ pc["server"] \in Loop \cup {"write_addr", "read_done", "start"} => connected["server"]
    /\ pc["client"] \in Loop \cup {"write_done", "connect", "start"} => connected["server"]
    /\ pc["client"] \in Loop \cup {"start"} => connected["client"]

----------------------------------------------------------------------------
\* Queue pair i.

\* The message that s has sent last has not been counted by its peer.
Message(s, i) == sent[s][i] = got[Peer(s)][i] + 1

\* It is up to s to send the next message.
Turn(s, i) == IF s = "client" THEN sent[s][i] = got[s][i] ELSE sent[s][i] < got[s][i]

\* The round trip of queue pair i.
Chain(i) ==
    /\ got["client"][i] <= sent["server"][i]
    /\ sent["server"][i] <= got["server"][i]
    /\ got["server"][i] <= sent["client"][i]
    /\ sent["client"][i] <= got["client"][i] + 1
    /\ sent["client"][i] > 0 => connected["client"] /\ connected["server"]

\* What the program of s knows of queue pair i, and where its message is.
Queued(s, i) ==
    /\ pc[s] \in Opening => /\ sent[s][i] = 0 /\ got[s][i] = 0
                            /\ st[s][i] = "idle" /\ pending[s][i] = {}
    /\ pc[s] \in Loop /\ "RECV" \notin pending[s][i] => Turn(s, i)
    /\ On(s) /\ "SEND" \notin pending[s][i] => st[s][i] = "idle"
    /\ st[s][i] = "posted" => Message(s, i) /\ net[s] = 0
    /\ net[s] > 0 => net[s] = 1 /\ Message(s, i) /\ ~ Reliable

----------------------------------------------------------------------------
\* The completions of side s that are not counted yet.
Pile(s) == Unparsed(s) \o cq[s]

\* A completion c of the pile of s.
Counted(s, c) ==
    /\ c.ok \/ (Reliable /\ ~ On(Peer(s)))
    /\ c.id = "SEND" => "SEND" \in pending[s][c.qp]
    /\ c.id = "RECV" => /\ Message(Peer(s), c.qp) /\ net[Peer(s)] = 0
                        /\ st[Peer(s)][c.qp] # "posted"

\* No two completions of p are of the same kind and queue pair.
Distinct(p) ==
    \A j, k \in DOMAIN p : p[j].id = p[k].id /\ p[j].qp = p[k].qp => j = k

\* The sends of these completions have queue entries that are in state x.
Entries(s, p, x) == \A k \in DOMAIN p : p[k].id = "SEND" => st[s][p[k].qp] = x

\* The program of s and its completions.
Piled(s) ==
    /\ wc[s] # <<>> <=> pc[s] \in Parsing
    /\ \A k \in DOMAIN Pile(s) : Counted(s, Pile(s)[k])
    /\ Distinct(Pile(s))
    /\ Entries(s, Unparsed(s), "idle") /\ Entries(s, cq[s], "done")
    /\ routs[s] = rx[s] + Recvs(Pile(s))
    /\ Cardinality(Qps) <= routs[s] /\ routs[s] <= RxDepth

\* What the counters, the completions and the adapters have in common.
Data ==
    /\ \A i \in Qps : Chain(i)
    /\ \A s \in Sides, i \in Qps : Queued(s, i)
    /\ \A s \in Sides : On(s) => Piled(s)
    /\ \A s \in Sides : Len(cq[s]) <= RxDepth + Cardinality(Qps)

\* The invariant: types, the exchange of addresses, the data.
Inv == Types /\ Exchange /\ Data

----------------------------------------------------------------------------
\* Counting completions.  Here p and q are any sequences of completions.

\* The places of the receives of p.
RecvAt(p) == {k \in DOMAIN p : p[k].id = "RECV"}

\* The places of a sequence are finitely many.
LEMMA Places ==
    ASSUME NEW S, NEW p \in Seq(S)
    PROVE  /\ DOMAIN p = 1 .. Len(p) /\ Len(p) \in Nat
           /\ IsFiniteSet(RecvAt(p)) /\ Recvs(p) = Cardinality(RecvAt(p))
           /\ Recvs(p) \in Nat
<1>1. DOMAIN p = 1 .. Len(p) /\ Len(p) \in Nat
  BY LenProperties
<1>2. IsFiniteSet(1 .. Len(p))
  BY <1>1, FS_Interval
<1>3. IsFiniteSet(RecvAt(p))
  BY <1>1, <1>2, FS_Subset DEF RecvAt
<1> QED  BY <1>1, <1>3, FS_CardinalityType DEF Recvs, RecvAt

\* An array without completions has no receives.
LEMMA NoRecvs == Recvs(<<>>) = 0
<1>1. {k \in DOMAIN <<>> : <<>>[k].id = "RECV"} = {}
  OBVIOUS
<1> QED  BY <1>1, FS_EmptySet DEF Recvs

\* A completion that joins the queue counts if it is a receive.
LEMMA RecvsAppend ==
    ASSUME NEW S, NEW p \in Seq(S), NEW c \in S
    PROVE  Recvs(Append(p, c)) = Recvs(p) + (IF c.id = "RECV" THEN 1 ELSE 0)
<1> DEFINE a == Append(p, c)
           n == Len(p)
<1>1. /\ n \in Nat /\ DOMAIN p = 1 .. n /\ DOMAIN a = 1 .. n + 1
      /\ a[n + 1] = c /\ \A k \in 1 .. n : a[k] = p[k]
  BY AppendProperties, LenProperties
<1>2. a \in Seq(S)
  BY AppendProperties
<1>3. IsFiniteSet(RecvAt(p)) /\ Recvs(p) = Cardinality(RecvAt(p)) /\ Recvs(p) \in Nat
  BY Places
<1>4. Recvs(a) = Cardinality(RecvAt(a))
  BY DEF Recvs, RecvAt
<1> HIDE DEF a, n
<1>5. CASE c.id = "RECV"
  <2>1. RecvAt(a) = RecvAt(p) \cup {n + 1} /\ n + 1 \notin RecvAt(p)
    BY <1>1, <1>5 DEF RecvAt
  <2>2. Cardinality(RecvAt(a)) = Cardinality(RecvAt(p)) + 1
    BY <1>3, <2>1, FS_AddElement
  <2> QED  BY <1>3, <1>4, <1>5, <2>2 DEF a
<1>6. CASE c.id # "RECV"
  <2>1. RecvAt(a) = RecvAt(p)
    BY <1>1, <1>6 DEF RecvAt
  <2> QED  BY <1>3, <1>4, <1>6, <2>1 DEF a
<1> QED  BY <1>5, <1>6

\* Two arrays one after the other have the receives of both.
LEMMA RecvsConcat ==
    ASSUME NEW S, NEW p \in Seq(S), NEW q \in Seq(S)
    PROVE  Recvs(p \o q) = Recvs(p) + Recvs(q)
<1> DEFINE a == p \o q
           m == Len(p)
           n == Len(q)
           moved == {m + k : k \in RecvAt(q)}
           f == [k \in RecvAt(q) |-> m + k]
<1>1. /\ a \in Seq(S) /\ Len(a) = m + n
      /\ \A k \in 1 .. m + n : a[k] = IF k <= m THEN p[k] ELSE q[k - m]
  BY ConcatProperties
<1>2. /\ m \in Nat /\ n \in Nat /\ DOMAIN p = 1 .. m /\ DOMAIN q = 1 .. n
      /\ DOMAIN a = 1 .. Len(a)
  BY <1>1, LenProperties
<1>3. /\ IsFiniteSet(RecvAt(p)) /\ Recvs(p) = Cardinality(RecvAt(p)) /\ Recvs(p) \in Nat
      /\ IsFiniteSet(RecvAt(q)) /\ Recvs(q) = Cardinality(RecvAt(q)) /\ Recvs(q) \in Nat
      /\ Recvs(a) = Cardinality(RecvAt(a))
  BY <1>1, Places
<1> HIDE DEF a, m, n
<1>4. RecvAt(q) \subseteq 1 .. n /\ RecvAt(p) \subseteq 1 .. m
  BY <1>2 DEF RecvAt
<1>5. RecvAt(a) = RecvAt(p) \cup moved
  <2>1. ASSUME NEW k \in RecvAt(a)
        PROVE  k \in RecvAt(p) \cup moved
    <3>1. k \in 1 .. m + n /\ a[k].id = "RECV"
      BY <1>1, <1>2 DEF RecvAt
    <3>2. CASE k <= m
      BY <1>1, <1>2, <3>1, <3>2 DEF RecvAt
    <3>3. CASE ~ (k <= m)
      <4>1. k - m \in 1 .. n /\ q[k - m].id = "RECV" /\ k = m + (k - m)
        BY <1>1, <1>2, <3>1, <3>3
      <4>2. k - m \in RecvAt(q)
        BY <1>2, <4>1 DEF RecvAt
      <4> QED  BY <4>1, <4>2
    <3> QED  BY <3>2, <3>3
  <2>2. ASSUME NEW k \in RecvAt(p)
        PROVE  k \in RecvAt(a)
    BY <1>1, <1>2, <2>2 DEF RecvAt
  <2>3. ASSUME NEW k \in RecvAt(q)
        PROVE  m + k \in RecvAt(a)
    <3>1. k \in 1 .. n /\ q[k].id = "RECV"
      BY <1>2 DEF RecvAt
    <3>2. m + k \in 1 .. m + n /\ ~ (m + k <= m) /\ (m + k) - m = k
      BY <1>2, <3>1
    <3>3. a[m + k] = q[k]
      BY <1>1, <3>2
    <3> QED  BY <1>1, <1>2, <3>1, <3>2, <3>3 DEF RecvAt
  <2> QED  BY <2>1, <2>2, <2>3
<1>6. RecvAt(p) \cap moved = {}
  BY <1>2, <1>4
<1>7. f \in Bijection(RecvAt(q), moved)
  <2>1. f \in [RecvAt(q) -> moved]
    OBVIOUS
  <2>2. \A j, k \in RecvAt(q) : f[j] = f[k] => j = k
    BY <1>2, <1>4
  <2>3. \A x \in moved : \E k \in RecvAt(q) : f[k] = x
    OBVIOUS
  <2> HIDE DEF f, moved
  <2> QED  BY <2>1, <2>2, <2>3 DEF Bijection, Injection, Surjection, IsInjective
<1>8. IsFiniteSet(moved) /\ Cardinality(moved) = Recvs(q)
  <2>1. ExistsBijection(RecvAt(q), moved)
    BY <1>7 DEF ExistsBijection
  <2> HIDE DEF moved
  <2> QED  BY <1>3, <2>1, FS_Bijection
<1> HIDE DEF moved, f
<1>9. Cardinality(RecvAt(p) \cup moved) = Recvs(p) + Recvs(q)
  <2>1. Cardinality(RecvAt(p) \cap moved) = 0
    BY <1>6, FS_EmptySet
  <2>2. Cardinality(RecvAt(p) \cup moved)
          = Cardinality(RecvAt(p)) + Cardinality(moved) - Cardinality(RecvAt(p) \cap moved)
    BY <1>3, <1>8, FS_Union
  <2> QED  BY <1>3, <1>8, <2>1, <2>2
<1> QED  BY <1>3, <1>5, <1>9 DEF a

\* A receive for each place, each of a queue pair of its own in T: there are
\* no more of them than T has queue pairs.
LEMMA RecvsBound ==
    ASSUME NEW S, NEW p \in Seq(S), NEW T, IsFiniteSet(T), Distinct(p),
           \A k \in DOMAIN p : p[k].id = "RECV" => p[k].qp \in T
    PROVE  Recvs(p) <= Cardinality(T)
<1> DEFINE R == RecvAt(p)
           f == [k \in R |-> p[k].qp]
<1>1. Recvs(p) = Cardinality(R) /\ IsFiniteSet(R)
  BY Places
<1>2. f \in [R -> T]
  BY DEF RecvAt
<1>3. \A j, k \in R : f[j] = f[k] => j = k
  BY DEF RecvAt, Distinct
<1> HIDE DEF R, f
<1>4. f \in Injection(R, T)
  BY <1>2, <1>3 DEF Injection, IsInjective
<1> QED  BY <1>1, <1>4, FS_Injection

\* A queue is not longer than its receives and one send for each queue pair.
LEMMA LengthBound ==
    ASSUME NEW T, IsFiniteSet(T), NEW p, p \in Seq([id : {"SEND", "RECV"}, qp : T, ok : BOOLEAN]),
           Distinct(p)
    PROVE  Len(p) <= Recvs(p) + Cardinality(T)
<1> DEFINE R == RecvAt(p)
           B == {k \in DOMAIN p : p[k].id = "SEND"}
           f == [k \in B |-> p[k].qp]
           n == Len(p)
<1>1. /\ DOMAIN p = 1 .. n /\ n \in Nat
      /\ Recvs(p) = Cardinality(R) /\ IsFiniteSet(R) /\ Recvs(p) \in Nat
  BY Places
<1>2. \A k \in DOMAIN p : p[k].id \in {"SEND", "RECV"} /\ p[k].qp \in T
  <2> DEFINE C == [id : {"SEND", "RECV"}, qp : T, ok : BOOLEAN]
  <2>1. \A c \in C : c.id \in {"SEND", "RECV"} /\ c.qp \in T
    OBVIOUS
  <2> HIDE DEF C
  <2>2. p \in Seq(C)
    BY DEF C
  <2>3. \A k \in 1 .. n : p[k] \in C
    BY <2>2, ElementOfSeq
  <2> QED  BY <1>1, <2>1, <2>3
<1>3. f \in [B -> T]
  BY <1>2
<1>4. \A j, k \in B : f[j] = f[k] => j = k
  BY DEF Distinct
<1>5. 1 .. n = R \cup B
  BY <1>1, <1>2 DEF RecvAt
<1>6. R \cap B = {}
  BY DEF RecvAt
<1> HIDE DEF R, B, f, n
<1>7. f \in Injection(B, T)
  BY <1>3, <1>4 DEF Injection, IsInjective
<1>8. IsFiniteSet(B) /\ Cardinality(B) <= Cardinality(T)
  BY <1>7, FS_Injection
<1>9. Cardinality(B) \in Nat /\ Cardinality(T) \in Nat
  BY <1>8, FS_CardinalityType
<1>10. Cardinality(1 .. n) = n
  BY <1>1, FS_Interval
<1>11. Cardinality(R \cap B) = 0
  BY <1>6, FS_EmptySet
<1>12. Cardinality(R \cup B) = Cardinality(R) + Cardinality(B) - Cardinality(R \cap B)
  BY <1>1, <1>8, FS_Union
<1>13. n <= Recvs(p) + Cardinality(T)
  <2>1. n = Cardinality(R) + Cardinality(B)
    <3>1. Cardinality(R \cup B) = n
      BY <1>5, <1>10
    <3>2. Cardinality(R) \in Nat
      BY <1>1
    <3> QED  BY <1>9, <1>11, <1>12, <3>1, <3>2
  <2> QED  BY <1>1, <1>8, <1>9, <2>1
<1> QED  BY <1>13 DEF n

\* A completion that joins the queue joins the pile at its end.
LEMMA PileAppend ==
    ASSUME NEW S, NEW u \in Seq(S), NEW q \in Seq(S), NEW c \in S
    PROVE  u \o Append(q, c) = Append(u \o q, c)
<1>1. <<c>> \in Seq(S) /\ u \o q \in Seq(S)
  BY ConcatProperties
<1>2. Append(q, c) = q \o <<c>> /\ Append(u \o q, c) = (u \o q) \o <<c>>
  BY <1>1, AppendIsConcat
<1> QED  BY <1>1, <1>2, ConcatAssociative

\* A poll moves completions from the queue into main's array and leaves the
\* pile as it is.
LEMMA PileTake ==
    ASSUME NEW S, NEW q \in Seq(S), NEW n \in 1 .. Len(q)
    PROVE  /\ SubSeq(q, 1, n) \in Seq(S) /\ Len(SubSeq(q, 1, n)) = n
           /\ \A k \in 1 .. n : SubSeq(q, 1, n)[k] = q[k]
           /\ SubSeq(q, n + 1, Len(q)) \in Seq(S)
           /\ Len(SubSeq(q, n + 1, Len(q))) = Len(q) - n
           /\ \A k \in 1 .. Len(q) - n : SubSeq(q, n + 1, Len(q))[k] = q[n + k]
           /\ SubSeq(q, 1, n) \o SubSeq(q, n + 1, Len(q)) = <<>> \o q
<1> DEFINE u == SubSeq(q, 1, n)
           v == SubSeq(q, n + 1, Len(q))
           x == u \o v
           m == Len(q)
<1>1. m \in Nat /\ n \in Nat /\ 1 <= n /\ n <= m /\ \A k \in 1 .. m : q[k] \in S
  BY LenProperties, ElementOfSeq
<1>2. u \in Seq(S) /\ Len(u) = n /\ \A k \in 1 .. n : u[k] = q[k]
  <2>1. \A k \in 1 .. n : q[k] \in S
    BY <1>1
  <2>2. /\ u \in Seq(S)
        /\ Len(u) = IF 1 <= n THEN n - 1 + 1 ELSE 0
        /\ \A k \in 1 .. n - 1 + 1 : u[k] = q[1 + k - 1]
    BY <1>1, <2>1, SubSeqProperties
  <2> HIDE DEF u
  <2> QED  BY <1>1, <2>2
<1>3. v \in Seq(S) /\ Len(v) = m - n /\ \A k \in 1 .. m - n : v[k] = q[n + k]
  <2>1. \A k \in n + 1 .. m : q[k] \in S
    BY <1>1
  <2> HIDE DEF m
  <2>2. /\ v \in Seq(S)
        /\ Len(v) = IF n + 1 <= m THEN m - (n + 1) + 1 ELSE 0
        /\ \A k \in 1 .. m - (n + 1) + 1 : v[k] = q[(n + 1) + k - 1]
    BY <1>1, <2>1, SubSeqProperties DEF m
  <2> HIDE DEF v
  <2>3. \A k \in 1 .. m - n : (n + 1) + k - 1 = n + k
    BY <1>1
  <2> QED  BY <1>1, <2>2, <2>3
<1> HIDE DEF u, v, m
<1>4. /\ x \in Seq(S) /\ Len(x) = n + (m - n)
      /\ \A k \in 1 .. n + (m - n) : x[k] = IF k <= n THEN u[k] ELSE v[k - n]
  <2>1. /\ x \in Seq(S) /\ Len(x) = Len(u) + Len(v)
        /\ \A k \in 1 .. Len(u) + Len(v) : x[k] = IF k <= Len(u) THEN u[k] ELSE v[k - Len(u)]
    BY <1>2, <1>3, ConcatProperties
  <2> HIDE DEF x
  <2> QED  BY <1>2, <1>3, <2>1
<1> HIDE DEF x
<1>5. ASSUME NEW k \in 1 .. m
      PROVE  x[k] = q[k]
  <2>1. CASE k <= n
    BY <1>1, <1>2, <1>4, <2>1
  <2>2. CASE ~ (k <= n)
    <3>1. k - n \in 1 .. m - n /\ n + (k - n) = k /\ k \in 1 .. n + (m - n)
      BY <1>1, <2>2
    <3>2. x[k] = v[k - n]
      BY <1>4, <2>2, <3>1
    <3> QED  BY <1>3, <3>1, <3>2
  <2> QED  BY <2>1, <2>2
<1>6. Len(x) = m
  BY <1>1, <1>4
<1>7. x = q
  <2>1. Len(x) = Len(q)
    BY <1>6 DEF m
  <2>2. \A k \in 1 .. Len(x) : x[k] = q[k]
    BY <1>5, <1>6
  <2> QED  BY <1>4, <2>1, <2>2, SeqEqual
<1>8. <<>> \o q = q
  BY ConcatEmptySeq
<1>9. u \o v = <<>> \o q
  BY <1>7, <1>8 DEF x
<1> QED  BY <1>2, <1>3, <1>9 DEF u, v, m

\* The completion that is counted leaves the pile, whose first one it was.
LEMMA PileTail ==
    ASSUME NEW S, NEW w \in Seq(S), w # <<>>, NEW q \in Seq(S)
    PROVE  /\ w \o q \in Seq(S) /\ w \o q # <<>>
           /\ Head(w \o q) = Head(w) /\ Tail(w \o q) = Tail(w) \o q
<1> DEFINE a == w \o q
           b == Tail(w) \o q
           c == Tail(a)
           m == Len(w)
           n == Len(q)
<1>1. m \in Nat /\ n \in Nat /\ m > 0
  BY LenProperties, EmptySeq
<1>2. /\ a \in Seq(S) /\ Len(a) = m + n
      /\ \A k \in 1 .. m + n : a[k] = IF k <= m THEN w[k] ELSE q[k - m]
  BY ConcatProperties
<1>3. /\ Tail(w) \in Seq(S) /\ Len(Tail(w)) = m - 1
      /\ \A k \in 1 .. m - 1 : Tail(w)[k] = w[k + 1]
  BY HeadTailProperties
<1>4. /\ b \in Seq(S) /\ Len(b) = (m - 1) + n
      /\ \A k \in 1 .. (m - 1) + n : b[k] = IF k <= m - 1 THEN Tail(w)[k] ELSE q[k - (m - 1)]
  BY <1>3, ConcatProperties
<1> HIDE DEF a, b, m, n
<1>5. a # <<>>
  BY <1>1, <1>2, EmptySeq
<1>6. Head(a) = Head(w)
  <2>1. Head(a) = a[1] /\ Head(w) = w[1]
    BY <1>2, <1>5
  <2> QED  BY <1>1, <1>2, <2>1
<1>7. c \in Seq(S) /\ Len(c) = m + n - 1 /\ \A k \in 1 .. m + n - 1 : c[k] = a[k + 1]
  BY <1>1, <1>2, <1>5, HeadTailProperties
<1> HIDE DEF c
<1>8. ASSUME NEW k \in 1 .. m + n - 1
      PROVE  c[k] = b[k]
  <2>1. k \in 1 .. (m - 1) + n /\ k + 1 \in 1 .. m + n /\ (k + 1) - m = k - (m - 1)
        /\ (k + 1 <= m <=> k <= m - 1)
    BY <1>1
  <2>2. CASE k <= m - 1
    <3>1. c[k] = w[k + 1] /\ b[k] = Tail(w)[k] /\ k \in 1 .. m - 1
      <4>1. k + 1 <= m /\ k \in 1 .. m - 1
        BY <1>1, <2>1, <2>2
      <4>2. c[k] = a[k + 1] /\ a[k + 1] = w[k + 1]
        BY <1>2, <1>7, <2>1, <4>1
      <4> QED  BY <1>4, <2>1, <2>2, <4>1, <4>2
    <3> QED  BY <1>3, <3>1
  <2>3. CASE ~ (k <= m - 1)
    BY <1>2, <1>4, <1>7, <2>1, <2>3
  <2> QED  BY <2>2, <2>3
<1>9. Len(b) = Len(c) /\ Len(c) = m + n - 1
  BY <1>1, <1>4, <1>7
<1>10. c = b
  BY <1>4, <1>7, <1>8, <1>9, SeqEqual
<1> QED  BY <1>2, <1>5, <1>6, <1>10 DEF a, b, c

----------------------------------------------------------------------------
\* Steps that leave the completions alone.

\* There are two sides.
LEMMA Peers ==
    ASSUME NEW s \in Sides
    PROVE  /\ Peer(s) \in Sides /\ Peer(s) # s /\ Peer(Peer(s)) = s
           /\ \A q \in Sides : q = s \/ q = Peer(s)
BY DEF Peer, Sides

\* There are finitely many queue pairs, not more than receives; all programs
\* but srq have one.
LEMMA QueuePairs ==
    /\ IsFiniteSet(Qps) /\ Cardinality(Qps) \in Nat /\ Cardinality(Qps) <= RxDepth
    /\ Qps \subseteq Int /\ (prog # "srq" => Qps = {0})
<1> DEFINE n == IF prog = "srq" THEN NumQp ELSE 1
<1>1. n \in Nat /\ n >= 1 /\ n <= RxDepth /\ RxDepth \in Nat
  BY VerbsAssumption
<1>2. Qps = 0 .. n - 1
  BY DEF Qps
<1>3. prog # "srq" => n = 1
  OBVIOUS
<1> HIDE DEF n
<1>4. IsFiniteSet(0 .. n - 1) /\ Cardinality(0 .. n - 1) = n
  BY <1>1, FS_Interval
<1>5. n = 1 => 0 .. n - 1 = {0}
  OBVIOUS
<1>6. 0 .. n - 1 \subseteq Int
  BY <1>1
<1> QED  BY <1>1, <1>2, <1>3, <1>4, <1>5, <1>6

\* A side stays where it is, or fails, or goes on in the exchange of addresses
\* or in the loop without completions in main's array.
Resting == {"event", "poll", "next_poll", "close"}
Drifts(q) ==
    \/ pc'[q] = pc[q] \/ pc'[q] = "failed"
    \/ pc[q] \in Opening /\ pc'[q] \in Opening
    \/ pc[q] \in Resting /\ pc'[q] \in Resting \cup {"ended"}

\* Such steps keep what Data says of the completions and the messages.
LEMMA QuietKeepsData ==
    ASSUME Types, Data, UNCHANGED <<prog, routs, pending, wc, st, rx, cq, net, sent, got>>,
           \A q \in Sides : Drifts(q) /\ (connected[q] => connected'[q])
    PROVE  Data'
<1>1. Qps' = Qps /\ (Reliable' <=> Reliable)
  BY DEF Qps, Reliable
<1>2. \A q \in Sides : On(q)' => On(q)
  BY DEF Drifts, On, Opening, Resting
<1>3. \A i \in Qps : Chain(i)'
  <2>1. connected["client"] => connected'["client"]
    BY DEF Sides
  <2>2. connected["server"] => connected'["server"]
    BY DEF Sides
  <2> QED  BY <2>1, <2>2 DEF Data, Chain
<1>4. ASSUME NEW s \in Sides, NEW i \in Qps
      PROVE  Queued(s, i)'
  <2>1. Queued(s, i)
    BY DEF Data
  <2>2. (pc'[s] \in Opening => pc[s] \in Opening) /\ (pc'[s] \in Loop => pc[s] \in Loop)
    BY DEF Drifts, Opening, Loop, Parsing, Resting
  <2>3. (Message(s, i)' <=> Message(s, i)) /\ (Turn(s, i)' <=> Turn(s, i))
    BY DEF Message, Turn
  <2> QED  BY <1>1, <1>2, <2>1, <2>2, <2>3 DEF Queued
<1>5. ASSUME NEW s \in Sides, On(s)'
      PROVE  Piled(s)'
  <2>1. Piled(s) /\ Drifts(s) /\ pc'[s] # "failed"
    BY <1>2, <1>5 DEF Data, On
  <2>2. /\ pc'[s] \in Parsing <=> pc[s] \in Parsing
        /\ pc'[s] \in {"answer", "answer_next"} <=> pc[s] \in {"answer", "answer_next"}
    BY <2>1 DEF Drifts, Parsing, Opening, Resting
  <2>3. Unparsed(s)' = Unparsed(s)
    BY <2>2 DEF Unparsed
  <2>4. Pile(s)' = Pile(s)
    BY <2>3 DEF Pile
  <2>5. \A c : Counted(s, c) => Counted(s, c)'
    BY <1>1, <1>2, Peers DEF Counted, Message
  <2>6. Entries(s, Unparsed(s), "idle")' /\ Entries(s, cq[s], "done")'
    BY <2>1, <2>3 DEF Piled, Entries
  <2>7. Distinct(Pile(s))' /\ Recvs(Pile(s))' = Recvs(Pile(s))
    BY <2>1, <2>4 DEF Piled
  <2>8. \A k \in DOMAIN Pile(s)' : Counted(s, Pile(s)[k])'
    BY <2>1, <2>4, <2>5 DEF Piled
  <2> QED  BY <1>1, <2>1, <2>2, <2>6, <2>7, <2>8 DEF Piled
<1>6. \A s \in Sides : (Len(cq[s]) <= RxDepth + Cardinality(Qps))'
  BY <1>1 DEF Data
<1> QED  BY <1>1, <1>3, <1>4, <1>5, <1>6 DEF Data

\* In the main loop nothing happens to the exchange of addresses.
LEMMA LoopKeepsExchange ==
    ASSUME Types, Exchange, UNCHANGED <<tcp, connected>>,
           \A q \in Sides : \/ pc'[q] = pc[q] \/ pc'[q] = "failed"
                            \/ pc[q] \in Loop \cup {"start"} /\ pc'[q] \in Loop
    PROVE  Exchange'
<1>1. \A q \in Sides : pc'[q] # "failed" =>
          pc[q] # "failed" /\ Wrote(q)' = Wrote(q) /\ Took(q)' = Took(q)
  BY DEF Types, Wrote, Took, Loop, Parsing, Opening
<1>2. "client" \in Sides /\ "server" \in Sides
  BY DEF Sides
<1>3. ((\A s \in Sides : pc[s] # "failed") =>
          /\ Len(tcp["server"]) = Wrote("client") - Took("server")
          /\ Len(tcp["client"]) = Wrote("server") - Took("client"))'
  BY <1>1, <1>2 DEF Exchange
<1>4. (pc["server"] \in Loop \cup {"write_addr", "read_done", "start"} => connected["server"])'
  BY <1>2 DEF Exchange, Loop, Parsing
<1>5. (pc["client"] \in Loop \cup {"write_done", "connect", "start"} => connected["server"])'
  BY <1>2 DEF Exchange, Loop, Parsing
<1>6. (pc["client"] \in Loop \cup {"start"} => connected["client"])'
  BY <1>2 DEF Exchange, Loop, Parsing
<1> QED  BY <1>3, <1>4, <1>5, <1>6 DEF Exchange

\* The labels of each side, one after the other.
LEMMA Scripts ==
    /\ After("client", "write_addr") = "read_addr"
    /\ After("client", "read_addr") = "write_done"
    /\ After("client", "write_done") = "connect"
    /\ After("client", "connect") = "start"
    /\ After("server", "read_addr") = "connect"
    /\ After("server", "connect") = "write_addr"
    /\ After("server", "write_addr") = "read_done"
    /\ After("server", "read_done") = "start"
<1> DEFINE a == <<"write_addr", "read_addr", "write_done", "connect", "start">>
           b == <<"read_addr", "connect", "write_addr", "read_done", "start">>
           Place(q, x) == CHOOSE k \in DOMAIN q : q[k] = x
<1>1. \A x : After("client", x) = a[Place(a, x) + 1] /\ After("server", x) = b[Place(b, x) + 1]
  BY DEF After, Script
<1>2. Place(a, "write_addr") = 1 /\ Place(a, "read_addr") = 2 /\ Place(a, "write_done") = 3 /\ Place(a, "connect") = 4
  OBVIOUS
<1>3. Place(b, "read_addr") = 1 /\ Place(b, "connect") = 2 /\ Place(b, "write_addr") = 3 /\ Place(b, "read_done") = 4
  OBVIOUS
<1> HIDE DEF Place
<1> QED  BY <1>1, <1>2, <1>3

\* A side goes to label x.
LEMMA Goes ==
    ASSUME Types, NEW s \in Sides, NEW x \in Opening \cup Loop \cup {"failed"}, Goto(s, x)
    PROVE  /\ pc' \in [Sides -> Opening \cup Loop \cup {"failed"}]
           /\ pc'[s] = x /\ \A q \in Sides \ {s} : pc'[q] = pc[q]
BY DEF Types, Goto

\* main returns 1.
LEMMA FailKeepsInv ==
    ASSUME Inv, NEW s \in Sides, Fail(s)
    PROVE  Inv'
<1>1. Types /\ Exchange /\ Data
  BY DEF Inv
<1>2. /\ pc' \in [Sides -> Opening \cup Loop \cup {"failed"}]
      /\ pc'[s] = "failed" /\ \A q \in Sides \ {s} : pc'[q] = pc[q]
  BY <1>1, Goes DEF Fail
<1>3. Types'
  BY <1>1, <1>2 DEF Fail, Types, setupVars, countVars, adapterVars, history, Completions, Qps, Sides
<1>4. Exchange'
  BY <1>1, <1>2, LoopKeepsExchange DEF Fail, setupVars
<1>5. Data'
  BY <1>1, <1>2, QuietKeepsData DEF Fail, setupVars, countVars, adapterVars, history, Drifts
<1> QED  BY <1>3, <1>4, <1>5 DEF Inv

\* write of an address or of "done"
LEMMA WriteMsgKeepsInv ==
    ASSUME Inv, NEW s \in Sides, WriteMsg(s)
    PROVE  Inv'
<1>1. Types /\ Exchange /\ Data
  BY DEF Inv
<1> DEFINE x == After(s, pc[s])
<1>2. \/ s = "client" /\ pc[s] = "write_addr" /\ x = "read_addr"
      \/ s = "client" /\ pc[s] = "write_done" /\ x = "connect"
      \/ s = "server" /\ pc[s] = "write_addr" /\ x = "read_done"
  BY <1>1, Scripts DEF WriteMsg, Sides, Types
<1>3. x \in Opening /\ pc[s] \in Opening
  BY <1>2 DEF Opening
<1> HIDE DEF x
<1>4. Goto(s, x)
  BY DEF x, WriteMsg
<1>5. /\ pc' \in [Sides -> Opening \cup Loop \cup {"failed"}]
      /\ pc'[s] = x /\ \A q \in Sides \ {s} : pc'[q] = pc[q]
  BY <1>1, <1>3, <1>4, Goes
<1>6. /\ tcp' \in [Sides -> Seq({"write_addr", "write_done"})]
      /\ Len(tcp'[Peer(s)]) = Len(tcp[Peer(s)]) + 1 /\ tcp'[s] = tcp[s]
  <2>1. /\ pc[s] \in {"write_addr", "write_done"}
        /\ tcp[Peer(s)] \in Seq({"write_addr", "write_done"})
    BY <1>1, Peers DEF WriteMsg, Types
  <2>2. /\ Append(tcp[Peer(s)], pc[s]) \in Seq({"write_addr", "write_done"})
        /\ Len(Append(tcp[Peer(s)], pc[s])) = Len(tcp[Peer(s)]) + 1
    BY <2>1, AppendProperties
  <2> QED  BY <1>1, <2>2, Peers DEF WriteMsg, Types
<1>7. Types'
  BY <1>1, <1>2, <1>5, <1>6 DEF WriteMsg, Types, countVars, adapterVars, history, Completions, Qps, Sides
<1>8. Data'
  BY <1>1, <1>3, <1>5, QuietKeepsData DEF WriteMsg, countVars, adapterVars, history, Drifts
<1>9. Exchange'
  <2>1. UNCHANGED connected /\ Len(tcp[s]) \in Nat /\ Len(tcp[Peer(s)]) \in Nat
    BY <1>1, Peers, LenProperties DEF WriteMsg, Types
  <2>2. CASE s = "client"
    <3>1. Peer(s) = "server" /\ Peer("server") = s
      BY <2>2 DEF Peer
    <3>3. ASSUME (\A q \in Sides : pc[q] # "failed")'
          PROVE  (/\ Len(tcp["server"]) = Wrote("client") - Took("server")
                  /\ Len(tcp["client"]) = Wrote("server") - Took("client"))'
      <4>1. \A q \in Sides : pc[q] # "failed"
        BY <1>2, <1>5, <3>3
      <4>2. /\ Len(tcp["server"]) = Wrote("client") - Took("server")
            /\ Len(tcp["client"]) = Wrote("server") - Took("client")
        BY <1>1, <4>1 DEF Exchange
      <4>3. /\ Wrote("client")' = Wrote("client") + 1 /\ Took("client")' = Took("client")
            /\ Wrote("server")' = Wrote("server") /\ Took("server")' = Took("server")
        BY <1>2, <1>5, <2>2 DEF Wrote, Took, Sides
      <4>4. /\ Wrote("client") \in Int /\ Took("client") \in Int
            /\ Wrote("server") \in Int /\ Took("server") \in Int
        BY DEF Wrote, Took
      <4>5. /\ Len(tcp'["server"]) = Len(tcp["server"]) + 1 /\ tcp'["client"] = tcp["client"]
            /\ Len(tcp["server"]) \in Nat
        BY <1>6, <2>1, <2>2, <3>1
      <4> QED  BY <4>2, <4>3, <4>4, <4>5
    <3>4. (tcp["client"] # <<>> => connected["server"])'
      BY <1>1, <1>2, <1>6, <2>1, <2>2, <3>1 DEF Exchange
    <3> QED  BY <1>1, <1>2, <1>5, <2>1, <2>2, <3>3, <3>4
             DEF Exchange, Loop, Parsing, Sides
  <2>3. CASE s = "server"
    <3>1. Peer(s) = "client" /\ Peer("client") = s
      BY <2>3 DEF Peer
    <3>3. ASSUME (\A q \in Sides : pc[q] # "failed")'
          PROVE  (/\ Len(tcp["server"]) = Wrote("client") - Took("server")
                  /\ Len(tcp["client"]) = Wrote("server") - Took("client"))'
      <4>1. \A q \in Sides : pc[q] # "failed"
        BY <1>2, <1>5, <3>3
      <4>2. /\ Len(tcp["server"]) = Wrote("client") - Took("server")
            /\ Len(tcp["client"]) = Wrote("server") - Took("client")
        BY <1>1, <4>1 DEF Exchange
      <4>3. /\ Wrote("server")' = Wrote("server") + 1 /\ Took("server")' = Took("server")
            /\ Wrote("client")' = Wrote("client") /\ Took("client")' = Took("client")
        BY <1>2, <1>5, <2>3 DEF Wrote, Took, Sides
      <4>4. /\ Wrote("server") \in Int /\ Took("server") \in Int
            /\ Wrote("client") \in Int /\ Took("client") \in Int
        BY DEF Wrote, Took
      <4> QED  BY <1>6, <2>1, <2>3, <3>1, <4>2, <4>3, <4>4
    <3>4. (tcp["client"] # <<>> => connected["server"])'
      BY <1>1, <1>2, <1>6, <2>1, <2>3, <3>1 DEF Exchange
    <3> QED  BY <1>1, <1>2, <1>5, <2>1, <2>3, <3>3, <3>4
             DEF Exchange, Loop, Parsing, Sides
  <2> QED  BY <2>2, <2>3 DEF Sides
<1> QED  BY <1>7, <1>8, <1>9 DEF Inv

\* read of an address or of "done"
LEMMA ReadMsgKeepsInv ==
    ASSUME Inv, NEW s \in Sides, ReadMsg(s)
    PROVE  Inv'
<1>1. Types /\ Exchange /\ Data
  BY DEF Inv
<1> DEFINE x == After(s, pc[s])
<1>2. \/ s = "client" /\ pc[s] = "read_addr" /\ x = "write_done"
      \/ s = "server" /\ pc[s] = "read_addr" /\ x = "connect"
      \/ s = "server" /\ pc[s] = "read_done" /\ x = "start"
  BY <1>1, Scripts DEF ReadMsg, Sides, Types
<1>3. x \in Opening /\ pc[s] \in Opening
  BY <1>2 DEF Opening
<1> HIDE DEF x
<1>4. Goto(s, x)
  BY DEF x, ReadMsg
<1>5. /\ pc' \in [Sides -> Opening \cup Loop \cup {"failed"}]
      /\ pc'[s] = x /\ \A q \in Sides \ {s} : pc'[q] = pc[q]
  BY <1>1, <1>3, <1>4, Goes
<1>6. /\ tcp' \in [Sides -> Seq({"write_addr", "write_done"})]
      /\ Len(tcp'[s]) = Len(tcp[s]) - 1 /\ tcp'[Peer(s)] = tcp[Peer(s)] /\ tcp[s] # <<>>
  <2>1. tcp[s] \in Seq({"write_addr", "write_done"}) /\ tcp[s] # <<>>
    BY <1>1 DEF ReadMsg, Types
  <2>2. /\ Tail(tcp[s]) \in Seq({"write_addr", "write_done"})
        /\ Len(Tail(tcp[s])) = Len(tcp[s]) - 1
    BY <2>1, HeadTailProperties
  <2> QED  BY <1>1, <2>1, <2>2, Peers DEF ReadMsg, Types
<1>7. Types'
  BY <1>1, <1>2, <1>5, <1>6 DEF ReadMsg, Types, countVars, adapterVars, history, Completions, Qps, Sides
<1>8. Data'
  BY <1>1, <1>3, <1>5, QuietKeepsData DEF ReadMsg, countVars, adapterVars, history, Drifts
<1>9. Exchange'
  <2>1. UNCHANGED connected /\ Len(tcp[s]) \in Nat /\ Len(tcp[Peer(s)]) \in Nat
    BY <1>1, Peers, LenProperties DEF ReadMsg, Types
  <2>2. CASE s = "client"
    <3>1. Peer(s) = "server" /\ Peer("server") = s
      BY <2>2 DEF Peer
    <3>3. ASSUME (\A q \in Sides : pc[q] # "failed")'
          PROVE  (/\ Len(tcp["server"]) = Wrote("client") - Took("server")
                  /\ Len(tcp["client"]) = Wrote("server") - Took("client"))'
      <4>1. \A q \in Sides : pc[q] # "failed"
        BY <1>2, <1>5, <3>3
      <4>2. /\ Len(tcp["server"]) = Wrote("client") - Took("server")
            /\ Len(tcp["client"]) = Wrote("server") - Took("client")
        BY <1>1, <4>1 DEF Exchange
      <4>3. /\ Wrote("client")' = Wrote("client") /\ Took("client")' = Took("client") + 1
            /\ Wrote("server")' = Wrote("server") /\ Took("server")' = Took("server")
        BY <1>2, <1>5, <2>2 DEF Wrote, Took, Sides
      <4>4. /\ Wrote("client") \in Int /\ Took("client") \in Int
            /\ Wrote("server") \in Int /\ Took("server") \in Int
        BY DEF Wrote, Took
      <4> QED  BY <1>6, <2>1, <2>2, <3>1, <4>2, <4>3, <4>4
    <3>4. (tcp["client"] # <<>> => connected["server"])'
      BY <1>1, <1>2, <1>6, <2>1, <2>2, <3>1 DEF Exchange
    <3>5. connected["server"] = TRUE
      BY <1>1, <1>6, <2>2 DEF Exchange, Types
    <3> QED  BY <1>1, <1>2, <1>5, <2>1, <2>2, <3>3, <3>4, <3>5
             DEF Exchange, Loop, Parsing, Sides
  <2>3. CASE s = "server"
    <3>1. Peer(s) = "client" /\ Peer("client") = s
      BY <2>3 DEF Peer
    <3>2. pc[s] = "read_done" => connected["server"]
      BY <1>1, <2>3 DEF Exchange
    <3>3. ASSUME (\A q \in Sides : pc[q] # "failed")'
          PROVE  (/\ Len(tcp["server"]) = Wrote("client") - Took("server")
                  /\ Len(tcp["client"]) = Wrote("server") - Took("client"))'
      <4>1. \A q \in Sides : pc[q] # "failed"
        BY <1>2, <1>5, <3>3
      <4>2. /\ Len(tcp["server"]) = Wrote("client") - Took("server")
            /\ Len(tcp["client"]) = Wrote("server") - Took("client")
        BY <1>1, <4>1 DEF Exchange
      <4>3. /\ Wrote("server")' = Wrote("server") /\ Took("server")' = Took("server") + 1
            /\ Wrote("client")' = Wrote("client") /\ Took("client")' = Took("client")
        BY <1>2, <1>5, <2>3 DEF Wrote, Took, Sides
      <4>4. /\ Wrote("server") \in Int /\ Took("server") \in Int
            /\ Wrote("client") \in Int /\ Took("client") \in Int
        BY DEF Wrote, Took
      <4> QED  BY <1>6, <2>1, <2>3, <3>1, <4>2, <4>3, <4>4
    <3>4. (tcp["client"] # <<>> => connected["server"])'
      BY <1>1, <1>2, <1>6, <2>1, <2>3, <3>1 DEF Exchange
    <3> QED  BY <1>1, <1>2, <1>5, <2>1, <2>3, <3>3, <3>4
             DEF Exchange, Loop, Parsing, Sides
  <2> QED  BY <2>2, <2>3 DEF Sides
<1> QED  BY <1>7, <1>8, <1>9 DEF Inv

\* A read that comes short fails, or is tried again.
LEMMA ReadShortKeepsInv ==
    ASSUME Inv, NEW s \in Sides, ReadShort(s)
    PROVE  Inv'
<1>1. Types /\ Exchange /\ Data
  BY DEF Inv
<1>2. /\ pc' \in [Sides -> Opening \cup Loop \cup {"failed"}]
      /\ pc'[s] = pc[s] \/ pc'[s] = "failed"
      /\ \A q \in Sides \ {s} : pc'[q] = pc[q]
  BY <1>1, Goes DEF ReadShort, Types
<1>3. short' \in Nat
  BY <1>1 DEF ReadShort, Types
<1>4. Types'
  BY <1>1, <1>2, <1>3 DEF ReadShort, Types, countVars, adapterVars, history, Completions, Qps, Sides
<1>5. Exchange'
  BY <1>1, <1>2, LoopKeepsExchange DEF ReadShort
<1>6. Data'
  BY <1>1, <1>2, QuietKeepsData DEF ReadShort, countVars, adapterVars, history, Drifts
<1> QED  BY <1>4, <1>5, <1>6 DEF Inv

\* pp_connect_ctx
LEMMA ConnectKeepsInv ==
    ASSUME Inv, NEW s \in Sides, Connect(s)
    PROVE  Inv'
<1>1. Types /\ Exchange /\ Data
  BY DEF Inv
<1> DEFINE x == After(s, "connect")
<1>2. /\ pc[s] = "connect"
      /\ \/ s = "client" /\ x = "start"
         \/ s = "server" /\ x = "write_addr"
  BY <1>1, Scripts DEF Connect, Sides, At
<1>3. x \in Opening /\ pc[s] \in Opening
  BY <1>2 DEF Opening
<1> HIDE DEF x
<1>4. Goto(s, x)
  BY DEF x, Connect
<1>5. /\ pc' \in [Sides -> Opening \cup Loop \cup {"failed"}]
      /\ pc'[s] = x /\ \A q \in Sides \ {s} : pc'[q] = pc[q]
  BY <1>1, <1>3, <1>4, Goes
<1>6. /\ connected' \in [Sides -> BOOLEAN] /\ connected'[s] = TRUE
      /\ \A q \in Sides \ {s} : connected'[q] = connected[q]
  BY <1>1 DEF Connect, Types
<1>7. Types'
  BY <1>1, <1>2, <1>5, <1>6 DEF Connect, Types, countVars, adapterVars, history, Completions, Qps, Sides
<1>8. Data'
  BY <1>1, <1>3, <1>5, <1>6, QuietKeepsData DEF Connect, countVars, adapterVars, history, Drifts
<1>9. Exchange'
  <2>1. UNCHANGED tcp
    BY DEF Connect
  <2>2. CASE s = "client"
    <3>1. Peer(s) = "server" /\ Peer("server") = s
      BY <2>2 DEF Peer
    <3> QED  BY <1>1, <1>2, <1>5, <1>6, <2>1, <2>2, <3>1
             DEF Exchange, Wrote, Took, Loop, Parsing, Sides
  <2>3. CASE s = "server"
    <3>1. Peer(s) = "client" /\ Peer("client") = s
      BY <2>3 DEF Peer
    <3> QED  BY <1>1, <1>2, <1>5, <1>6, <2>1, <2>3, <3>1
             DEF Exchange, Wrote, Took, Loop, Parsing, Sides
  <2> QED  BY <2>2, <2>3 DEF Sides
<1> QED  BY <1>7, <1>8, <1>9 DEF Inv

\* A step in the loop that moves s from one resting label to another, or to
\* the end.
LEMMA RestingKeepsInv ==
    ASSUME Inv, NEW s \in Sides, pc[s] \in Resting, NEW x \in Resting \cup {"ended"}, Goto(s, x),
           UNCHANGED <<prog, use_event, setupVars, countVars, wc, st, rx, cq, net, history>>
    PROVE  Inv'
<1>1. Types /\ Exchange /\ Data
  BY DEF Inv
<1>2. x \in Loop /\ pc[s] \in Loop
  BY DEF Loop, Resting
<1>3. /\ pc' \in [Sides -> Opening \cup Loop \cup {"failed"}]
      /\ pc'[s] = x /\ \A q \in Sides \ {s} : pc'[q] = pc[q]
  BY <1>1, <1>2, Goes
<1>4. Types'
  <2>1. x # "read_done" /\ x # "write_done"
    BY DEF Resting
  <2> QED  BY <1>1, <1>3, <2>1 DEF Types, setupVars, countVars, history, Completions, Qps, Sides
<1>5. Exchange'
  BY <1>1, <1>2, <1>3, LoopKeepsExchange DEF setupVars
<1>6. Data'
  BY <1>1, <1>3, QuietKeepsData DEF setupVars, countVars, history, Drifts
<1> QED  BY <1>4, <1>5, <1>6 DEF Inv

----------------------------------------------------------------------------
\* What happens to a pile.

\* No completion of p is of the kind and queue pair of c.
Fresh(c, p) == \A k \in DOMAIN p : ~ (p[k].id = c.id /\ p[k].qp = c.qp)

\* The first completion leaves the pile, and with it the only one of its kind
\* and queue pair.
LEMMA DistinctTail ==
    ASSUME NEW S, NEW p \in Seq(S), p # <<>>, Distinct(p)
    PROVE  /\ Tail(p) \in Seq(S) /\ Distinct(Tail(p)) /\ 1 \in DOMAIN p /\ p[1] = Head(p)
           /\ \A k \in DOMAIN Tail(p) :
                 /\ k + 1 \in DOMAIN p /\ Tail(p)[k] = p[k + 1]
                 /\ ~ (Tail(p)[k].id = Head(p).id /\ Tail(p)[k].qp = Head(p).qp)
           /\ Recvs(p) = Recvs(Tail(p)) + (IF Head(p).id = "RECV" THEN 1 ELSE 0)
           /\ Recvs(Tail(p)) \in Nat
<1> DEFINE t == Tail(p)
           n == Len(p)
           h == Head(p)
<1>1. /\ t \in Seq(S) /\ Len(t) = n - 1 /\ \A k \in 1 .. Len(t) : t[k] = p[k + 1]
      /\ h \in S
  BY HeadTailProperties
<1>2. n \in Nat /\ n > 0 /\ DOMAIN p = 1 .. n /\ DOMAIN t = 1 .. Len(t)
  BY <1>1, LenProperties, EmptySeq
<1>3. h = p[1]
  OBVIOUS
<1>4. p = <<h>> \o t
  BY HeadTailProperties
<1>5. Recvs(p) = Recvs(t) + (IF h.id = "RECV" THEN 1 ELSE 0) /\ Recvs(t) \in Nat
  <2> HIDE DEF t, h
  <2>1. <<h>> \in Seq(S) /\ <<>> \in Seq(S) /\ <<h>> = Append(<<>>, h)
    BY <1>1, EmptySeq
  <2>2. Recvs(<<h>>) = IF h.id = "RECV" THEN 1 ELSE 0
    <3> DEFINE e == <<>>
    <3>1. e \in Seq(S) /\ <<h>> = Append(e, h) /\ Recvs(e) = 0
      BY <2>1, NoRecvs
    <3> HIDE DEF e
    <3>2. Recvs(Append(e, h)) = Recvs(e) + (IF h.id = "RECV" THEN 1 ELSE 0)
      BY <1>1, <3>1, RecvsAppend
    <3>3. Recvs(<<h>>) = 0 + (IF h.id = "RECV" THEN 1 ELSE 0)
      BY <3>1, <3>2
    <3>4. CASE h.id = "RECV"
      BY <3>3, <3>4
    <3>5. CASE h.id # "RECV"
      BY <3>3, <3>5
    <3> QED  BY <3>4, <3>5
  <2>3. Recvs(<<h>> \o t) = Recvs(<<h>>) + Recvs(t)
    BY <1>1, <2>1, RecvsConcat
  <2>4. Recvs(t) \in Nat
    BY <1>1, Places
  <2> QED  BY <1>4, <2>2, <2>3, <2>4
<1> HIDE DEF t, n, h
<1>6. \A k \in DOMAIN t : k + 1 \in DOMAIN p /\ t[k] = p[k + 1] /\ k + 1 # 1
  BY <1>1, <1>2
<1>7. 1 \in DOMAIN p
  BY <1>2
<1>8. \A k \in DOMAIN t : ~ (t[k].id = h.id /\ t[k].qp = h.qp)
  BY <1>3, <1>6, <1>7 DEF Distinct
<1>9. Distinct(t)
  <2> SUFFICES ASSUME NEW j \in DOMAIN t, NEW k \in DOMAIN t,
                      t[j].id = t[k].id, t[j].qp = t[k].qp
               PROVE  j = k
    BY DEF Distinct
  <2>1. j + 1 = k + 1
    BY <1>6 DEF Distinct
  <2> QED  BY <1>1, <1>2, <2>1
<1> QED  BY <1>1, <1>3, <1>5, <1>6, <1>7, <1>8, <1>9 DEF t, h

\* The receives of a pile, and the length of its queue.
LEMMA PileBound ==
    ASSUME NEW T, IsFiniteSet(T), NEW u, NEW q,
           u \in Seq([id : {"SEND", "RECV"}, qp : T, ok : BOOLEAN]),
           q \in Seq([id : {"SEND", "RECV"}, qp : T, ok : BOOLEAN]),
           Distinct(u \o q), NEW r \in Nat, r + Recvs(u \o q) <= RxDepth
    PROVE  Len(q) <= RxDepth + Cardinality(T)
<1> DEFINE C == [id : {"SEND", "RECV"}, qp : T, ok : BOOLEAN]
           p == u \o q
           m == Len(u)
           n == Len(q)
<1>1. u \in Seq(C) /\ q \in Seq(C)
  OBVIOUS
<1>2. Distinct(p) /\ r + Recvs(p) <= RxDepth
  OBVIOUS
<1> HIDE DEF C
<1>3. /\ p \in Seq(C) /\ Len(p) = m + n
      /\ \A k \in 1 .. m + n : p[k] = IF k <= m THEN u[k] ELSE q[k - m]
  BY <1>1, ConcatProperties
<1>4. m \in Nat /\ n \in Nat /\ DOMAIN q = 1 .. n /\ DOMAIN p = 1 .. Len(p)
  BY <1>1, <1>3, LenProperties
<1>5. Recvs(p) = Recvs(u) + Recvs(q) /\ Recvs(u) \in Nat /\ Recvs(q) \in Nat
  BY <1>1, RecvsConcat, Places
<1> HIDE DEF p, m, n
<1>6. \A k \in 1 .. n : m + k \in DOMAIN p /\ q[k] = p[m + k]
  <2> SUFFICES ASSUME NEW k \in 1 .. n
               PROVE  m + k \in DOMAIN p /\ q[k] = p[m + k]
    OBVIOUS
  <2>1. m + k \in 1 .. m + n /\ ~ (m + k <= m) /\ (m + k) - m = k
    BY <1>4
  <2> QED  BY <1>3, <1>4, <2>1
<1>7. Distinct(q)
  <2> SUFFICES ASSUME NEW j \in 1 .. n, NEW k \in 1 .. n,
                      q[j].id = q[k].id, q[j].qp = q[k].qp
               PROVE  j = k
    BY <1>4 DEF Distinct
  <2>1. m + j = m + k
    BY <1>2, <1>6 DEF Distinct
  <2> QED  BY <1>4, <2>1
<1>8. n <= Recvs(q) + Cardinality(T)
  BY <1>1, <1>7, LengthBound DEF C, n
<1>9. Cardinality(T) \in Nat /\ RxDepth \in Nat
  BY FS_CardinalityType, VerbsAssumption
<1>10. n <= RxDepth + Cardinality(T)
  BY <1>2, <1>4, <1>5, <1>8, <1>9
<1> QED  BY <1>10 DEF n

\* The pile of a side that runs.
LEMMA PileType ==
    ASSUME Types, NEW s \in Sides, Piled(s)
    PROVE  /\ Unparsed(s) \in Seq(Completions) /\ cq[s] \in Seq(Completions)
           /\ Pile(s) \in Seq(Completions) /\ Recvs(Pile(s)) \in Nat
           /\ Recvs(Pile(s)) = Recvs(cq[s]) + Recvs(Unparsed(s))
           /\ Recvs(cq[s]) \in Nat /\ Recvs(Unparsed(s)) \in Nat
<1>1. wc[s] \in Seq(Completions) /\ cq[s] \in Seq(Completions)
  BY DEF Types
<1>2. pc[s] \in {"answer", "answer_next"} => wc[s] # <<>>
  BY DEF Piled, Parsing
<1>3. Unparsed(s) \in Seq(Completions)
  BY <1>1, <1>2, HeadTailProperties DEF Unparsed
<1> DEFINE u == Unparsed(s)
           q == cq[s]
<1> HIDE DEF u, q
<1>4. u \in Seq(Completions) /\ q \in Seq(Completions)
  BY <1>1, <1>3 DEF u, q
<1>5. Recvs(u) \in Nat /\ Recvs(q) \in Nat /\ u \o q \in Seq(Completions)
      /\ Recvs(u \o q) = Recvs(u) + Recvs(q)
  BY <1>4, ConcatProperties, RecvsConcat, Places
<1> QED  BY <1>4, <1>5 DEF Pile, u, q

\* Completion c is in p.
In(c, p) == \E k \in DOMAIN p : p[k] = c

\* A step leaves what Inv says of the completions of q as it is.
Keeps(q) ==
    /\ \A c \in Completions : In(c, Pile(q)) => Counted(q, c)'
    /\ \A c \in Completions : In(c, Unparsed(q)) /\ c.id = "SEND" => st'[q][c.qp] = "idle"
    /\ \A c \in Completions : In(c, cq[q]) /\ c.id = "SEND" => st'[q][c.qp] = "done"

\* The pile of a side whose program and queue stand still.
LEMMA StillPiled ==
    ASSUME Types, NEW q \in Sides, Piled(q), Keeps(q), prog' = prog, pc'[q] = pc[q],
           wc'[q] = wc[q], cq'[q] = cq[q], routs'[q] = routs[q], rx'[q] = rx[q]
    PROVE  Piled(q)'
<1>1. Unparsed(q)' = Unparsed(q)
  BY DEF Unparsed
<1>2. Pile(q)' = Pile(q) /\ Qps' = Qps
  BY <1>1 DEF Pile, Qps
<1>3. /\ Unparsed(q) \in Seq(Completions) /\ cq[q] \in Seq(Completions)
      /\ Pile(q) \in Seq(Completions)
  BY PileType
<1>4. /\ \A k \in DOMAIN Pile(q) : Pile(q)[k] \in Completions
      /\ \A k \in DOMAIN Unparsed(q) : Unparsed(q)[k] \in Completions
      /\ \A k \in DOMAIN cq[q] : cq[q][k] \in Completions
  BY <1>3, ElementOfSeq, LenProperties
<1>5. \A k \in DOMAIN Pile(q)' : Counted(q, Pile(q)[k])'
  <2> SUFFICES ASSUME NEW k \in DOMAIN Pile(q)
               PROVE  Counted(q, Pile(q)[k])'
    BY <1>2
  <2>1. PICK c \in Completions : c = Pile(q)[k]
    BY <1>4
  <2>2. Counted(q, c)'
    BY <2>1 DEF Keeps, In
  <2> QED  BY <1>2, <2>1, <2>2
<1>6. Entries(q, Unparsed(q), "idle")'
  BY <1>1, <1>4 DEF Entries, Keeps, In
<1>7. Entries(q, cq[q], "done")'
  BY <1>4 DEF Entries, Keeps, In
<1>8. Distinct(Pile(q))' /\ Recvs(Pile(q))' = Recvs(Pile(q))
  BY <1>2 DEF Piled
<1> QED  BY <1>2, <1>5, <1>6, <1>7, <1>8 DEF Piled

\* The pile of a side whose queue gets a completion.
LEMMA GrownPiled ==
    ASSUME Types, Types', NEW q \in Sides, Piled(q), Keeps(q), prog' = prog, pc'[q] = pc[q],
           wc'[q] = wc[q], NEW c \in Completions, cq'[q] = Append(cq[q], c),
           routs'[q] = routs[q], rx'[q] = rx[q] - (IF c.id = "RECV" THEN 1 ELSE 0),
           Fresh(c, Pile(q)), Counted(q, c)', c.id = "SEND" => st'[q][c.qp] = "done"
    PROVE  Piled(q)' /\ Len(cq'[q]) <= RxDepth + Cardinality(Qps)
<1>1. Unparsed(q)' = Unparsed(q)
  BY DEF Unparsed
<1>2. /\ Unparsed(q) \in Seq(Completions) /\ cq[q] \in Seq(Completions)
      /\ Pile(q) \in Seq(Completions) /\ Recvs(Pile(q)) \in Nat
  BY PileType
<1>3. PICK u, b, p : u = Unparsed(q) /\ b = cq[q] /\ p = Pile(q)
  OBVIOUS
<1> DEFINE a == Append(p, c)
           d == Append(b, c)
<1>4. /\ u \in Seq(Completions) /\ b \in Seq(Completions) /\ p \in Seq(Completions)
      /\ p = u \o b
  BY <1>2, <1>3 DEF Pile
<1>5. u \o d = a
  BY <1>4, PileAppend
<1>6. Pile(q)' = a /\ Qps' = Qps /\ Completions' = Completions
  BY <1>1, <1>3, <1>5 DEF Pile, Qps, Completions
<1>7. /\ a \in Seq(Completions) /\ d \in Seq(Completions)
      /\ DOMAIN d = 1 .. Len(b) + 1 /\ d[Len(b) + 1] = c
      /\ \A k \in 1 .. Len(b) : d[k] = b[k]
      /\ Len(b) \in Nat /\ DOMAIN b = 1 .. Len(b)
  BY <1>4, AppendProperties, LenProperties
<1>8. /\ Distinct(a)
      /\ \A k \in DOMAIN a : a[k] = c \/ (k \in DOMAIN p /\ a[k] = p[k])
  <2>1. Distinct(p) /\ Fresh(c, p) /\ p \in Seq(Completions)
    BY <1>3, <1>4 DEF Piled
  <2>2. /\ Len(p) \in Nat /\ DOMAIN p = 1 .. Len(p) /\ DOMAIN a = 1 .. Len(p) + 1
        /\ a[Len(p) + 1] = c /\ \A k \in 1 .. Len(p) : a[k] = p[k]
    BY <1>4, AppendProperties, LenProperties
  <2> HIDE DEF a
  <2>3. \A k \in DOMAIN a : k = Len(p) + 1 \/ k \in 1 .. Len(p)
    BY <2>2
  <2>4. Distinct(a)
    BY <2>1, <2>2, <2>3 DEF Distinct, Fresh
  <2> QED  BY <2>2, <2>3, <2>4
<1>9. Recvs(a) = Recvs(p) + (IF c.id = "RECV" THEN 1 ELSE 0)
  BY <1>4, RecvsAppend
<1>10. /\ \A k \in DOMAIN p : p[k] \in Completions
       /\ \A k \in DOMAIN u : u[k] \in Completions
       /\ \A k \in DOMAIN b : b[k] \in Completions
  BY <1>4, ElementOfSeq, LenProperties
<1> HIDE DEF a, d
<1>11. \A k \in DOMAIN Pile(q)' : Counted(q, Pile(q)[k])'
  <2> SUFFICES ASSUME NEW k \in DOMAIN a
               PROVE  Counted(q, Pile(q)[k])'
    BY <1>6
  <2>1. PICK e : e = a[k]
    OBVIOUS
  <2>2. e = c \/ (e \in Completions /\ In(e, Pile(q)))
    BY <1>3, <1>8, <1>10, <2>1 DEF In
  <2>3. Counted(q, e)'
    BY <2>2 DEF Keeps
  <2> QED  BY <1>6, <2>1, <2>3
<1>12. Entries(q, Unparsed(q), "idle")'
  BY <1>1, <1>3, <1>10 DEF Entries, Keeps, In
<1>13. Entries(q, cq[q], "done")'
  <2> SUFFICES ASSUME NEW k \in DOMAIN d, d[k].id = "SEND"
               PROVE  st'[q][d[k].qp] = "done"
    BY <1>3 DEF Entries, d
  <2>1. CASE k = Len(b) + 1
    BY <1>7, <2>1
  <2>2. CASE k \in 1 .. Len(b)
    BY <1>3, <1>7, <1>10, <2>2 DEF Keeps, In
  <2> QED  BY <1>7, <2>1, <2>2
<1>14. /\ routs[q] \in Int /\ rx[q] \in Nat /\ rx'[q] \in Nat /\ Recvs(p) \in Nat
       /\ routs[q] = rx[q] + Recvs(p) /\ routs[q] <= RxDepth /\ Cardinality(Qps) <= routs[q]
  BY <1>2, <1>3 DEF Types, Piled
<1>15. routs'[q] = rx'[q] + Recvs(a)
  BY <1>9, <1>14
<1>16. Distinct(Pile(q))' /\ Recvs(Pile(q))' = Recvs(a)
  BY <1>6, <1>8
<1>17. Piled(q)'
  BY <1>6, <1>11, <1>12, <1>13, <1>14, <1>15, <1>16 DEF Piled
<1>18. Len(d) <= RxDepth + Cardinality(Qps)
  <2>1. rx'[q] + Recvs(u \o d) <= RxDepth
    BY <1>5, <1>14, <1>15
  <2>2. IsFiniteSet(Qps) /\ rx'[q] \in Nat /\ Distinct(u \o d)
    BY <1>5, <1>8, <1>14, QueuePairs
  <2>3. /\ u \in Seq([id : {"SEND", "RECV"}, qp : Qps, ok : BOOLEAN])
        /\ d \in Seq([id : {"SEND", "RECV"}, qp : Qps, ok : BOOLEAN])
    BY <1>4, <1>7 DEF Completions
  <2> QED  BY <2>1, <2>2, <2>3, PileBound
<1> QED  BY <1>3, <1>17, <1>18 DEF d

----------------------------------------------------------------------------
\* The adapters and the wire.

\* What every step of theirs does: programs stand still; an entry of a send
\* queue that is idle or done stays so, none gets posted; a datagram on the
\* wire is a message that is nowhere else.
Carries ==
    /\ UNCHANGED <<prog, use_event, pc, setupVars, routs, scnt, rcnt, pending, wc, history>>
    /\ \A s \in Sides, i \in Qps :
          /\ st[s][i] \in {"idle", "done"} => st'[s][i] = st[s][i]
          /\ st'[s][i] = "posted" => st[s][i] = "posted"
    /\ \A s \in Sides : net'[s] > 0 =>
          /\ net'[s] = 1 /\ ~ Reliable
          /\ \A i \in Qps : Message(s, i) /\ st'[s][i] # "posted"
          /\ On(Peer(s)) => \A c \in Completions : In(c, Pile(Peer(s))) => c.id # "RECV"

\* A step of the adapters leaves every completion that waits in a pile as it
\* was.
LEMMA CarriesKeeps ==
    ASSUME Types, Types', Data, Carries, NEW q \in Sides, On(q)
    PROVE  Keeps(q)
<1>1. Piled(q) /\ Peer(q) \in Sides /\ Peer(Peer(q)) = q
  BY Peers DEF Data
<1>2. /\ Unparsed(q) \in Seq(Completions) /\ cq[q] \in Seq(Completions)
      /\ Pile(q) \in Seq(Completions)
  BY <1>1, PileType
<1>3. \A c \in Completions : c.qp \in Qps
  BY DEF Completions
<1>4. (Reliable' <=> Reliable) /\ (On(Peer(q))' <=> On(Peer(q)))
  BY DEF Carries, Reliable, On
<1>5. net'[Peer(q)] \in Nat
  BY <1>1 DEF Types
<1>6. \A c \in Completions : In(c, Pile(q)) => Counted(q, c)'
  <2> SUFFICES ASSUME NEW c \in Completions, In(c, Pile(q))
               PROVE  Counted(q, c)'
    OBVIOUS
  <2>1. Counted(q, c)
    BY <1>1 DEF Piled, In
  <2>2. c.id = "RECV" => ~ (net'[Peer(q)] > 0)
    BY <1>1 DEF Carries
  <2>3. Message(Peer(q), c.qp)' <=> Message(Peer(q), c.qp)
    BY DEF Carries, Message, history
  <2>4. pending' = pending
    BY DEF Carries
  <2>5. c.id = "RECV" => st'[Peer(q)][c.qp] # "posted"
    BY <1>1, <1>3, <2>1 DEF Carries, Counted
  <2>6. c.id = "RECV" => net'[Peer(q)] = 0
    BY <1>5, <2>2
  <2> QED  BY <1>4, <2>1, <2>3, <2>4, <2>5, <2>6 DEF Counted
<1>7. \A c \in Completions : In(c, Unparsed(q)) /\ c.id = "SEND" => st'[q][c.qp] = "idle"
  <2>1. \A c \in Completions : In(c, Unparsed(q)) /\ c.id = "SEND" => st[q][c.qp] = "idle"
    BY <1>1 DEF Piled, Entries, In
  <2> QED  BY <1>3, <2>1 DEF Carries
<1>8. \A c \in Completions : In(c, cq[q]) /\ c.id = "SEND" => st'[q][c.qp] = "done"
  <2>1. \A c \in Completions : In(c, cq[q]) /\ c.id = "SEND" => st[q][c.qp] = "done"
    BY <1>1 DEF Piled, Entries, In
  <2> QED  BY <1>3, <2>1 DEF Carries
<1> QED  BY <1>6, <1>7, <1>8 DEF Keeps

\* What such a step keeps apart from the piles.
LEMMA CarriesQueued ==
    ASSUME Types, Types', Data, Carries
    PROVE  (\A i \in Qps : Chain(i))' /\ (\A s \in Sides, i \in Qps : Queued(s, i))'
<1>1. Qps' = Qps /\ (Reliable' <=> Reliable)
  BY DEF Carries, Qps, Reliable
<1>2. \A i \in Qps : Chain(i)'
  BY DEF Data, Chain, Carries, setupVars, history
<1>3. ASSUME NEW s \in Sides, NEW i \in Qps
      PROVE  Queued(s, i)'
  <2>1. Queued(s, i)
    BY DEF Data
  <2>2. /\ (Message(s, i)' <=> Message(s, i)) /\ (Turn(s, i)' <=> Turn(s, i))
        /\ (On(s)' <=> On(s)) /\ pc' = pc /\ sent' = sent /\ got' = got /\ pending' = pending
    BY DEF Carries, Message, Turn, On, history
  <2>3. /\ st[s][i] = "idle" => st'[s][i] = "idle"
        /\ st'[s][i] = "posted" => st[s][i] = "posted"
    BY DEF Carries
  <2>4. net'[s] > 0 => net'[s] = 1 /\ Message(s, i) /\ ~ Reliable /\ st'[s][i] # "posted"
    BY DEF Carries
  <2>5. net'[s] \in Nat
    BY DEF Types
  <2>6. st'[s][i] = "posted" => net'[s] = 0
    BY <2>4, <2>5
  <2> QED  BY <1>1, <2>1, <2>2, <2>3, <2>4, <2>6 DEF Queued
<1> QED  BY <1>1, <1>2, <1>3

\* A step that completes nothing.
LEMMA SilentKeepsData ==
    ASSUME Types, Types', Data, Carries, UNCHANGED <<rx, cq>>
    PROVE  Data'
<1>1. Qps' = Qps /\ UNCHANGED <<prog, pc, wc, routs>>
  BY DEF Carries, Qps
<1>2. ASSUME NEW s \in Sides, On(s)'
      PROVE  Piled(s)'
  <2>1. On(s) /\ Piled(s)
    BY <1>1, <1>2 DEF On, Data
  <2>2. Keeps(s)
    BY <2>1, CarriesKeeps
  <2> QED  BY <1>1, <2>1, <2>2, StillPiled
<1>3. \A s \in Sides : (Len(cq[s]) <= RxDepth + Cardinality(Qps))'
  BY <1>1 DEF Data
<1> QED  BY <1>1, <1>2, <1>3, CarriesQueued DEF Data

\* A step that completes c at q.
LEMMA CompletesKeepsData ==
    ASSUME Types, Types', Data, Carries, NEW q \in Sides, On(q), NEW c \in Completions,
           cq' = [cq EXCEPT ![q] = Append(@, c)],
           rx' = IF c.id = "RECV" THEN [rx EXCEPT ![q] = @ - 1] ELSE rx,
           \A d \in Completions : In(d, Pile(q)) => ~ (d.id = c.id /\ d.qp = c.qp),
           Counted(q, c)', c.id = "SEND" => st'[q][c.qp] = "done"
    PROVE  Data'
<1>1. Qps' = Qps /\ UNCHANGED <<prog, pc, wc, routs>>
  BY DEF Carries, Qps
<1>2. /\ cq'[q] = Append(cq[q], c) /\ rx'[q] = rx[q] - (IF c.id = "RECV" THEN 1 ELSE 0)
      /\ \A s \in Sides \ {q} : cq'[s] = cq[s] /\ rx'[s] = rx[s]
  <2>1. rx[q] \in Int
    BY DEF Types
  <2>2. CASE c.id = "RECV"
    BY <2>2 DEF Types
  <2>3. CASE c.id # "RECV"
    BY <2>1, <2>3 DEF Types
  <2> QED  BY <2>2, <2>3
<1>3. Piled(q) /\ Keeps(q)
  BY CarriesKeeps DEF Data
<1>4. Fresh(c, Pile(q))
  <2>1. Pile(q) \in Seq(Completions)
    BY <1>3, PileType
  <2>2. \A k \in DOMAIN Pile(q) : Pile(q)[k] \in Completions
    BY <2>1, ElementOfSeq, LenProperties
  <2> QED  BY <2>2 DEF In, Fresh
<1>5. Piled(q)' /\ Len(cq'[q]) <= RxDepth + Cardinality(Qps)
  BY <1>1, <1>2, <1>3, <1>4, GrownPiled
<1>6. ASSUME NEW s \in Sides, On(s)'
      PROVE  Piled(s)'
  <2>1. CASE s = q
    BY <1>5, <2>1
  <2>2. CASE s # q
    <3>1. On(s) /\ Piled(s)
      BY <1>1, <1>6 DEF On, Data
    <3>2. Keeps(s)
      BY <3>1, CarriesKeeps
    <3> QED  BY <1>1, <1>2, <2>2, <3>1, <3>2, StillPiled
  <2> QED  BY <2>1, <2>2
<1>7. \A s \in Sides : (Len(cq[s]) <= RxDepth + Cardinality(Qps))'
  BY <1>1, <1>2, <1>5 DEF Data
<1> QED  BY <1>1, <1>6, <1>7, CarriesQueued DEF Data

\* A completion of the pile is in main's array or in the queue.
LEMMA InPile ==
    ASSUME Types, NEW s \in Sides, Piled(s), NEW d
    PROVE  In(d, Pile(s)) <=> In(d, Unparsed(s)) \/ In(d, cq[s])
<1> DEFINE u == Unparsed(s)
           q == cq[s]
           p == u \o q
<1>1. u \in Seq(Completions) /\ q \in Seq(Completions) /\ Pile(s) = p
  BY PileType DEF Pile
<1> HIDE DEF u, q
<1>2. /\ p \in Seq(Completions) /\ Len(p) = Len(u) + Len(q)
      /\ \A k \in 1 .. Len(u) + Len(q) : p[k] = IF k <= Len(u) THEN u[k] ELSE q[k - Len(u)]
  BY <1>1, ConcatProperties
<1>3. /\ Len(u) \in Nat /\ Len(q) \in Nat /\ DOMAIN u = 1 .. Len(u) /\ DOMAIN q = 1 .. Len(q)
      /\ DOMAIN p = 1 .. Len(p)
  BY <1>1, <1>2, LenProperties
<1> DEFINE m == Len(u)
           n == Len(q)
<1>4. /\ m \in Nat /\ n \in Nat /\ DOMAIN u = 1 .. m /\ DOMAIN q = 1 .. n
      /\ DOMAIN p = 1 .. m + n
      /\ \A k \in 1 .. m + n : p[k] = IF k <= m THEN u[k] ELSE q[k - m]
  <2> HIDE DEF p
  <2> QED  BY <1>2, <1>3
<1> HIDE DEF p, m, n
<1>5. ASSUME NEW k \in 1 .. m + n, p[k] = d
      PROVE  In(d, u) \/ In(d, q)
  <2>1. CASE k <= m
    <3>1. k \in 1 .. m /\ p[k] = u[k]
      BY <1>4, <2>1
    <3> QED  BY <1>4, <1>5, <3>1 DEF In
  <2>2. CASE ~ (k <= m)
    <3>1. k - m \in 1 .. n /\ p[k] = q[k - m]
      BY <1>4, <2>2
    <3> QED  BY <1>4, <1>5, <3>1 DEF In
  <2> QED  BY <2>1, <2>2
<1>6. ASSUME NEW k \in 1 .. m, u[k] = d
      PROVE  In(d, p)
  <2>1. k \in 1 .. m + n /\ k <= m
    BY <1>4
  <2> QED  BY <1>4, <1>6, <2>1 DEF In
<1>7. ASSUME NEW k \in 1 .. n, q[k] = d
      PROVE  In(d, p)
  <2>1. m + k \in 1 .. m + n /\ ~ (m + k <= m) /\ (m + k) - m = k
    BY <1>4
  <2>2. p[m + k] = q[k]
    BY <1>4, <2>1
  <2> QED  BY <1>4, <1>7, <2>1, <2>2 DEF In
<1>8. In(d, p) <=> In(d, u) \/ In(d, q)
  BY <1>4, <1>5, <1>6, <1>7 DEF In
<1> QED  BY <1>1, <1>8 DEF u, q

\* Entry i of send queue s goes to state x.
LEMMA EntryMoves ==
    ASSUME Types, NEW s \in Sides, NEW i \in Qps,
           NEW x \in {"delivered", "unacked", "done"}, st' = [st EXCEPT ![s][i] = x]
    PROVE  /\ st' \in [Sides -> [Qps -> {"idle", "posted", "delivered", "unacked", "done"}]]
           /\ st'[s][i] = x
           /\ \A q \in Sides, j \in Qps : q # s \/ j # i => st'[q][j] = st[q][j]
BY DEF Types

\* A datagram of an unreliable program, which has one queue pair.
LEMMA OneQueuePair ==
    ASSUME ~ Reliable
    PROVE  Qps = {0}
BY QueuePairs DEF Reliable

\* What the rest of Inv needs of a step of the adapters.
LEMMA CarriesKeepsInv ==
    ASSUME Inv, Carries, Data', cq' \in [Sides -> Seq(Completions)], rx' \in [Sides -> Nat],
           st' \in [Sides -> [Qps -> {"idle", "posted", "delivered", "unacked", "done"}]],
           net' \in [Sides -> Nat]
    PROVE  Inv'
<1>1. Types'
  BY DEF Inv, Types, Carries, setupVars, history, Completions, Qps
<1>2. Exchange'
  BY LoopKeepsExchange DEF Inv, Carries, setupVars
<1> QED  BY <1>1, <1>2 DEF Inv

\* The types of what the adapters change.
AdapterTypes ==
    /\ cq' \in [Sides -> Seq(Completions)] /\ rx' \in [Sides -> Nat]
    /\ st' \in [Sides -> [Qps -> {"idle", "posted", "delivered", "unacked", "done"}]]
    /\ net' \in [Sides -> Nat]

\* A step of the adapters keeps the types if it keeps those of what it
\* changes.
LEMMA CarriesTypes ==
    ASSUME Types, Carries, AdapterTypes
    PROVE  Types'
BY DEF Types, Carries, AdapterTypes, setupVars, history, Completions, Qps

\* A completion joins a queue.
LEMMA QueueGrows ==
    ASSUME Types, NEW q \in Sides, NEW c \in Completions, Complete(q, c)
    PROVE  /\ cq' = [cq EXCEPT ![q] = Append(@, c)] /\ cq' \in [Sides -> Seq(Completions)]
           /\ UNCHANGED <<prog, use_event, pc, setupVars, routs, scnt, rcnt, pending, wc, history>>
<1>1. Append(cq[q], c) \in Seq(Completions)
  BY AppendProperties DEF Types
<1> QED  BY <1>1 DEF Complete, Types, countVars

\* A message of a reliable queue pair arrives.
LEMMA DeliverKeepsInv ==
    ASSUME Inv, NEW s \in Sides, NEW i \in Qps, Deliver(s, i)
    PROVE  Inv'
<1>1. Types /\ Data /\ Peer(s) \in Sides /\ Peer(s) # s /\ Peer(Peer(s)) = s
  BY Peers DEF Inv
<1>2. PICK q, c : q = Peer(s) /\ c = [id |-> "RECV", qp |-> i, ok |-> TRUE]
  OBVIOUS
<1>3. c \in Completions /\ c.id = "RECV" /\ c.qp = i /\ c.ok = TRUE
  BY <1>2 DEF Completions
<1>4. /\ Reliable /\ On(s) /\ On(q) /\ st[s][i] = "posted" /\ rx[q] > 0
      /\ st' = [st EXCEPT ![s][i] = "delivered"]
      /\ rx' = [rx EXCEPT ![q] = @ - 1] /\ Complete(q, c) /\ UNCHANGED net
  BY <1>2 DEF Deliver, Receives
<1>5. /\ cq' = [cq EXCEPT ![q] = Append(@, c)] /\ cq' \in [Sides -> Seq(Completions)]
      /\ UNCHANGED <<prog, use_event, pc, setupVars, routs, scnt, rcnt, pending, wc, history>>
  BY <1>1, <1>2, <1>3, <1>4, QueueGrows
<1>6. /\ st' \in [Sides -> [Qps -> {"idle", "posted", "delivered", "unacked", "done"}]]
      /\ st'[s][i] = "delivered"
      /\ \A r \in Sides, j \in Qps : r # s \/ j # i => st'[r][j] = st[r][j]
  BY <1>1, <1>4, EntryMoves
<1>7. AdapterTypes
  <2>1. rx' \in [Sides -> Nat]
    <3>1. rx \in [Sides -> Nat] /\ q \in Sides
      BY <1>1, <1>2 DEF Types
    <3>2. rx[q] - 1 \in Nat
      BY <1>4, <3>1
    <3> QED  BY <1>4, <3>1, <3>2
  <2> QED  BY <1>1, <1>4, <1>5, <1>6, <2>1 DEF AdapterTypes, Types
<1>8. Queued(s, i) /\ Message(s, i) /\ net[s] = 0
  BY <1>1, <1>4 DEF Data, Queued
<1>9. Carries
  <2>1. \A r \in Sides : Queued(r, i) /\ net[r] \in Nat
    BY <1>1 DEF Data, Types
  <2>2. \A r \in Sides : net'[r] = 0
    BY <1>4, <2>1 DEF Queued
  <2> QED  BY <1>4, <1>5, <1>6, <2>2 DEF Carries
<1>10. Types'
  BY <1>1, <1>7, <1>9, CarriesTypes
<1>11. \A d \in Completions : In(d, Pile(q)) => ~ (d.id = c.id /\ d.qp = c.qp)
  <2>1. \A d \in Completions : In(d, Pile(q)) => Counted(q, d)
    BY <1>1, <1>2, <1>4 DEF Data, Piled, In
  <2> QED  BY <1>1, <1>2, <1>3, <1>4, <2>1 DEF Counted
<1>12. Counted(q, c)'
  <2>1. Message(s, i)' /\ net'[s] = 0
    BY <1>4, <1>5, <1>8 DEF Message, history
  <2> QED  BY <1>1, <1>2, <1>3, <1>6, <2>1 DEF Counted
<1>13. Data'
  BY <1>1, <1>2, <1>3, <1>4, <1>5, <1>9, <1>10, <1>11, <1>12, CompletesKeepsData
<1> QED  BY <1>7, <1>9, <1>13, CarriesKeepsInv DEF AdapterTypes

\* A reliable send completes, with an error if its peer has gone.
LEMMA SendDoneKeepsInv ==
    ASSUME Inv, NEW s \in Sides, NEW i \in Qps, SendDone(s, i)
    PROVE  Inv'
<1>1. Types /\ Data /\ Peer(s) \in Sides /\ Peer(s) # s /\ Peer(Peer(s)) = s
  BY Peers DEF Inv
<1>2. PICK c : c = [id |-> "SEND", qp |-> i, ok |-> st[s][i] = "delivered" \/ On(Peer(s))]
  OBVIOUS
<1>3. c \in Completions /\ c.id = "SEND" /\ c.qp = i /\ (c.ok \/ ~ On(Peer(s)))
  BY <1>2 DEF Completions
<1>4. /\ Reliable /\ On(s) /\ st[s][i] \in {"posted", "delivered", "unacked"}
      /\ st' = [st EXCEPT ![s][i] = "done"] /\ Complete(s, c) /\ UNCHANGED <<rx, net>>
  BY <1>2 DEF SendDone
<1>5. /\ cq' = [cq EXCEPT ![s] = Append(@, c)] /\ cq' \in [Sides -> Seq(Completions)]
      /\ UNCHANGED <<prog, use_event, pc, setupVars, routs, scnt, rcnt, pending, wc, history>>
  BY <1>1, <1>3, <1>4, QueueGrows
<1>6. /\ st' \in [Sides -> [Qps -> {"idle", "posted", "delivered", "unacked", "done"}]]
      /\ st'[s][i] = "done"
      /\ \A r \in Sides, j \in Qps : r # s \/ j # i => st'[r][j] = st[r][j]
  BY <1>1, <1>4, EntryMoves
<1>7. AdapterTypes
  BY <1>1, <1>4, <1>5, <1>6 DEF AdapterTypes, Types
<1>8. Carries
  <2>1. \A r \in Sides : Queued(r, i) /\ net[r] \in Nat
    BY <1>1 DEF Data, Types
  <2>2. \A r \in Sides : net'[r] = 0
    BY <1>4, <2>1 DEF Queued
  <2> QED  BY <1>4, <1>5, <1>6, <2>2 DEF Carries
<1>9. Types'
  BY <1>1, <1>7, <1>8, CarriesTypes
<1>10. "SEND" \in pending[s][i]
  BY <1>1, <1>4 DEF Data, Queued
<1>11. \A d \in Completions : In(d, Pile(s)) => ~ (d.id = c.id /\ d.qp = c.qp)
  <2>1. Piled(s)
    BY <1>1, <1>4 DEF Data
  <2>2. \A d \in Completions : In(d, Pile(s)) => In(d, Unparsed(s)) \/ In(d, cq[s])
    BY <1>1, <2>1, InPile
  <2>3. \A d \in Completions : (In(d, Unparsed(s)) \/ In(d, cq[s])) /\ d.id = "SEND" =>
            st[s][d.qp] \in {"idle", "done"}
    BY <2>1 DEF Piled, Entries, In
  <2> QED  BY <1>3, <1>4, <2>2, <2>3
<1>12. Counted(s, c)'
  <2>1. (Reliable' <=> Reliable) /\ (On(Peer(s))' <=> On(Peer(s))) /\ pending' = pending
    BY <1>5 DEF Reliable, On
  <2> QED  BY <1>3, <1>4, <1>10, <2>1 DEF Counted
<1>13. Data'
  BY <1>1, <1>3, <1>4, <1>5, <1>6, <1>8, <1>9, <1>11, <1>12, CompletesKeepsData
<1> QED  BY <1>7, <1>8, <1>13, CarriesKeepsInv DEF AdapterTypes

\* An acknowledgement is lost.
LEMMA LoseAckKeepsInv ==
    ASSUME Inv, NEW s \in Sides, NEW i \in Qps, LoseAck(s, i)
    PROVE  Inv'
<1>1. Types /\ Data
  BY DEF Inv
<1>2. /\ Reliable /\ st[s][i] = "delivered" /\ st' = [st EXCEPT ![s][i] = "unacked"]
      /\ UNCHANGED <<prog, use_event, pc, setupVars, routs, scnt, rcnt, pending, wc, history>>
      /\ UNCHANGED <<rx, cq, net>>
  BY DEF LoseAck, countVars
<1>3. /\ st' \in [Sides -> [Qps -> {"idle", "posted", "delivered", "unacked", "done"}]]
      /\ st'[s][i] = "unacked"
      /\ \A r \in Sides, j \in Qps : r # s \/ j # i => st'[r][j] = st[r][j]
  BY <1>1, <1>2, EntryMoves
<1>4. AdapterTypes
  BY <1>1, <1>2, <1>3 DEF AdapterTypes, Types
<1>5. Carries
  <2>1. \A r \in Sides : Queued(r, i) /\ net[r] \in Nat
    BY <1>1 DEF Data, Types
  <2>2. \A r \in Sides : net'[r] = 0
    BY <1>2, <2>1 DEF Queued
  <2> QED  BY <1>2, <1>3, <2>2 DEF Carries
<1>6. Types'
  BY <1>1, <1>4, <1>5, CarriesTypes
<1>7. Data'
  BY <1>1, <1>2, <1>5, <1>6, SilentKeepsData
<1> QED  BY <1>4, <1>5, <1>7, CarriesKeepsInv DEF AdapterTypes

\* An unreliable send puts its datagram on the wire.
LEMMA TransmitKeepsInv ==
    ASSUME Inv, NEW s \in Sides, NEW i \in Qps, Transmit(s, i)
    PROVE  Inv'
<1>1. Types /\ Data /\ Peer(s) \in Sides /\ Peer(s) # s /\ Peer(Peer(s)) = s
  BY Peers DEF Inv
<1>2. PICK c : c = [id |-> "SEND", qp |-> i, ok |-> TRUE]
  OBVIOUS
<1>3. c \in Completions /\ c.id = "SEND" /\ c.qp = i /\ c.ok
  BY <1>2 DEF Completions
<1>4. /\ ~ Reliable /\ On(s) /\ st[s][i] = "posted" /\ st' = [st EXCEPT ![s][i] = "done"]
      /\ net' = [net EXCEPT ![s] = @ + 1] /\ Complete(s, c) /\ UNCHANGED rx
  BY <1>2 DEF Transmit
<1>5. /\ cq' = [cq EXCEPT ![s] = Append(@, c)] /\ cq' \in [Sides -> Seq(Completions)]
      /\ UNCHANGED <<prog, use_event, pc, setupVars, routs, scnt, rcnt, pending, wc, history>>
  BY <1>1, <1>3, <1>4, QueueGrows
<1>6. /\ st' \in [Sides -> [Qps -> {"idle", "posted", "delivered", "unacked", "done"}]]
      /\ st'[s][i] = "done"
      /\ \A r \in Sides, j \in Qps : r # s \/ j # i => st'[r][j] = st[r][j]
  BY <1>1, <1>4, EntryMoves
<1>7. Queued(s, i) /\ Message(s, i) /\ net[s] = 0 /\ "SEND" \in pending[s][i]
  BY <1>1, <1>4 DEF Data, Queued
<1>8. net'[s] = 1 /\ \A r \in Sides \ {s} : net'[r] = net[r]
  BY <1>1, <1>4, <1>7 DEF Types
<1>9. AdapterTypes
  <2>1. net' \in [Sides -> Nat]
    <3>1. net \in [Sides -> Nat]
      BY <1>1, Zenon DEF Types
    <3>2. net[s] + 1 \in Nat
      BY <3>1
    <3> QED  BY <1>4, <3>1, <3>2
  <2> QED  BY <1>1, <1>4, <1>5, <1>6, <2>1 DEF AdapterTypes, Types
<1>10. Qps = {0} /\ i = 0
  BY <1>4, OneQueuePair
<1>11. \A d \in Completions : d.qp = i
  BY <1>10 DEF Completions
<1>12. ASSUME NEW r \in Sides, net'[r] > 0
       PROVE  /\ net'[r] = 1 /\ ~ Reliable
              /\ \A j \in Qps : Message(r, j) /\ st'[r][j] # "posted"
              /\ On(Peer(r)) => \A d \in Completions : In(d, Pile(Peer(r))) => d.id # "RECV"
  <2>0. Peer(r) \in Sides /\ Peer(Peer(r)) = r
    BY Peers
  <2>1. On(Peer(r)) => \A d \in Completions : In(d, Pile(Peer(r))) => Counted(Peer(r), d)
    BY <1>1, <2>0 DEF Data, Piled, In
  <2>2. CASE r = s
    <3>1. On(Peer(r)) => \A d \in Completions : In(d, Pile(Peer(r))) => d.id # "RECV"
      BY <1>4, <1>11, <2>0, <2>1, <2>2 DEF Counted
    <3> QED  BY <1>4, <1>6, <1>7, <1>8, <1>10, <2>2, <3>1
  <2>3. CASE r # s
    <3>1. net[r] > 0 /\ net'[r] = net[r] /\ Queued(r, i) /\ net[r] \in Nat
      BY <1>1, <1>8, <1>12, <2>3 DEF Data, Types
    <3>2. net[r] # 0
      BY <3>1
    <3>3. st[r][i] # "posted" /\ st'[r][i] = st[r][i]
      BY <1>6, <2>3, <3>1, <3>2 DEF Queued
    <3>4. On(Peer(r)) => \A d \in Completions : In(d, Pile(Peer(r))) => d.id # "RECV"
      BY <2>0, <2>1, <3>2 DEF Counted
    <3> QED  BY <1>10, <3>1, <3>3, <3>4 DEF Queued
  <2> QED  BY <2>2, <2>3
<1>13. Carries
  BY <1>4, <1>5, <1>6, <1>12 DEF Carries
<1>14. Types'
  BY <1>1, <1>9, <1>13, CarriesTypes
<1>15. \A d \in Completions : In(d, Pile(s)) => ~ (d.id = c.id /\ d.qp = c.qp)
  <2>1. Piled(s)
    BY <1>1, <1>4 DEF Data
  <2>2. \A d \in Completions : In(d, Pile(s)) => In(d, Unparsed(s)) \/ In(d, cq[s])
    BY <1>1, <2>1, InPile
  <2>3. \A d \in Completions : (In(d, Unparsed(s)) \/ In(d, cq[s])) /\ d.id = "SEND" =>
            st[s][d.qp] \in {"idle", "done"}
    BY <2>1 DEF Piled, Entries, In
  <2> QED  BY <1>3, <1>4, <2>2, <2>3
<1>16. Counted(s, c)'
  BY <1>3, <1>5, <1>7 DEF Counted
<1>17. Data'
  BY <1>1, <1>3, <1>4, <1>5, <1>6, <1>13, <1>14, <1>15, <1>16, CompletesKeepsData
<1> QED  BY <1>9, <1>13, <1>17, CarriesKeepsInv DEF AdapterTypes

\* A datagram leaves the wire.
LEMMA DatagramGone ==
    ASSUME Types, Data, NEW s \in Sides, net[s] > 0, net' = [net EXCEPT ![s] = @ - 1],
           UNCHANGED <<prog, use_event, pc, setupVars, routs, scnt, rcnt, pending, wc, history>>,
           UNCHANGED st
    PROVE  /\ Carries /\ net' \in [Sides -> Nat] /\ net'[s] = 0
           /\ Qps = {0} /\ Message(s, 0) /\ st[s][0] # "posted"
<1>1. net[s] \in Nat /\ Qps # {}
  <2>1. 0 \in Qps
    BY VerbsAssumption DEF Qps
  <2> QED  BY <2>1 DEF Types
<1>2. ~ Reliable
  BY <1>1 DEF Data, Queued
<1>3. Qps = {0}
  BY <1>2, OneQueuePair
<1>4. \A r \in Sides : Queued(r, 0) /\ net[r] \in Nat
  BY <1>3 DEF Data, Types
<1>5. net[s] = 1 /\ Message(s, 0) /\ st[s][0] # "posted"
  BY <1>4 DEF Queued
<1>6. net'[s] = 0 /\ \A r \in Sides \ {s} : net'[r] = net[r]
  BY <1>5 DEF Types
<1>7. net' \in [Sides -> Nat]
  BY <1>5 DEF Types
<1>8. ASSUME NEW r \in Sides, net'[r] > 0
      PROVE  /\ net'[r] = 1 /\ ~ Reliable
             /\ \A j \in Qps : Message(r, j) /\ st'[r][j] # "posted"
             /\ On(Peer(r)) => \A d \in Completions : In(d, Pile(Peer(r))) => d.id # "RECV"
  <2>1. Peer(r) \in Sides /\ Peer(Peer(r)) = r
    BY Peers
  <2>2. On(Peer(r)) => \A d \in Completions : In(d, Pile(Peer(r))) => Counted(Peer(r), d)
    BY <2>1 DEF Data, Piled, In
  <2>3. net[r] > 0 /\ net'[r] = net[r] /\ Queued(r, 0) /\ net[r] # 0
    BY <1>4, <1>6, <1>8
  <2>4. On(Peer(r)) => \A d \in Completions : In(d, Pile(Peer(r))) => d.id # "RECV"
    BY <2>1, <2>2, <2>3 DEF Counted
  <2>5. st'[r][0] # "posted"
    BY <2>3 DEF Queued
  <2> QED  BY <1>3, <2>3, <2>4, <2>5 DEF Queued
<1>9. Carries
  BY <1>8 DEF Carries
<1> QED  BY <1>3, <1>5, <1>6, <1>7, <1>9

\* A datagram is lost.
LEMMA LoseDatagramKeepsInv ==
    ASSUME Inv, NEW s \in Sides, LoseDatagram(s)
    PROVE  Inv'
<1>1. Types /\ Data
  BY DEF Inv
<1>2. /\ net[s] > 0 /\ net' = [net EXCEPT ![s] = @ - 1]
      /\ UNCHANGED <<prog, use_event, pc, setupVars, routs, scnt, rcnt, pending, wc, history>>
      /\ UNCHANGED <<st, rx, cq>>
  BY DEF LoseDatagram, countVars
<1>3. Carries /\ net' \in [Sides -> Nat]
  BY <1>1, <1>2, DatagramGone
<1>4. AdapterTypes
  BY <1>1, <1>2, <1>3 DEF AdapterTypes, Types
<1>5. Types'
  BY <1>1, <1>3, <1>4, CarriesTypes
<1>6. Data'
  BY <1>1, <1>2, <1>3, <1>5, SilentKeepsData
<1> QED  BY <1>3, <1>4, <1>6, CarriesKeepsInv DEF AdapterTypes

\* A datagram arrives, or is dropped.
LEMMA ArriveKeepsInv ==
    ASSUME Inv, NEW s \in Sides, Arrive(s)
    PROVE  Inv'
<1>1. Types /\ Data /\ Peer(s) \in Sides /\ Peer(s) # s /\ Peer(Peer(s)) = s
  BY Peers DEF Inv
<1>2. net[s] > 0 /\ net' = [net EXCEPT ![s] = @ - 1] /\ UNCHANGED st
  BY DEF Arrive
<1>3. CASE ~ Receives(Peer(s))
  <2>1. /\ UNCHANGED <<prog, use_event, pc, setupVars, routs, scnt, rcnt, pending, wc, history>>
        /\ UNCHANGED <<rx, cq>>
    BY <1>3 DEF Arrive, countVars
  <2>2. Carries /\ net' \in [Sides -> Nat]
    BY <1>1, <1>2, <2>1, DatagramGone
  <2>3. AdapterTypes
    BY <1>1, <1>2, <2>1, <2>2 DEF AdapterTypes, Types
  <2>4. Types'
    BY <1>1, <2>2, <2>3, CarriesTypes
  <2>5. Data'
    BY <1>1, <2>1, <2>2, <2>4, SilentKeepsData
  <2> QED  BY <2>2, <2>3, <2>5, CarriesKeepsInv DEF AdapterTypes
<1>4. CASE Receives(Peer(s))
  <2>1. PICK q, c : q = Peer(s) /\ c = [id |-> "RECV", qp |-> 0, ok |-> TRUE]
    OBVIOUS
  <2>2. /\ On(q) /\ rx[q] > 0 /\ rx' = [rx EXCEPT ![q] = @ - 1] /\ Complete(q, c)
    BY <1>4, <2>1 DEF Arrive, Receives
  <2>3. 0 \in Qps
    BY VerbsAssumption DEF Qps
  <2>4. c \in Completions /\ c.id = "RECV" /\ c.qp = 0 /\ c.ok = TRUE
    BY <2>1, <2>3 DEF Completions
  <2>5. /\ cq' = [cq EXCEPT ![q] = Append(@, c)] /\ cq' \in [Sides -> Seq(Completions)]
        /\ UNCHANGED <<prog, use_event, pc, setupVars, routs, scnt, rcnt, pending, wc, history>>
    BY <1>1, <2>1, <2>2, <2>4, QueueGrows
  <2>6. /\ Carries /\ net' \in [Sides -> Nat] /\ net'[s] = 0
        /\ Qps = {0} /\ Message(s, 0) /\ st[s][0] # "posted"
    BY <1>1, <1>2, <2>5, DatagramGone
  <2>7. AdapterTypes
    <3>1. rx \in [Sides -> Nat] /\ q \in Sides
      BY <1>1, <2>1 DEF Types
    <3>2. rx[q] - 1 \in Nat
      BY <2>2, <3>1
    <3>3. rx' \in [Sides -> Nat]
      BY <2>2, <3>1, <3>2
    <3> QED  BY <1>1, <1>2, <2>5, <2>6, <3>3 DEF AdapterTypes, Types
  <2>8. Types'
    BY <1>1, <2>6, <2>7, CarriesTypes
  <2>9. \A d \in Completions : In(d, Pile(q)) => ~ (d.id = c.id /\ d.qp = c.qp)
    <3>1. \A d \in Completions : In(d, Pile(q)) => Counted(q, d)
      BY <1>1, <2>1, <2>2 DEF Data, Piled, In
    <3>2. net[s] # 0
      BY <1>1, <1>2 DEF Types
    <3> QED  BY <1>1, <2>1, <2>4, <3>1, <3>2 DEF Counted
  <2>10. Counted(q, c)'
    <3>1. Message(s, 0)'
      BY <2>5, <2>6 DEF Message, history
    <3> QED  BY <1>1, <1>2, <2>1, <2>4, <2>6, <3>1 DEF Counted
  <2>11. Data'
    <3>1. /\ rx' = IF c.id = "RECV" THEN [rx EXCEPT ![q] = @ - 1] ELSE rx
          /\ q \in Sides /\ (c.id = "SEND" => st'[q][c.qp] = "done")
      BY <1>1, <2>1, <2>2, <2>4
    <3> QED  BY <1>1, <2>2, <2>4, <2>5, <2>6, <2>8, <2>9, <2>10, <3>1, CompletesKeepsData
  <2> QED  BY <2>6, <2>7, <2>11, CarriesKeepsInv DEF AdapterTypes
<1> QED  BY <1>3, <1>4

----------------------------------------------------------------------------
\* The steps of the loop.

\* What a step of s leaves as it is at its peer.
LEMMA PeerPiled ==
    ASSUME Types, Data, NEW s \in Sides, NEW q, q = Peer(s), On(s), On(q), prog' = prog,
           pc'[q] = pc[q], wc'[q] = wc[q], cq'[q] = cq[q], routs'[q] = routs[q], rx'[q] = rx[q],
           pending'[q] = pending[q], st'[q] = st[q], net' = net,
           \A c \in Completions : In(c, Pile(q)) /\ c.id = "RECV" =>
              Message(s, c.qp)' /\ st'[s][c.qp] # "posted"
    PROVE  Piled(q)'
<1>1. Piled(q) /\ q \in Sides /\ Peer(q) = s
  BY Peers DEF Data
<1>2. Reliable' <=> Reliable
  BY DEF Reliable
<1>3. \A c \in Completions : In(c, Pile(q)) => Counted(q, c)
  BY <1>1 DEF Piled, In
<1>4. \A c \in Completions : In(c, Pile(q)) => Counted(q, c)'
  BY <1>1, <1>2, <1>3 DEF Counted
<1>5. \A c \in Completions : In(c, Unparsed(q)) /\ c.id = "SEND" => st'[q][c.qp] = "idle"
  BY <1>1 DEF Piled, Entries, In
<1>6. \A c \in Completions : In(c, cq[q]) /\ c.id = "SEND" => st'[q][c.qp] = "done"
  BY <1>1 DEF Piled, Entries, In
<1>7. Keeps(q)
  BY <1>4, <1>5, <1>6 DEF Keeps
<1> QED  BY <1>1, <1>7, StillPiled

\* The first n completions go from the queue into main's array.
LEMMA TakeKeepsInv ==
    ASSUME Inv, NEW s \in Sides, pc[s] \in {"poll", "next_poll"},
           NEW n \in 1 .. Len(cq[s]), Take(s, n), NEW x \in {"parse", "parse_next"}, Goto(s, x)
    PROVE  Inv'
<1>1. Types /\ Exchange /\ Data /\ Piled(s) /\ On(s)
  BY DEF Inv, Data, On
<1>2. x \in Loop /\ pc[s] \in Loop /\ x \notin {"answer", "answer_next", "read_done", "write_done"}
      /\ x \in Parsing
  BY DEF Loop, Parsing
<1>3. /\ pc' \in [Sides -> Opening \cup Loop \cup {"failed"}]
      /\ pc'[s] = x /\ \A r \in Sides \ {s} : pc'[r] = pc[r]
  BY <1>1, <1>2, Goes
<1>4. PICK b, u, v, free : /\ b = cq[s] /\ u = SubSeq(b, 1, n) /\ v = SubSeq(b, n + 1, Len(b))
                           /\ free = {u[k].qp : k \in {j \in 1 .. n : u[j].id = "SEND"}}
  OBVIOUS
<1>5. /\ b \in Seq(Completions) /\ u \in Seq(Completions) /\ Len(u) = n
      /\ v \in Seq(Completions) /\ Len(v) = Len(b) - n
      /\ \A k \in 1 .. n : u[k] = b[k]
      /\ \A k \in 1 .. Len(b) - n : v[k] = b[n + k]
      /\ u \o v = <<>> \o b /\ <<>> \o b = b
      /\ Len(b) \in Nat /\ n \in Nat /\ n >= 1 /\ n <= Len(b)
      /\ DOMAIN u = 1 .. n /\ DOMAIN v = 1 .. Len(b) - n /\ DOMAIN b = 1 .. Len(b)
  <2>1. b \in Seq(Completions)
    BY <1>1, <1>4 DEF Types
  <2>2. /\ u \in Seq(Completions) /\ Len(u) = n
        /\ v \in Seq(Completions) /\ Len(v) = Len(b) - n
        /\ \A k \in 1 .. n : u[k] = b[k]
        /\ \A k \in 1 .. Len(b) - n : v[k] = b[n + k]
        /\ u \o v = <<>> \o b
    <3>1. n \in 1 .. Len(b)
      BY <1>4
    <3>2. /\ SubSeq(b, 1, n) \in Seq(Completions) /\ Len(SubSeq(b, 1, n)) = n
          /\ \A k \in 1 .. n : SubSeq(b, 1, n)[k] = b[k]
          /\ SubSeq(b, n + 1, Len(b)) \in Seq(Completions)
          /\ Len(SubSeq(b, n + 1, Len(b))) = Len(b) - n
          /\ \A k \in 1 .. Len(b) - n : SubSeq(b, n + 1, Len(b))[k] = b[n + k]
          /\ SubSeq(b, 1, n) \o SubSeq(b, n + 1, Len(b)) = <<>> \o b
      BY <2>1, <3>1, PileTake, Zenon
    <3> QED  BY <1>4, <3>2, Zenon
  <2>3. <<>> \o b = b
    BY <2>1, ConcatEmptySeq
  <2>4. Len(b) \in Nat /\ DOMAIN u = 1 .. Len(u) /\ DOMAIN v = 1 .. Len(v) /\ DOMAIN b = 1 .. Len(b)
    BY <2>1, <2>2, LenProperties
  <2>5. n \in Nat /\ n >= 1 /\ n <= Len(b)
    BY <1>4, <2>4
  <2> QED  BY <2>1, <2>2, <2>3, <2>4, <2>5
<1>6. /\ wc' = [wc EXCEPT ![s] = u] /\ cq' = [cq EXCEPT ![s] = v]
      /\ st' = [st EXCEPT ![s] = [i \in Qps |-> IF i \in free THEN "idle" ELSE st[s][i]]]
      /\ UNCHANGED <<prog, use_event, setupVars, countVars, rx, net, history>>
  BY <1>1, <1>4 DEF Take, Types
<1>7. /\ wc' \in [Sides -> Seq(Completions)] /\ wc'[s] = u
      /\ cq' \in [Sides -> Seq(Completions)] /\ cq'[s] = v
      /\ \A r \in Sides \ {s} : wc'[r] = wc[r] /\ cq'[r] = cq[r] /\ st'[r] = st[r]
      /\ \A i \in Qps : st'[s][i] = IF i \in free THEN "idle" ELSE st[s][i]
      /\ st' \in [Sides -> [Qps -> {"idle", "posted", "delivered", "unacked", "done"}]]
  BY <1>1, <1>5, <1>6 DEF Types
<1>8. Types'
  BY <1>1, <1>2, <1>3, <1>6, <1>7
     DEF Types, setupVars, countVars, history, Completions, Qps, Sides
<1>9. Exchange'
  BY <1>1, <1>2, <1>3, <1>6, LoopKeepsExchange DEF setupVars
<1>10. Qps' = Qps /\ (Reliable' <=> Reliable) /\ Completions' = Completions
  BY <1>6 DEF Qps, Reliable, Completions
<1>11. \A i \in Qps : Chain(i)'
  BY <1>1, <1>6 DEF Data, Chain, setupVars, history
<1>12. ASSUME NEW r \in Sides, NEW i \in Qps
       PROVE  Queued(r, i)'
  <2>1. Queued(r, i)
    BY <1>1 DEF Data
  <2>2. st'[r][i] = "idle" \/ st'[r][i] = st[r][i]
    BY <1>7
  <2>3. /\ (Message(r, i)' <=> Message(r, i)) /\ (Turn(r, i)' <=> Turn(r, i))
        /\ sent' = sent /\ got' = got /\ pending' = pending /\ net' = net
    BY <1>6 DEF Message, Turn, history, countVars
  <2>4. /\ pc'[r] \in Opening => pc[r] \in Opening
        /\ pc'[r] \in Loop => pc[r] \in Loop
        /\ On(r)' => On(r)
    BY <1>1, <1>2, <1>3 DEF Opening, Parsing, On
  <2> QED  BY <1>10, <2>1, <2>2, <2>3, <2>4 DEF Queued
<1>13. Unparsed(s) = <<>> /\ Pile(s) = b
  <2>1. wc[s] = <<>>
    BY <1>1 DEF Piled, Parsing
  <2> QED  BY <1>4, <1>5, <2>1 DEF Unparsed, Pile
<1>14. Unparsed(s)' = u /\ Pile(s)' = b
  <2>1. Unparsed(s)' = u
    BY <1>2, <1>3, <1>7 DEF Unparsed
  <2> QED  BY <1>5, <1>7, <2>1 DEF Pile
<1>15. Piled(s)'
  <2>1. (wc[s] # <<>> <=> pc[s] \in Parsing)'
    <3>1. u # <<>>
      BY <1>5, EmptySeq
    <3> QED  BY <1>2, <1>3, <1>7, <3>1
  <2>2. \A c : Counted(s, c) => Counted(s, c)'
    <3>1. Peer(s) \in Sides \ {s}
      BY Peers
    <3>2. st'[Peer(s)] = st[Peer(s)] /\ pc'[Peer(s)] = pc[Peer(s)]
      BY <1>3, <1>7, <3>1
    <3> QED  BY <1>6, <1>10, <3>2 DEF Counted, Message, On, countVars, history
  <2>3. \A k \in DOMAIN Pile(s)' : Counted(s, Pile(s)[k])'
    <3>1. \A k \in DOMAIN b : Counted(s, b[k])
      BY <1>1, <1>13 DEF Piled
    <3> QED  BY <1>14, <2>2, <3>1
  <2>4. Entries(s, Unparsed(s), "idle")'
    <3> SUFFICES ASSUME NEW k \in 1 .. n, u[k].id = "SEND"
                 PROVE  st'[s][u[k].qp] = "idle"
      BY <1>5, <1>14 DEF Entries
    <3>1. u[k].qp \in free /\ u[k].qp \in Qps
      <4>1. u[k] \in Completions
        BY <1>5, ElementOfSeq
      <4> QED  BY <1>4, <4>1 DEF Completions
    <3> QED  BY <1>7, <3>1
  <2>5. Entries(s, cq[s], "done")'
    <3> SUFFICES ASSUME NEW k \in 1 .. Len(b) - n, v[k].id = "SEND"
                 PROVE  st'[s][v[k].qp] = "done"
      BY <1>5, <1>7 DEF Entries
    <3>1. n + k \in DOMAIN b /\ v[k] = b[n + k] /\ n + k > n
      BY <1>5
    <3>2. v[k].qp \in Qps
      <4>1. b[n + k] \in Completions
        BY <1>5, <3>1, ElementOfSeq
      <4> QED  BY <3>1, <4>1 DEF Completions
    <3>3. v[k].qp \notin free
      <4> SUFFICES ASSUME NEW j \in 1 .. n, u[j].id = "SEND", u[j].qp = v[k].qp
                   PROVE  FALSE
        BY <1>4
      <4>1. j \in DOMAIN b /\ u[j] = b[j] /\ j # n + k
        BY <1>5, <3>1
      <4> QED  BY <1>1, <1>13, <3>1, <4>1 DEF Piled, Distinct
    <3>4. st[s][v[k].qp] = "done"
      BY <1>1, <1>4, <3>1 DEF Piled, Entries
    <3> QED  BY <1>7, <3>2, <3>3, <3>4
  <2>6. Distinct(Pile(s))' /\ Recvs(Pile(s))' = Recvs(Pile(s))
    BY <1>1, <1>13, <1>14 DEF Piled
  <2> QED  BY <1>1, <1>6, <1>10, <2>1, <2>3, <2>4, <2>5, <2>6 DEF Piled, countVars
<1>16. ASSUME NEW r \in Sides, On(r)'
       PROVE  Piled(r)'
  <2>1. CASE r = s
    BY <1>15, <2>1
  <2>2. CASE r # s
    <3>1. r = Peer(s) /\ On(r) /\ Piled(r)
      BY <1>1, <1>3, <1>16, <2>2, Peers DEF On, Data
    <3>2. \A c \in Completions : In(c, Pile(r)) /\ c.id = "RECV" =>
              Message(s, c.qp)' /\ st'[s][c.qp] # "posted"
      <4>1. \A c \in Completions : In(c, Pile(r)) => Counted(r, c)
        BY <3>1 DEF Piled, In
      <4>2. \A c \in Completions : c.qp \in Qps
        BY DEF Completions
      <4>3. Peer(r) = s
        BY <3>1, Peers
      <4>4. \A i \in Qps : Message(s, i) => Message(s, i)'
        BY <1>6 DEF Message, history
      <4>5. \A i \in Qps : st[s][i] # "posted" => st'[s][i] # "posted"
        BY <1>7
      <4> QED  BY <4>1, <4>2, <4>3, <4>4, <4>5 DEF Counted
    <3>3. /\ pc'[r] = pc[r] /\ wc'[r] = wc[r] /\ cq'[r] = cq[r] /\ routs'[r] = routs[r]
          /\ rx'[r] = rx[r] /\ pending'[r] = pending[r] /\ st'[r] = st[r] /\ net' = net
          /\ prog' = prog
      BY <1>3, <1>6, <1>7, <2>2 DEF countVars
    <3> QED  BY <1>1, <3>1, <3>2, <3>3, PeerPiled
  <2> QED  BY <2>1, <2>2
<1>17. \A r \in Sides : (Len(cq[r]) <= RxDepth + Cardinality(Qps))'
  <2>1. Len(b) <= RxDepth + Cardinality(Qps)
    BY <1>1, <1>4 DEF Data
  <2>2. RxDepth + Cardinality(Qps) \in Nat
    BY QueuePairs, VerbsAssumption
  <2>3. Len(v) <= RxDepth + Cardinality(Qps)
    BY <1>5, <2>1, <2>2
  <2> QED  BY <1>1, <1>7, <1>10, <2>3 DEF Data
<1>18. Data'
  BY <1>10, <1>11, <1>12, <1>16, <1>17 DEF Data
<1> QED  BY <1>8, <1>9, <1>18 DEF Inv

\* What --routs and pp_post_recv leave of the credits after a receive.
LEMMA RefillKeepsCredits ==
    ASSUME Types, NEW s \in Sides, NEW k \in Nat, routs[s] = rx[s] + k + 1,
           Cardinality(Qps) <= routs[s], routs[s] <= RxDepth,
           NEW n, n = PostRecvs(s, Refill(Left(s)))
    PROVE  /\ n = Refill(Left(s)) /\ n \in Nat /\ Left(s) + n \in Int /\ rx[s] + n \in Nat
           /\ Left(s) + n = rx[s] + n + k
           /\ Cardinality(Qps) <= Left(s) + n /\ Left(s) + n <= RxDepth
<1> DEFINE m == Cardinality(Qps)
           l == Left(s)
<1>1. m \in Nat /\ m <= RxDepth /\ RxDepth \in Nat
  BY QueuePairs, VerbsAssumption
<1>2. routs[s] \in Int /\ rx[s] \in Nat
  BY DEF Types
<1>3. l = routs[s] - 1 /\ l \in Int /\ l = rx[s] + k
  BY <1>2 DEF Left
<1>4. Refill(l) = IF l <= m THEN RxDepth - l ELSE 0
  BY DEF Refill
<1>5. n = IF Refill(l) <= RxDepth - rx[s] THEN Refill(l) ELSE RxDepth - rx[s]
  BY DEF PostRecvs
<1>6. m <= routs[s] /\ routs[s] <= RxDepth
  OBVIOUS
<1> HIDE DEF m, l
<1>7. CASE l <= m
  <2>1. Refill(l) = RxDepth - l /\ n = RxDepth - l
    BY <1>1, <1>2, <1>3, <1>4, <1>5, <1>7
  <2> QED  BY <1>1, <1>2, <1>3, <1>6, <1>7, <2>1 DEF l, m
<1>8. CASE ~ (l <= m)
  <2>1. Refill(l) = 0 /\ n = 0
    BY <1>1, <1>2, <1>3, <1>4, <1>5, <1>6, <1>8
  <2> QED  BY <1>1, <1>2, <1>3, <1>6, <1>8, <2>1 DEF l, m
<1> QED  BY <1>7, <1>8

\* The completion that a parsing program looks at is the first of its pile.
LEMMA FirstOfPile ==
    ASSUME Types, NEW s \in Sides, Piled(s), pc[s] \in {"parse", "parse_next"},
           NEW c, c = Head(wc[s])
    PROVE  /\ c \in Completions /\ c.qp \in Qps /\ c.id \in {"SEND", "RECV"}
           /\ Counted(s, c) /\ (c.id = "SEND" => st[s][c.qp] = "idle")
           /\ wc[s] # <<>> /\ wc[s] \in Seq(Completions)
           /\ Unparsed(s) = wc[s] /\ Pile(s) \in Seq(Completions) /\ Pile(s) # <<>>
           /\ Head(Pile(s)) = c /\ Tail(Pile(s)) = Tail(wc[s]) \o cq[s]
           /\ Recvs(Pile(s)) = Recvs(Tail(Pile(s))) + (IF c.id = "RECV" THEN 1 ELSE 0)
           /\ Recvs(Tail(Pile(s))) \in Nat /\ Distinct(Tail(Pile(s)))
           /\ \A k \in DOMAIN Tail(Pile(s)) :
                 /\ k + 1 \in DOMAIN Pile(s) /\ Tail(Pile(s))[k] = Pile(s)[k + 1]
                 /\ ~ (Tail(Pile(s))[k].id = c.id /\ Tail(Pile(s))[k].qp = c.qp)
<1> DEFINE w == wc[s]
           b == cq[s]
           p == Pile(s)
<1>1. w # <<>> /\ w \in Seq(Completions) /\ b \in Seq(Completions)
  BY DEF Piled, Parsing, Types
<1>2. Unparsed(s) = w /\ p = w \o b
  BY DEF Unparsed, Pile
<1> HIDE DEF p
<1>3. p \in Seq(Completions) /\ p # <<>> /\ Head(p) = Head(w) /\ Tail(p) = Tail(w) \o b
  BY <1>1, <1>2, PileTail, ZenonT(40)
<1>4. Distinct(p)
  BY DEF p, Piled
<1>5. /\ Distinct(Tail(p)) /\ 1 \in DOMAIN p /\ p[1] = Head(p)
      /\ \A k \in DOMAIN Tail(p) :
            /\ k + 1 \in DOMAIN p /\ Tail(p)[k] = p[k + 1]
            /\ ~ (Tail(p)[k].id = Head(p).id /\ Tail(p)[k].qp = Head(p).qp)
      /\ Recvs(p) = Recvs(Tail(p)) + (IF Head(p).id = "RECV" THEN 1 ELSE 0)
      /\ Recvs(Tail(p)) \in Nat
  BY <1>3, <1>4, DistinctTail
<1>6. c = Head(p) /\ c \in Completions
  BY <1>1, <1>3, HeadTailProperties
<1>7. c.qp \in Qps /\ c.id \in {"SEND", "RECV"}
  BY <1>6 DEF Completions
<1>8. Counted(s, c)
  BY <1>5, <1>6 DEF Piled, p
<1>9. c.id = "SEND" => st[s][c.qp] = "idle"
  <2>1. 1 \in DOMAIN w /\ w[1] = c
    BY <1>1, LenProperties, EmptySeq
  <2> QED  BY <1>2, <2>1 DEF Piled, Entries
<1> QED  BY <1>1, <1>2, <1>3, <1>5, <1>6, <1>7, <1>8, <1>9 DEF p

\* parse_single_wc counts a completion: the first of the pile leaves it.
LEMMA ParseKeepsInv ==
    ASSUME Inv, NEW s \in Sides, Parse(s)
    PROVE  Inv'
<1>1. Types /\ Exchange /\ Data /\ On(s) /\ Piled(s) /\ pc[s] \in {"parse", "parse_next"}
  BY DEF Inv, Data, On, Parse
<1>2. PICK c, i, q, n : /\ c = Head(wc[s]) /\ i = c.qp /\ q = Peer(s)
                        /\ n = PostRecvs(s, Refill(Left(s)))
  OBVIOUS
<1>3. q \in Sides /\ q # s /\ Peer(q) = s /\ \A r \in Sides : r = s \/ r = q
  BY <1>2, Peers
<1>4. /\ c \in Completions /\ c.qp \in Qps /\ c.id \in {"SEND", "RECV"}
      /\ Counted(s, c) /\ (c.id = "SEND" => st[s][c.qp] = "idle")
      /\ wc[s] # <<>> /\ wc[s] \in Seq(Completions)
      /\ Unparsed(s) = wc[s] /\ Pile(s) \in Seq(Completions) /\ Pile(s) # <<>>
      /\ Tail(Pile(s)) = Tail(wc[s]) \o cq[s]
      /\ Recvs(Pile(s)) = Recvs(Tail(Pile(s))) + (IF c.id = "RECV" THEN 1 ELSE 0)
      /\ Recvs(Tail(Pile(s))) \in Nat /\ Distinct(Tail(Pile(s)))
      /\ \A k \in DOMAIN Tail(Pile(s)) :
            /\ k + 1 \in DOMAIN Pile(s) /\ Tail(Pile(s))[k] = Pile(s)[k + 1]
            /\ ~ (Tail(Pile(s))[k].id = c.id /\ Tail(Pile(s))[k].qp = c.qp)
  BY <1>1, <1>2, FirstOfPile, ZenonT(40)
<1>5. PICK t : t = Tail(Pile(s))
  OBVIOUS
<1>6. /\ t = Tail(wc[s]) \o cq[s]
      /\ Recvs(Pile(s)) = Recvs(t) + (IF c.id = "RECV" THEN 1 ELSE 0)
      /\ Recvs(t) \in Nat /\ Distinct(t)
      /\ \A k \in DOMAIN t : /\ k + 1 \in DOMAIN Pile(s) /\ t[k] = Pile(s)[k + 1]
                             /\ ~ (t[k].id = c.id /\ t[k].qp = c.qp)
  BY <1>4, <1>5
<1>7. CASE ~ c.ok \/ (c.id = "RECV" /\ n < Refill(Left(s)))
  <2>1. Fail(s)
    BY <1>2, <1>7 DEF Parse
  <2> QED  BY <2>1, FailKeepsInv
<1>8. CASE ~ (~ c.ok \/ (c.id = "RECV" /\ n < Refill(Left(s))))
  <2>1. PICK x \in {"answer", "answer_next"} : Goto(s, x)
    BY <1>2, <1>8 DEF Parse
  <2>2. /\ pending' = [pending EXCEPT ![s][i] = @ \ {c.id}]
        /\ UNCHANGED <<prog, use_event, setupVars, wc, st, cq, net, sent>>
    BY <1>2, <1>8 DEF Parse
  <2>3. x \in Loop /\ x \in Parsing /\ pc[s] \in Loop /\ x \notin {"read_done", "write_done"}
    BY <1>1 DEF Loop, Parsing
  <2>4. /\ pc' \in [Sides -> Opening \cup Loop \cup {"failed"}]
        /\ pc'[s] = x /\ \A r \in Sides \ {s} : pc'[r] = pc[r]
    BY <1>1, <2>1, <2>3, Goes
  <2>5. /\ pending' \in [Sides -> [Qps -> SUBSET {"RECV", "SEND"}]]
        /\ pending'[s][i] = pending[s][i] \ {c.id}
        /\ \A j \in Qps \ {i} : pending'[s][j] = pending[s][j]
        /\ pending'[q] = pending[q]
    <3>1. pending \in [Sides -> [Qps -> SUBSET {"RECV", "SEND"}]] /\ i \in Qps
      BY <1>1, <1>2, <1>4 DEF Types
    <3> QED  BY <1>3, <2>2, <3>1
  <2>6. \/ /\ c.id = "RECV"
           /\ routs' = [routs EXCEPT ![s] = Left(s) + n]
           /\ rx' = [rx EXCEPT ![s] = @ + n]
           /\ rcnt' = [rcnt EXCEPT ![s] = @ + 1]
           /\ got' = [got EXCEPT ![s][i] = @ + 1]
           /\ UNCHANGED scnt
        \/ /\ c.id = "SEND"
           /\ scnt' = [scnt EXCEPT ![s] = @ + 1]
           /\ UNCHANGED <<routs, rx, rcnt, got>>
    BY <1>2, <1>4, <1>8 DEF Parse
  <2>7. /\ routs' \in [Sides -> Int] /\ rx' \in [Sides -> Nat]
        /\ rcnt' \in [Sides -> Nat] /\ scnt' \in [Sides -> Nat]
        /\ got' \in [Sides -> [Qps -> Nat]]
        /\ routs'[s] = rx'[s] + Recvs(t)
        /\ Cardinality(Qps) <= routs'[s] /\ routs'[s] <= RxDepth
        /\ routs'[q] = routs[q] /\ rx'[q] = rx[q]
    <3>1. /\ routs \in [Sides -> Int] /\ rx \in [Sides -> Nat]
          /\ rcnt \in [Sides -> Nat] /\ scnt \in [Sides -> Nat]
          /\ got \in [Sides -> [Qps -> Nat]]
      BY <1>1 DEF Types
    <3>2. /\ routs[s] = rx[s] + Recvs(Pile(s))
          /\ Cardinality(Qps) <= routs[s] /\ routs[s] <= RxDepth
      BY <1>1 DEF Piled
    <3>3. CASE c.id = "RECV"
      <4>1. routs[s] = rx[s] + Recvs(t) + 1 /\ Recvs(t) \in Nat
        BY <1>6, <3>1, <3>2, <3>3
      <4>2. /\ Left(s) + n \in Int /\ rx[s] + n \in Nat
            /\ Left(s) + n = rx[s] + n + Recvs(t)
            /\ Cardinality(Qps) <= Left(s) + n /\ Left(s) + n <= RxDepth
        BY <1>1, <1>2, <3>2, <4>1, RefillKeepsCredits
      <4>3. /\ routs' = [routs EXCEPT ![s] = Left(s) + n] /\ rx' = [rx EXCEPT ![s] = rx[s] + n]
            /\ rcnt' = [rcnt EXCEPT ![s] = @ + 1] /\ got' = [got EXCEPT ![s][i] = @ + 1]
            /\ UNCHANGED scnt
        BY <2>6, <3>3
      <4>4. /\ routs' \in [Sides -> Int] /\ rx' \in [Sides -> Nat]
            /\ rcnt' \in [Sides -> Nat] /\ got' \in [Sides -> [Qps -> Nat]]
        <5>1. routs' \in [Sides -> Int] /\ rx' \in [Sides -> Nat]
          BY <3>1, <4>2, <4>3
        <5>2. rcnt' \in [Sides -> Nat]
          BY <3>1, <4>3
        <5>3. i \in Qps /\ got[s][i] + 1 \in Nat
          BY <1>2, <1>4, <3>1
        <5>4. got' \in [Sides -> [Qps -> Nat]]
          BY <3>1, <4>3, <5>3
        <5> QED  BY <5>1, <5>2, <5>4
      <4>5. routs'[s] = Left(s) + n /\ rx'[s] = rx[s] + n /\ routs'[q] = routs[q] /\ rx'[q] = rx[q]
        BY <1>3, <3>1, <4>3
      <4> QED  BY <3>1, <4>2, <4>3, <4>4, <4>5
    <3>4. CASE c.id = "SEND"
      <4>1. UNCHANGED <<routs, rx, rcnt, got>> /\ scnt' = [scnt EXCEPT ![s] = @ + 1]
        BY <2>6, <3>4
      <4>2. scnt' \in [Sides -> Nat]
        BY <3>1, <4>1
      <4>3. Recvs(Pile(s)) = Recvs(t)
        BY <1>6, <3>4
      <4> QED  BY <3>1, <3>2, <4>1, <4>2, <4>3
    <3> QED  BY <1>4, <3>3, <3>4
  <2>8. /\ \A j \in Qps : got'[q][j] = got[q][j]
        /\ \A j \in Qps \ {i} : got'[s][j] = got[s][j]
        /\ got'[s][i] = got[s][i] + (IF c.id = "RECV" THEN 1 ELSE 0)
    <3>1. got \in [Sides -> [Qps -> Nat]] /\ i \in Qps
      BY <1>1, <1>2, <1>4 DEF Types
    <3>2. CASE c.id = "RECV"
      BY <1>3, <2>6, <3>1, <3>2
    <3>3. CASE c.id = "SEND"
      BY <1>3, <2>6, <3>1, <3>3
    <3> QED  BY <1>4, <3>2, <3>3
  <2>9. Types'
    BY <1>1, <2>2, <2>3, <2>4, <2>5, <2>7
       DEF Types, setupVars, Completions, Qps, Sides
  <2>10. Exchange'
    BY <1>1, <2>2, <2>3, <2>4, LoopKeepsExchange DEF setupVars
  <2>11. Qps' = Qps /\ (Reliable' <=> Reliable) /\ Completions' = Completions
    BY <2>2 DEF Qps, Reliable, Completions
  <2>12. /\ c.id = "RECV" => /\ sent[q][i] = got[s][i] + 1 /\ net[q] = 0
                             /\ st[q][i] # "posted"
         /\ c.id = "SEND" => "SEND" \in pending[s][i] /\ st[s][i] = "idle"
    BY <1>2, <1>3, <1>4 DEF Counted, Message
  <2>13. \A j \in Qps : /\ sent["client"][j] \in Nat /\ sent["server"][j] \in Nat
                        /\ got["client"][j] \in Nat /\ got["server"][j] \in Nat
    BY <1>1 DEF Types, Sides
  <2>14. ASSUME NEW j \in Qps
         PROVE  Chain(j)'
    <3>1. Chain(j) /\ UNCHANGED <<sent, connected>>
      BY <1>1, <2>2 DEF Data, setupVars
    <3>2. CASE j # i \/ c.id # "RECV"
      <4>1. got'["client"][j] = got["client"][j] /\ got'["server"][j] = got["server"][j]
        BY <1>3, <2>8, <2>13, <3>2 DEF Sides
      <4> QED  BY <3>1, <4>1 DEF Chain
    <3>3. CASE j = i /\ c.id = "RECV"
      <4>1. CASE s = "client"
        <5>1. q = "server"
          BY <1>2, <4>1 DEF Peer
        <5> QED  BY <2>8, <2>12, <2>13, <3>1, <3>3, <4>1, <5>1 DEF Chain
      <4>2. CASE s = "server"
        <5>1. q = "client"
          BY <1>2, <4>2 DEF Peer
        <5> QED  BY <2>8, <2>12, <2>13, <3>1, <3>3, <4>2, <5>1 DEF Chain
      <4> QED  BY <4>1, <4>2 DEF Sides
    <3> QED  BY <3>2, <3>3
  <2>15. c.id = "RECV" => Turn(s, i)'
    <3>1. Chain(i) /\ i \in Qps /\ sent' = sent
      BY <1>1, <1>2, <1>4, <2>2 DEF Data
    <3>2. CASE s = "client"
      <4>1. q = "server"
        BY <1>2, <3>2 DEF Peer
      <4> QED  BY <2>8, <2>12, <2>13, <3>1, <3>2, <4>1 DEF Chain, Turn
    <3>3. CASE s = "server"
      <4>1. q = "client"
        BY <1>2, <3>3 DEF Peer
      <4> QED  BY <2>8, <2>12, <2>13, <3>1, <3>3, <4>1 DEF Chain, Turn
    <3> QED  BY <3>2, <3>3 DEF Sides
  <2>16. ASSUME NEW j \in Qps
         PROVE  Queued(s, j)'
    <3>1. Queued(s, j) /\ pc'[s] \notin Opening /\ On(s) /\ UNCHANGED <<sent, st, net>>
      BY <1>1, <2>2, <2>3, <2>4 DEF Data, Opening, Parsing
    <3>2. Message(s, j)' <=> Message(s, j)
      BY <1>2, <2>8, <3>1 DEF Message
    <3>3. "RECV" \notin pending'[s][j] => Turn(s, j)'
      <4>1. CASE j = i /\ c.id = "RECV"
        BY <2>15, <4>1
      <4>2. CASE ~ (j = i /\ c.id = "RECV")
        <5>1. got'[s][j] = got[s][j]
          BY <2>8, <2>13, <4>2 DEF Sides
        <5>2. "RECV" \notin pending'[s][j] => "RECV" \notin pending[s][j]
          BY <1>4, <2>5, <4>2
        <5>3. "RECV" \notin pending[s][j] => Turn(s, j)
          BY <2>3, <3>1 DEF Queued
        <5> QED  BY <3>1, <5>1, <5>2, <5>3 DEF Turn
      <4> QED  BY <4>1, <4>2
    <3>4. "SEND" \notin pending'[s][j] => st'[s][j] = "idle"
      BY <1>4, <2>5, <2>12, <3>1 DEF Queued
    <3> QED  BY <2>11, <3>1, <3>2, <3>3, <3>4 DEF Queued
  <2>17. ASSUME NEW j \in Qps
         PROVE  Queued(q, j)'
    <3>1. /\ Queued(q, j) /\ pc'[q] = pc[q] /\ UNCHANGED <<sent, st, net>>
          /\ pending'[q] = pending[q] /\ got'[q][j] = got[q][j]
      BY <1>1, <1>3, <2>2, <2>4, <2>5, <2>8 DEF Data
    <3>2. (Turn(q, j)' <=> Turn(q, j)) /\ (On(q)' <=> On(q))
      BY <3>1 DEF Turn, On
    <3>3. j # i \/ c.id # "RECV" => (Message(q, j)' <=> Message(q, j))
      BY <1>2, <1>3, <2>8, <2>13, <3>1 DEF Message, Sides
    <3>4. j = i /\ c.id = "RECV" => st[q][j] # "posted" /\ net[q] = 0
      BY <2>12
    <3> QED  BY <2>11, <3>1, <3>2, <3>3, <3>4 DEF Queued
  <2>18. Unparsed(s)' = Tail(wc[s]) /\ Pile(s)' = t
    BY <1>6, <2>2, <2>4 DEF Unparsed, Pile
  <2>19. Piled(s)'
    <3>1. (wc[s] # <<>> <=> pc[s] \in Parsing)'
      BY <1>4, <2>2, <2>3, <2>4
    <3>2. ASSUME NEW k \in DOMAIN t
          PROVE  Counted(s, t[k])'
      <4>1. PICK d, j : d = t[k] /\ j = d.qp
        OBVIOUS
      <4>2. /\ Counted(s, d) /\ ~ (d.id = c.id /\ d.qp = c.qp)
            /\ j \in Qps /\ d.id \in {"SEND", "RECV"}
        <5>1. d \in Completions
          BY <1>4, <1>6, <4>1, ElementOfSeq, LenProperties
        <5> QED  BY <1>1, <1>6, <4>1, <5>1 DEF Piled, Completions
      <4>3. UNCHANGED <<st, net, sent>> /\ (On(q)' <=> On(q))
        BY <1>3, <2>2, <2>4 DEF On
      <4>4. d.id = "SEND" => "SEND" \in pending'[s][d.qp]
        <5>1. d.id = "SEND" => "SEND" \in pending[s][j]
          BY <4>1, <4>2 DEF Counted
        <5>2. d.id = "SEND" => c.id # "SEND" \/ j # i
          BY <1>2, <4>1, <4>2
        <5> QED  BY <1>4, <2>5, <4>1, <4>2, <5>1, <5>2
      <4>5. d.id = "RECV" => Message(q, d.qp)' /\ net'[q] = 0 /\ st'[q][d.qp] # "posted"
        <5>1. d.id = "RECV" => Message(q, j) /\ net[q] = 0 /\ st[q][j] # "posted"
          BY <1>2, <4>1, <4>2 DEF Counted
        <5>2. d.id = "RECV" => got'[s][j] = got[s][j]
          BY <1>2, <1>4, <2>8, <2>13, <4>1, <4>2 DEF Sides
        <5> QED  BY <1>3, <4>1, <4>3, <5>1, <5>2 DEF Message
      <4>6. d.ok \/ (Reliable /\ ~ On(q))
        BY <1>2, <4>2 DEF Counted
      <4>7. Counted(s, d)'
        BY <1>2, <2>11, <4>3, <4>4, <4>5, <4>6 DEF Counted
      <4> QED  BY <4>1, <4>7
    <3>3. \A k \in DOMAIN Pile(s)' : Counted(s, Pile(s)[k])'
      BY <2>18, <3>2
    <3>4. Entries(s, Unparsed(s), "idle")'
      <4>1. /\ Tail(wc[s]) \in Seq(Completions)
            /\ \A k \in 1 .. Len(Tail(wc[s])) : Tail(wc[s])[k] = wc[s][k + 1]
            /\ Len(Tail(wc[s])) = Len(wc[s]) - 1
        BY <1>4, HeadTailProperties
      <4>2. /\ DOMAIN Tail(wc[s]) = 1 .. Len(Tail(wc[s])) /\ DOMAIN wc[s] = 1 .. Len(wc[s])
            /\ Len(wc[s]) \in Nat
        BY <1>4, <4>1, LenProperties
      <4>3. \A k \in DOMAIN Tail(wc[s]) :
                k + 1 \in DOMAIN wc[s] /\ Tail(wc[s])[k] = wc[s][k + 1]
        BY <4>1, <4>2
      <4>4. Entries(s, wc[s], "idle")
        BY <1>1, <1>4 DEF Piled
      <4>5. Entries(s, Tail(wc[s]), "idle")
        BY <4>3, <4>4 DEF Entries
      <4> QED  BY <2>2, <2>18, <4>5 DEF Entries
    <3>5. Entries(s, cq[s], "done")'
      BY <1>1, <2>2 DEF Piled, Entries
    <3>6. Distinct(Pile(s))' /\ Recvs(Pile(s))' = Recvs(t)
      BY <1>6, <2>18
    <3> QED  BY <2>7, <2>11, <3>1, <3>3, <3>4, <3>5, <3>6 DEF Piled
  <2>20. On(q) => Piled(q)'
    <3> SUFFICES ASSUME On(q)
                 PROVE  Piled(q)'
      OBVIOUS
    <3>1. \A d \in Completions : In(d, Pile(q)) /\ d.id = "RECV" =>
              Message(s, d.qp)' /\ st'[s][d.qp] # "posted"
      <4>1. \A d \in Completions : In(d, Pile(q)) => Counted(q, d)
        BY <1>1, <1>3 DEF Data, Piled, In
      <4>2. \A d \in Completions : d.qp \in Qps
        BY DEF Completions
      <4>3. \A j \in Qps : Message(s, j) => Message(s, j)'
        BY <1>2, <2>2, <2>8 DEF Message
      <4> QED  BY <1>3, <2>2, <4>1, <4>2, <4>3 DEF Counted
    <3>2. /\ pc'[q] = pc[q] /\ wc'[q] = wc[q] /\ cq'[q] = cq[q] /\ routs'[q] = routs[q]
          /\ rx'[q] = rx[q] /\ pending'[q] = pending[q] /\ st'[q] = st[q] /\ net' = net
          /\ prog' = prog
      BY <1>3, <2>2, <2>4, <2>5, <2>7
    <3> QED  BY <1>1, <1>2, <3>1, <3>2, PeerPiled
  <2>21. On(q)' => On(q)
    BY <1>3, <2>4 DEF On
  <2>22. \A r \in Sides : (Len(cq[r]) <= RxDepth + Cardinality(Qps))'
    BY <1>1, <2>2, <2>11 DEF Data
  <2>23. Data'
    <3>1. \A r \in Sides : On(r)' => Piled(r)'
      BY <1>3, <2>19, <2>20, <2>21
    <3>2. \A r \in Sides, j \in Qps : Queued(r, j)'
      BY <1>3, <2>16, <2>17
    <3> QED  BY <2>11, <2>14, <2>22, <3>1, <3>2 DEF Data
  <2> QED  BY <2>9, <2>10, <2>23 DEF Inv
<1> QED  BY <1>7, <1>8

\* Side s posts a message on each queue pair of X, whose turn it is there, and
\* goes on in the loop without touching its completions.
Posts(s, X) ==
    /\ UNCHANGED <<prog, connected, routs, rx, cq, net, got>>
    /\ \A i \in X : /\ Turn(s, i) /\ pending[s][i] = {} /\ st[s][i] = "idle"
                    /\ st'[s][i] = "posted" /\ sent'[s][i] = sent[s][i] + 1
                    /\ pending'[s][i] = {"RECV", "SEND"}
    /\ X # {} /\ s = "client" => connected["client"] /\ connected["server"]
    /\ \A i \in Qps \ X :
          /\ st'[s][i] = st[s][i] /\ sent'[s][i] = sent[s][i]
          /\ "SEND" \in pending'[s][i] <=> "SEND" \in pending[s][i]
          /\ "RECV" \in pending'[s][i] \/ (pc[s] \in Loop /\ "RECV" \notin pending[s][i])
    /\ LET q == Peer(s) IN
          /\ st'[q] = st[q] /\ sent'[q] = sent[q] /\ pending'[q] = pending[q]
          /\ pc'[q] = pc[q] /\ wc'[q] = wc[q]
    /\ On(s) /\ pc'[s] \in Loop \ {"ended"}
    /\ Unparsed(s)' = Unparsed(s) /\ (wc[s] # <<>> <=> pc[s] \in Parsing)'

\* The message is the only one of its queue pair, and the answer to the last.
LEMMA PostsKeepsData ==
    ASSUME Types, Types', Data, NEW s \in Sides, NEW X \in SUBSET Qps, Posts(s, X)
    PROVE  Data'
<1>1. PICK q : q = Peer(s)
  OBVIOUS
<1>2. q \in Sides /\ q # s /\ Peer(q) = s /\ \A r \in Sides : r = s \/ r = q
  BY <1>1, Peers
<1>3. Qps' = Qps /\ (Reliable' <=> Reliable) /\ Completions' = Completions
  BY DEF Posts, Qps, Reliable, Completions
<1>4. /\ st'[q] = st[q] /\ sent'[q] = sent[q] /\ pending'[q] = pending[q]
      /\ pc'[q] = pc[q] /\ wc'[q] = wc[q] /\ (On(q)' <=> On(q))
  BY <1>1 DEF Posts, On
<1>5. \A j \in Qps : /\ sent["client"][j] \in Nat /\ sent["server"][j] \in Nat
                     /\ got["client"][j] \in Nat /\ got["server"][j] \in Nat
                     /\ sent'["client"][j] \in Nat /\ sent'["server"][j] \in Nat
  BY <1>3 DEF Types, Sides
<1>6. ASSUME NEW i \in X
      PROVE  sent[s][i] = got[q][i] /\ sent'[s][i] = got'[q][i] + 1
  <2>1. Chain(i) /\ Turn(s, i) /\ sent'[s][i] = sent[s][i] + 1 /\ got' = got /\ i \in Qps
    BY DEF Data, Posts
  <2>2. CASE s = "client"
    <3>1. q = "server"
      BY <1>1, <2>2 DEF Peer
    <3> QED  BY <1>5, <2>1, <2>2, <3>1 DEF Chain, Turn
  <2>3. CASE s = "server"
    <3>1. q = "client"
      BY <1>1, <2>3 DEF Peer
    <3> QED  BY <1>5, <2>1, <2>3, <3>1 DEF Chain, Turn
  <2> QED  BY <2>2, <2>3 DEF Sides
<1>7. ASSUME NEW i \in Qps
      PROVE  Chain(i)'
  <2>1. Chain(i) /\ UNCHANGED <<got, connected>>
    BY DEF Data, Posts
  <2>2. CASE i \notin X
    <3>1. sent'["client"][i] = sent["client"][i] /\ sent'["server"][i] = sent["server"][i]
      BY <1>2, <1>4, <2>2 DEF Posts, Sides
    <3> QED  BY <2>1, <3>1 DEF Chain
  <2>3. CASE i \in X
    <3>1. Turn(s, i) /\ sent'[s][i] = sent[s][i] + 1
      BY <2>3 DEF Posts
    <3>2. CASE s = "client"
      <4>1. q = "server" /\ connected["client"] /\ connected["server"]
        BY <1>1, <2>3, <3>2 DEF Peer, Posts
      <4> QED  BY <1>4, <1>5, <2>1, <3>1, <3>2, <4>1 DEF Chain, Turn
    <3>3. CASE s = "server"
      <4>1. q = "client"
        BY <1>1, <3>3 DEF Peer
      <4> QED  BY <1>4, <1>5, <2>1, <3>1, <3>3, <4>1 DEF Chain, Turn
    <3> QED  BY <3>2, <3>3 DEF Sides
  <2> QED  BY <2>2, <2>3
<1>8. ASSUME NEW i \in Qps
      PROVE  Queued(s, i)'
  <2>1. Queued(s, i) /\ UNCHANGED <<got, net>> /\ pc'[s] \notin Opening /\ On(s)
    BY DEF Data, Posts, Opening, Loop, Parsing
  <2>2. CASE i \in X
    <3>1. /\ pending'[s][i] = {"RECV", "SEND"} /\ Message(s, i)'
          /\ ~ Message(s, i)
      BY <1>1, <1>5, <1>6, <2>2 DEF Message, Posts, Sides
    <3>2. net'[s] = 0 /\ ~ (net'[s] > 0)
      BY <2>1, <3>1 DEF Queued, Types
    <3> QED  BY <2>1, <3>1, <3>2 DEF Queued
  <2>3. CASE i \notin X
    <3>1. /\ st'[s][i] = st[s][i] /\ sent'[s][i] = sent[s][i]
          /\ "SEND" \in pending'[s][i] <=> "SEND" \in pending[s][i]
          /\ "RECV" \in pending'[s][i] \/ (pc[s] \in Loop /\ "RECV" \notin pending[s][i])
      BY <2>3 DEF Posts
    <3>2. (Message(s, i)' <=> Message(s, i)) /\ (Turn(s, i)' <=> Turn(s, i))
      BY <2>1, <3>1 DEF Message, Turn
    <3> QED  BY <1>3, <2>1, <3>1, <3>2 DEF Queued
  <2> QED  BY <2>2, <2>3
<1>9. ASSUME NEW i \in Qps
      PROVE  Queued(q, i)'
  <2>1. Queued(q, i) /\ UNCHANGED <<got, net>>
    BY <1>2 DEF Data, Posts
  <2>2. (Message(q, i)' <=> Message(q, i)) /\ (Turn(q, i)' <=> Turn(q, i))
    BY <1>4, <2>1 DEF Message, Turn
  <2> QED  BY <1>3, <1>4, <2>1, <2>2 DEF Queued
<1>10. \A c \in Completions : c.qp \in Qps
  BY DEF Completions
<1>11. Piled(s)'
  <2>1. Piled(s) /\ UNCHANGED <<routs, rx, cq, net, got>>
    BY DEF Data, Posts
  <2>2. Unparsed(s)' = Unparsed(s) /\ Pile(s)' = Pile(s)
    BY DEF Posts, Pile
  <2>3. /\ Pile(s) \in Seq(Completions) /\ Unparsed(s) \in Seq(Completions)
        /\ cq[s] \in Seq(Completions)
    BY <2>1, PileType
  <2>4. \A c \in Completions : In(c, Pile(s)) => Counted(s, c)
    BY <2>1 DEF Piled, In
  <2>5. \A c \in Completions : In(c, Pile(s)) /\ c.id = "SEND" =>
            c.qp \in Qps \ X /\ "SEND" \in pending[s][c.qp]
    BY <1>10, <2>4 DEF Counted, Posts
  <2>6. \A c \in Completions : In(c, Pile(s)) => Counted(s, c)'
    <3> SUFFICES ASSUME NEW c \in Completions, In(c, Pile(s))
                 PROVE  Counted(s, c)'
      OBVIOUS
    <3>1. Counted(s, c)
      BY <2>4
    <3>2. c.id = "SEND" => "SEND" \in pending'[s][c.qp]
      BY <2>5 DEF Posts
    <3>3. Message(q, c.qp)' <=> Message(q, c.qp)
      BY <1>4, <2>1 DEF Message
    <3> QED  BY <1>1, <1>3, <1>4, <2>1, <3>1, <3>2, <3>3 DEF Counted
  <2>7. \A c \in Completions : In(c, Unparsed(s)) \/ In(c, cq[s]) => In(c, Pile(s))
    BY <2>1, InPile
  <2>8. \A c \in Completions : In(c, Unparsed(s)) /\ c.id = "SEND" => st'[s][c.qp] = "idle"
    <3>1. \A c \in Completions : In(c, Unparsed(s)) /\ c.id = "SEND" => st[s][c.qp] = "idle"
      BY <2>1 DEF Piled, Entries, In
    <3> QED  BY <2>5, <2>7, <3>1 DEF Posts
  <2>9. \A c \in Completions : In(c, cq[s]) /\ c.id = "SEND" => st'[s][c.qp] = "done"
    <3>1. \A c \in Completions : In(c, cq[s]) /\ c.id = "SEND" => st[s][c.qp] = "done"
      BY <2>1 DEF Piled, Entries, In
    <3> QED  BY <2>5, <2>7, <3>1 DEF Posts
  <2>10. /\ \A k \in DOMAIN Pile(s) : Pile(s)[k] \in Completions
         /\ \A k \in DOMAIN Unparsed(s) : Unparsed(s)[k] \in Completions
         /\ \A k \in DOMAIN cq[s] : cq[s][k] \in Completions
    BY <2>3, ElementOfSeq, LenProperties
  <2>11. \A k \in DOMAIN Pile(s)' : Counted(s, Pile(s)[k])'
    <3> SUFFICES ASSUME NEW k \in DOMAIN Pile(s)
                 PROVE  Counted(s, Pile(s)[k])'
      BY <2>2
    <3>1. PICK c \in Completions : c = Pile(s)[k]
      BY <2>10
    <3>2. Counted(s, c)'
      BY <2>6, <3>1 DEF In
    <3> QED  BY <2>2, <3>1, <3>2
  <2>12. Entries(s, Unparsed(s), "idle")'
    BY <2>2, <2>8, <2>10 DEF Entries, In
  <2>13. Entries(s, cq[s], "done")'
    BY <2>1, <2>9, <2>10 DEF Entries, In
  <2>14. Distinct(Pile(s))' /\ Recvs(Pile(s))' = Recvs(Pile(s))
    BY <2>1, <2>2 DEF Piled
  <2>15. (wc[s] # <<>> <=> pc[s] \in Parsing)'
    BY DEF Posts
  <2> QED  BY <1>3, <2>1, <2>11, <2>12, <2>13, <2>14, <2>15 DEF Piled
<1>12. On(q) => Piled(q)'
  <2> SUFFICES ASSUME On(q)
               PROVE  Piled(q)'
    OBVIOUS
  <2>1. \A c \in Completions : In(c, Pile(q)) => Counted(q, c)
    BY <1>2 DEF Data, Piled, In
  <2>2. \A c \in Completions : In(c, Pile(q)) /\ c.id = "RECV" => c.qp \in Qps \ X
    <3> SUFFICES ASSUME NEW c \in Completions, In(c, Pile(q)), c.id = "RECV"
                 PROVE  c.qp \notin X
      BY <1>10
    <3>1. sent[s][c.qp] = got[q][c.qp] + 1
      BY <1>1, <1>2, <2>1 DEF Counted, Message
    <3> QED  BY <1>2, <1>5, <1>6, <3>1 DEF Sides
  <2>3. \A i \in Qps \ X : Message(s, i) => Message(s, i)'
    BY DEF Posts, Message
  <2>4. \A c \in Completions : In(c, Pile(q)) /\ c.id = "RECV" =>
            Message(s, c.qp)' /\ st'[s][c.qp] # "posted"
    BY <1>2, <2>1, <2>2, <2>3 DEF Counted, Posts
  <2>5. /\ On(s) /\ cq'[q] = cq[q] /\ routs'[q] = routs[q] /\ rx'[q] = rx[q] /\ net' = net
        /\ prog' = prog
    BY DEF Posts
  <2> QED  BY <1>1, <1>4, <2>4, <2>5, PeerPiled
<1>13. \A r \in Sides : (Len(cq[r]) <= RxDepth + Cardinality(Qps))'
  BY <1>3 DEF Data, Posts
<1>14. \A r \in Sides : On(r)' => Piled(r)'
  BY <1>2, <1>4, <1>11, <1>12
<1>15. \A r \in Sides, i \in Qps : Queued(r, i)'
  BY <1>2, <1>8, <1>9
<1> QED  BY <1>3, <1>7, <1>13, <1>14, <1>15 DEF Data

\* The loop starts or goes on at a label without completions.
LEMMA LoopTops ==
    ASSUME NEW m, NEW n
    PROVE  LoopTop(m, n) \in {"event", "poll", "close"}
BY DEF LoopTop

\* The first sends of the client.
LEMMA StartKeepsInv ==
    ASSUME Inv, NEW s \in Sides, Start(s)
    PROVE  Inv'
<1>1. Types /\ Exchange /\ Data /\ On(s) /\ Piled(s) /\ pc[s] = "start"
  BY DEF Inv, Data, On, Start, At
<1>2. PICK x : x = LoopTop(0, 0)
  OBVIOUS
<1>3. x \in {"event", "poll", "close"} /\ Goto(s, x)
  BY <1>2, LoopTops DEF Start
<1>4. x \in Loop \ {"ended"} /\ x \notin Parsing
  BY <1>3 DEF Loop, Parsing
<1>5. /\ pc' \in [Sides -> Opening \cup Loop \cup {"failed"}]
      /\ pc'[s] = x /\ \A r \in Sides \ {s} : pc'[r] = pc[r]
  BY <1>1, <1>3, <1>4, Goes
<1>6. UNCHANGED <<prog, use_event, tcp, short, connected, routs, scnt, rcnt, wc, rx, cq, net, got>>
  BY DEF Start, setupVars
<1>7. \A i \in Qps : /\ sent[s][i] = 0 /\ got[s][i] = 0 /\ st[s][i] = "idle" /\ pending[s][i] = {}
  BY <1>1 DEF Data, Queued, Opening
<1>8. Peer(s) \in Sides \ {s}
  BY Peers
<1>9. wc[s] = <<>>
  BY <1>1 DEF Piled, Parsing
<1>10. Unparsed(s)' = Unparsed(s) /\ (wc[s] # <<>> <=> pc[s] \in Parsing)'
  BY <1>1, <1>3, <1>4, <1>5, <1>6, <1>9 DEF Unparsed
<1>11. Exchange'
  BY <1>1, <1>4, <1>5, <1>6, LoopKeepsExchange
<1>12. x # "read_done" /\ x # "write_done"
  BY <1>3
<1>13. CASE s = "client"
  <2>1. /\ pending' = [pending EXCEPT ![s] = [i \in Qps |-> {"RECV", "SEND"}]]
        /\ st' = [st EXCEPT ![s] = [i \in Qps |-> "posted"]]
        /\ sent' = [sent EXCEPT ![s] = [i \in Qps |-> 1]]
    BY <1>13 DEF Start
  <2>2. /\ pending' \in [Sides -> [Qps -> SUBSET {"RECV", "SEND"}]]
        /\ st' \in [Sides -> [Qps -> {"idle", "posted", "delivered", "unacked", "done"}]]
        /\ sent' \in [Sides -> [Qps -> Nat]]
    BY <1>1, <2>1 DEF Types
  <2>3. /\ \A i \in Qps : /\ pending'[s][i] = {"RECV", "SEND"} /\ st'[s][i] = "posted"
                          /\ sent'[s][i] = 1
        /\ \A r \in Sides \ {s} : pending'[r] = pending[r] /\ st'[r] = st[r] /\ sent'[r] = sent[r]
    BY <1>1, <2>1 DEF Types
  <2>4. Types'
    BY <1>1, <1>5, <1>6, <1>12, <2>2 DEF Types, Completions, Qps, Sides
  <2>5. connected["client"] /\ connected["server"]
    BY <1>1, <1>13 DEF Exchange
  <2>6. \A i \in Qps : Turn(s, i)
    BY <1>7, <1>13 DEF Turn
  <2>7. Posts(s, Qps)
    BY <1>1, <1>4, <1>5, <1>6, <1>7, <1>8, <1>10, <2>3, <2>5, <2>6 DEF Posts
  <2>8. Data'
    BY <1>1, <2>4, <2>7, PostsKeepsData
  <2> QED  BY <1>11, <2>4, <2>8 DEF Inv
<1>14. CASE s # "client"
  <2>1. /\ pending' = [pending EXCEPT ![s] = [i \in Qps |-> {"RECV"}]]
        /\ UNCHANGED <<st, sent>>
    BY <1>14 DEF Start
  <2>2. pending' \in [Sides -> [Qps -> SUBSET {"RECV", "SEND"}]]
    BY <1>1, <2>1 DEF Types
  <2>3. /\ \A i \in Qps : pending'[s][i] = {"RECV"}
        /\ \A r \in Sides \ {s} : pending'[r] = pending[r]
    BY <1>1, <2>1 DEF Types
  <2>4. Types'
    BY <1>1, <1>5, <1>6, <1>12, <2>1, <2>2 DEF Types, Completions, Qps, Sides
  <2>5. Posts(s, {})
    BY <1>1, <1>4, <1>5, <1>6, <1>7, <1>8, <1>10, <2>1, <2>3 DEF Posts
  <2>6. Data'
    BY <1>1, <2>4, <2>5, PostsKeepsData
  <2> QED  BY <1>11, <2>4, <2>6 DEF Inv
<1> QED  BY <1>13, <1>14

\* An answer never finds the send queue full.
LEMMA AnswerFinds ==
    ASSUME Inv, NEW s \in Sides, pc[s] \in Parsing, NEW i \in Qps, MayAnswer(s, i)
    PROVE  st[s][i] = "idle" /\ pending[s][i] = {} /\ Turn(s, i)
<1>1. Queued(s, i) /\ On(s) /\ pc[s] \in Loop /\ pending[s][i] = {}
  BY DEF Inv, Data, On, Parsing, Loop, MayAnswer
<1> QED  BY <1>1 DEF Queued

\* The rest of parse_single_wc: the answer.
LEMMA AnswerKeepsInv ==
    ASSUME Inv, NEW s \in Sides, Answer(s)
    PROVE  Inv'
<1>1. Types /\ Exchange /\ Data /\ On(s) /\ Piled(s) /\ pc[s] \in {"answer", "answer_next"}
  BY DEF Inv, Data, On, Answer
<1>2. pc[s] \in Parsing /\ pc[s] \in Loop
  BY <1>1 DEF Parsing, Loop
<1>3. wc[s] # <<>> /\ wc[s] \in Seq(Completions)
  BY <1>1, <1>2 DEF Piled, Types
<1>4. PICK i, x, w : i = Head(wc[s]).qp /\ x = AfterAnswer(s) /\ w = Tail(wc[s])
  OBVIOUS
<1>5. i \in Qps
  <2>1. Head(wc[s]) \in Completions
    BY <1>3, HeadTailProperties
  <2> QED  BY <1>4, <2>1 DEF Completions
<1>6. w \in Seq(Completions) /\ Len(w) = Len(wc[s]) - 1 /\ Len(wc[s]) \in Nat /\ Len(wc[s]) > 0
  BY <1>3, <1>4, HeadTailProperties, LenProperties, EmptySeq
<1>7. MayAnswer(s, i) => st[s][i] = "idle" /\ pending[s][i] = {} /\ Turn(s, i)
  BY <1>2, <1>5, AnswerFinds
<1>8. /\ IF MayAnswer(s, i)
           THEN /\ st' = [st EXCEPT ![s][i] = "posted"]
                /\ pending' = [pending EXCEPT ![s][i] = {"RECV", "SEND"}]
                /\ sent' = [sent EXCEPT ![s][i] = @ + 1]
           ELSE UNCHANGED <<st, pending, sent>>
      /\ wc' = [wc EXCEPT ![s] = w] /\ Goto(s, x)
      /\ UNCHANGED <<prog, use_event, tcp, short, connected, routs, scnt, rcnt, rx, cq, net, got>>
  BY <1>4, <1>7 DEF Answer, setupVars
<1>9. x \in {"event", "poll", "close", "next_poll", "parse"} /\ (x = "parse" <=> Len(wc[s]) > 1)
  <2>1. LoopTop(scnt[s], rcnt[s]) \in {"event", "poll", "close"}
    BY LoopTops
  <2>2. CASE Len(wc[s]) > 1
    <3>1. ~ (Len(wc[s]) = 1)
      <4>1. PICK n : n = Len(wc[s])
        OBVIOUS
      <4>2. n \in Nat /\ n > 1
        BY <1>6, <2>2, <4>1
      <4>3. n # 1
        BY <4>2
      <4> QED  BY <4>1, <4>3
    <3>2. x = "parse"
      BY <1>4, <2>2, <3>1 DEF AfterAnswer
    <3> QED  BY <2>2, <3>2
  <2>3. CASE ~ (Len(wc[s]) > 1)
    <3>1. CASE Len(wc[s]) = 1 /\ prog = "rc_ts" /\ pc[s] = "answer"
      <4>1. x = "next_poll"
        BY <1>4, <2>3, <3>1 DEF AfterAnswer
      <4> QED  BY <2>3, <4>1
    <3>2. CASE ~ (Len(wc[s]) = 1 /\ prog = "rc_ts" /\ pc[s] = "answer")
      <4>1. x = LoopTop(scnt[s], rcnt[s])
        BY <1>4, <2>3, <3>2 DEF AfterAnswer
      <4>2. x # "parse"
        BY <2>1, <4>1
      <4> QED  BY <2>1, <2>3, <4>1, <4>2
    <3> QED  BY <3>1, <3>2
  <2> QED  BY <2>2, <2>3
<1>10. x \in Loop \ {"ended"} /\ (x \in Parsing <=> x = "parse")
       /\ x \notin {"read_done", "write_done", "answer", "answer_next"}
  BY <1>9 DEF Loop, Parsing
<1>11. /\ pc' \in [Sides -> Opening \cup Loop \cup {"failed"}]
       /\ pc'[s] = x /\ \A r \in Sides \ {s} : pc'[r] = pc[r]
  BY <1>1, <1>8, <1>10, Goes
<1>12. /\ wc' \in [Sides -> Seq(Completions)] /\ wc'[s] = w
       /\ \A r \in Sides \ {s} : wc'[r] = wc[r]
  BY <1>1, <1>6, <1>8 DEF Types
<1>13. w # <<>> <=> Len(wc[s]) > 1
  BY <1>6, EmptySeq
<1>14. Unparsed(s)' = Unparsed(s) /\ (wc[s] # <<>> <=> pc[s] \in Parsing)'
  BY <1>1, <1>4, <1>9, <1>10, <1>11, <1>12, <1>13 DEF Unparsed
<1>15. Peer(s) \in Sides \ {s}
  BY Peers
<1>16. Exchange'
  BY <1>1, <1>2, <1>8, <1>10, <1>11, LoopKeepsExchange
<1>17. CASE MayAnswer(s, i)
  <2>1. /\ st' = [st EXCEPT ![s][i] = "posted"]
        /\ pending' = [pending EXCEPT ![s][i] = {"RECV", "SEND"}]
        /\ sent' = [sent EXCEPT ![s][i] = @ + 1]
    BY <1>8, <1>17
  <2>2. /\ st \in [Sides -> [Qps -> {"idle", "posted", "delivered", "unacked", "done"}]]
        /\ pending \in [Sides -> [Qps -> SUBSET {"RECV", "SEND"}]]
        /\ sent \in [Sides -> [Qps -> Nat]]
    BY <1>1 DEF Types
  <2>3. /\ st' \in [Sides -> [Qps -> {"idle", "posted", "delivered", "unacked", "done"}]]
        /\ pending' \in [Sides -> [Qps -> SUBSET {"RECV", "SEND"}]]
    BY <1>5, <2>1, <2>2
  <2>4. sent' \in [Sides -> [Qps -> Nat]]
    <3>1. sent[s][i] + 1 \in Nat
      BY <1>5, <2>2
    <3> QED  BY <1>5, <2>1, <2>2, <3>1
  <2>5. /\ st'[s][i] = "posted" /\ pending'[s][i] = {"RECV", "SEND"}
        /\ sent'[s][i] = sent[s][i] + 1
        /\ \A j \in Qps \ {i} : /\ st'[s][j] = st[s][j] /\ pending'[s][j] = pending[s][j]
                                /\ sent'[s][j] = sent[s][j]
        /\ \A r \in Sides \ {s} : pending'[r] = pending[r] /\ st'[r] = st[r] /\ sent'[r] = sent[r]
    BY <1>5, <2>1, <2>2
  <2>6. Types'
    BY <1>1, <1>8, <1>10, <1>11, <1>12, <2>3, <2>4 DEF Types, Completions, Qps, Sides
  <2>7. s = "client" => connected["client"] /\ connected["server"]
    BY <1>1, <1>2 DEF Exchange
  <2>8. Posts(s, {i})
    BY <1>1, <1>2, <1>7, <1>8, <1>10, <1>11, <1>12, <1>14, <1>15, <1>17, <2>5, <2>7 DEF Posts
  <2>9. Data'
    BY <1>1, <1>5, <2>6, <2>8, PostsKeepsData
  <2> QED  BY <1>16, <2>6, <2>9 DEF Inv
<1>18. CASE ~ MayAnswer(s, i)
  <2>1. UNCHANGED <<st, pending, sent>>
    BY <1>8, <1>18
  <2>2. Types'
    BY <1>1, <1>8, <1>10, <1>11, <1>12, <2>1 DEF Types, Completions, Qps, Sides
  <2>3. Posts(s, {})
    BY <1>1, <1>2, <1>8, <1>10, <1>11, <1>12, <1>14, <1>15, <2>1 DEF Posts
  <2>4. Data'
    BY <1>1, <2>2, <2>3, PostsKeepsData
  <2> QED  BY <1>16, <2>2, <2>4 DEF Inv
<1> QED  BY <1>17, <1>18

----------------------------------------------------------------------------
\* The invariant.

\* pp_init_ctx and the first pp_post_recv.
LEMMA InitInv ==
    ASSUME Init
    PROVE  Inv
<1>1. Types
  <2>1. prog \in AllPrograms /\ use_event \in BOOLEAN /\ (use_event => prog \in Sleeping)
    BY VerbsAssumption DEF Init
  <2>2. pc \in [Sides -> Opening \cup Loop \cup {"failed"}]
        /\ pc["client"] = "write_addr" /\ pc["server"] = "read_addr"
    BY DEF Init, Opening, Sides
  <2>3. <<>> \in Seq({"write_addr", "write_done"}) /\ <<>> \in Seq(Completions)
    BY EmptySeq
  <2>4. RxDepth \in Nat
    BY VerbsAssumption
  <2> QED  BY <2>1, <2>2, <2>3, <2>4 DEF Init, Types
<1>2. "client" \in Sides /\ "server" \in Sides
  BY DEF Sides
<1>3. pc["client"] = "write_addr" /\ pc["server"] = "read_addr"
  BY <1>2 DEF Init
<1>4. Exchange
  <2>1. Len(<<>>) = 0 /\ tcp["client"] = <<>> /\ tcp["server"] = <<>>
    BY <1>2 DEF Init
  <2>2. /\ Wrote("client") = 0 /\ Wrote("server") = 0 /\ Took("client") = 0 /\ Took("server") = 0
    BY <1>3 DEF Wrote, Took
  <2>3. 0 = 0 - 0
    OBVIOUS
  <2> QED  BY <1>3, <2>1, <2>2, <2>3 DEF Exchange, Loop, Parsing
<1>5. \A s \in Sides, i \in Qps : /\ sent[s][i] = 0 /\ got[s][i] = 0 /\ st[s][i] = "idle"
                                  /\ pending[s][i] = {} /\ net[s] = 0
  BY DEF Init
<1>6. \A i \in Qps : Chain(i)
  BY <1>2, <1>5 DEF Chain
<1>7. \A s \in Sides : pc[s] \in Opening
  BY DEF Init, Opening
<1>8. \A s \in Sides, i \in Qps : Queued(s, i)
  BY <1>5, <1>7 DEF Queued, Opening, Loop, Parsing
<1>9. ASSUME NEW s \in Sides
      PROVE  Piled(s)
  <2>1. wc[s] = <<>> /\ cq[s] = <<>> /\ routs[s] = RxDepth /\ rx[s] = RxDepth
    BY DEF Init
  <2>2. pc[s] \notin Parsing
    BY <1>7 DEF Opening, Parsing
  <2>3. Unparsed(s) = <<>>
    BY <2>1, <2>2 DEF Unparsed, Parsing
  <2>4. <<>> \o <<>> = <<>>
    OBVIOUS
  <2>5. Pile(s) = <<>>
    BY <2>1, <2>3, <2>4 DEF Pile
  <2>6. Recvs(Pile(s)) = 0
    BY <2>5, NoRecvs
  <2>7. DOMAIN <<>> = {}
    OBVIOUS
  <2>8. /\ Distinct(Pile(s)) /\ Entries(s, Unparsed(s), "idle") /\ Entries(s, cq[s], "done")
        /\ \A k \in DOMAIN Pile(s) : Counted(s, Pile(s)[k])
    BY <2>1, <2>3, <2>5, <2>7 DEF Distinct, Entries
  <2>9. Cardinality(Qps) <= routs[s] /\ routs[s] <= RxDepth /\ routs[s] = rx[s] + 0
    BY <2>1, QueuePairs, VerbsAssumption
  <2> QED  BY <2>1, <2>2, <2>6, <2>8, <2>9 DEF Piled
<1>10. \A s \in Sides : Len(cq[s]) <= RxDepth + Cardinality(Qps)
  <2>1. \A s \in Sides : cq[s] = <<>>
    BY DEF Init
  <2>2. Len(<<>>) = 0 /\ 0 <= RxDepth + Cardinality(Qps)
    BY QueuePairs, VerbsAssumption
  <2> QED  BY <2>1, <2>2
<1> QED  BY <1>1, <1>4, <1>6, <1>8, <1>9, <1>10 DEF Inv, Data

\* How many completions a poll takes: at least one.
LEMMA Batches == Batch \in Nat /\ Batch >= 1
<1>1. CASE prog = "srq"
  BY <1>1, VerbsAssumption DEF Batch
<1>2. CASE prog = "rc_ts"
  BY <1>2 DEF Batch
<1>3. CASE prog # "srq" /\ prog # "rc_ts"
  BY <1>3 DEF Batch
<1> QED  BY <1>1, <1>2, <1>3

\* ibv_poll_cq, or ibv_start_poll
LEMMA PollKeepsInv ==
    ASSUME Inv, NEW s \in Sides, Poll(s)
    PROVE  Inv'
<1>1. PICK n : n = IF Len(cq[s]) < Batch THEN Len(cq[s]) ELSE Batch
  OBVIOUS
<1>2. cq[s] # <<>> /\ cq[s] \in Seq(Completions)
  BY DEF Poll, Inv, Types
<1>3. Len(cq[s]) \in Nat /\ Len(cq[s]) > 0
  BY <1>2, LenProperties, EmptySeq
<1>4. n \in 1 .. Len(cq[s])
  BY <1>1, <1>3, Batches
<1>5. Take(s, n) /\ Goto(s, "parse") /\ pc[s] \in {"poll", "next_poll"}
  BY <1>1 DEF Poll, At
<1> QED  BY <1>4, <1>5, TakeKeepsInv

\* An event without a completion.
LEMMA PollNothingKeepsInv ==
    ASSUME Inv, NEW s \in Sides, PollNothing(s)
    PROVE  Inv'
<1>1. CASE Fail(s)
  BY <1>1, FailKeepsInv
<1>2. CASE ~ Fail(s)
  <2>1. /\ pc[s] \in Resting /\ Goto(s, "event") /\ "event" \in Resting
        /\ UNCHANGED <<prog, use_event, setupVars, countVars, wc, st, rx, cq, net, history>>
    BY <1>2 DEF PollNothing, At, Resting, adapterVars
  <2> QED  BY <2>1, RestingKeepsInv
<1> QED  BY <1>1, <1>2

\* ibv_next_poll
LEMMA NextPollKeepsInv ==
    ASSUME Inv, NEW s \in Sides, NextPoll(s)
    PROVE  Inv'
<1>1. CASE cq[s] # <<>>
  <2>1. PICK n : n = 1
    OBVIOUS
  <2>2. cq[s] \in Seq(Completions)
    BY DEF Inv, Types
  <2>3. Len(cq[s]) \in Nat /\ Len(cq[s]) > 0
    BY <1>1, <2>2, LenProperties, EmptySeq
  <2>4. n \in 1 .. Len(cq[s])
    BY <2>1, <2>3
  <2>5. Take(s, n) /\ Goto(s, "parse_next") /\ pc[s] \in {"poll", "next_poll"}
    BY <1>1, <2>1 DEF NextPoll, At
  <2> QED  BY <2>4, <2>5, TakeKeepsInv
<1>2. CASE cq[s] = <<>>
  <2>1. PICK x : x = LoopTop(scnt[s], rcnt[s])
    OBVIOUS
  <2>2. x \in Resting
    BY <2>1, LoopTops DEF Resting
  <2>3. /\ pc[s] \in Resting /\ Goto(s, x)
        /\ UNCHANGED <<prog, use_event, setupVars, countVars, wc, st, rx, cq, net, history>>
    BY <1>2, <2>1 DEF NextPoll, At, Resting, adapterVars
  <2> QED  BY <2>2, <2>3, RestingKeepsInv
<1> QED  BY <1>1, <1>2

\* ibv_get_cq_event, and pp_close_ctx
LEMMA GetEventKeepsInv ==
    ASSUME Inv, NEW s \in Sides, GetEvent(s) \/ Close(s)
    PROVE  Inv'
<1>1. PICK x \in {"poll", "ended"} :
          /\ pc[s] \in Resting /\ Goto(s, x)
          /\ UNCHANGED <<prog, use_event, setupVars, countVars, wc, st, rx, cq, net, history>>
  BY DEF GetEvent, Close, At, Resting, adapterVars
<1>2. x \in Resting \cup {"ended"}
  BY DEF Resting
<1> QED  BY <1>1, <1>2, RestingKeepsInv

\* A step that changes nothing.
LEMMA StutterKeepsInv ==
    ASSUME Inv, UNCHANGED vars
    PROVE  Inv'
<1>1. Types /\ Exchange /\ Data
  BY DEF Inv
<1>2. UNCHANGED <<prog, use_event, pc, setupVars, countVars, wc, st, rx, cq, net, history>>
  BY DEF vars, adapterVars
<1>3. Types'
  BY <1>1, <1>2 DEF Types, setupVars, countVars, history, Completions, Qps, Sides
<1>4. Exchange'
  BY <1>1, <1>2, LoopKeepsExchange DEF setupVars
<1>5. Data'
  BY <1>1, <1>2, QuietKeepsData DEF setupVars, countVars, history, Drifts
<1> QED  BY <1>3, <1>4, <1>5 DEF Inv

\* Every step keeps the invariant.
LEMMA NextKeepsInv == Inv /\ [Next]_vars => Inv'
<1> SUFFICES ASSUME Inv, [Next]_vars
             PROVE  Inv'
  OBVIOUS
<1>1. ASSUME NEW s \in Sides, Run(s)
      PROVE  Inv'
  <2>1. CASE WriteMsg(s)
    BY <2>1, WriteMsgKeepsInv
  <2>2. CASE ReadMsg(s)
    BY <2>2, ReadMsgKeepsInv
  <2>3. CASE ReadClosed(s)
    BY <2>3, FailKeepsInv DEF ReadClosed
  <2>4. CASE Connect(s)
    BY <2>4, ConnectKeepsInv
  <2>5. CASE Start(s)
    BY <2>5, StartKeepsInv
  <2>6. CASE GetEvent(s) \/ Close(s)
    BY <2>6, GetEventKeepsInv
  <2>7. CASE Poll(s)
    BY <2>7, PollKeepsInv
  <2>8. CASE PollNothing(s)
    BY <2>8, PollNothingKeepsInv
  <2>9. CASE NextPoll(s)
    BY <2>9, NextPollKeepsInv
  <2>10. CASE Parse(s)
    BY <2>10, ParseKeepsInv
  <2>11. CASE Answer(s)
    BY <2>11, AnswerKeepsInv
  <2> QED  BY <1>1, <2>1, <2>2, <2>3, <2>4, <2>5, <2>6, <2>7, <2>8, <2>9, <2>10, <2>11 DEF Run
<1>2. ASSUME NEW s \in Sides, Adapter(s)
      PROVE  Inv'
  <2>1. CASE Arrive(s)
    BY <2>1, ArriveKeepsInv
  <2>2. ASSUME NEW i \in Qps, Deliver(s, i) \/ SendDone(s, i) \/ Transmit(s, i)
        PROVE  Inv'
    BY <2>2, DeliverKeepsInv, SendDoneKeepsInv, TransmitKeepsInv
  <2> QED  BY <1>2, <2>1, <2>2 DEF Adapter
<1>3. ASSUME NEW s \in Sides, Mishap(s)
      PROVE  Inv'
  BY <1>3, ReadShortKeepsInv, LoseDatagramKeepsInv, LoseAckKeepsInv DEF Mishap
<1>4. CASE Terminating \/ UNCHANGED vars
  BY <1>4, StutterKeepsInv DEF Terminating
<1> QED  BY <1>1, <1>2, <1>3, <1>4 DEF Next

\* Inv holds in every state: see the head of this module.
THEOREM InvInvariant == Spec => []Inv
<1>1. Init => Inv
  BY InitInv
<1> QED  BY <1>1, NextKeepsInv, PTL DEF Spec

\* routs is exact while completions wait, and no completion queue overflows.
LEMMA InvCredits ==
    ASSUME Inv
    PROVE  CreditsExact
<1> SUFFICES ASSUME NEW s \in Sides
             PROVE  /\ On(s) => routs[s] = rx[s] + Recvs(cq[s]) + Recvs(Unparsed(s))
                    /\ Len(cq[s]) <= RxDepth + Cardinality(Qps)
  BY DEF CreditsExact
<1>1. Types /\ Len(cq[s]) <= RxDepth + Cardinality(Qps)
  BY DEF Inv, Data
<1>2. ASSUME On(s)
      PROVE  routs[s] = rx[s] + Recvs(cq[s]) + Recvs(Unparsed(s))
  <2>1. Piled(s)
    BY <1>2 DEF Inv, Data
  <2>2. PICK a, b, p : a = Recvs(cq[s]) /\ b = Recvs(Unparsed(s)) /\ p = Recvs(Pile(s))
    OBVIOUS
  <2>3. cq[s] \in Seq(Completions) /\ Unparsed(s) \in Seq(Completions) /\ p = a + b
    BY <1>1, <2>1, <2>2, PileType
  <2>4. a \in Nat /\ b \in Nat
    BY <2>2, <2>3, Places
  <2>5. routs[s] = rx[s] + p /\ rx[s] \in Nat
    BY <1>1, <2>1, <2>2 DEF Piled, Types
  <2>6. routs[s] = rx[s] + a + b
    BY <2>3, <2>4, <2>5
  <2> QED  BY <2>2, <2>6
<1> QED  BY <1>1, <1>2

\* The receive credits of main are exact, so that pp_post_recv never finds the
\* receive queue full, and the completion queue is large enough: CreditsExact
\* for every depth and number of queue pairs.
THEOREM CreditsAreExact == Spec => []CreditsExact
BY InvInvariant, InvCredits, PTL

\* The messages under way from s find a receive each at a peer that runs.
LEMMA InvReady ==
    ASSUME Inv
    PROVE  ReceiverReady
<1> SUFFICES ASSUME NEW s \in Sides, UnderWay(s) > 0, On(Peer(s))
             PROVE  connected[Peer(s)] /\ rx[Peer(s)] >= UnderWay(s)
  BY DEF ReceiverReady
<1>1. PICK q : q = Peer(s)
  OBVIOUS
<1>2. Types /\ Data /\ q \in Sides /\ s = Peer(q) /\ Piled(q)
  BY <1>1, Peers DEF Inv, Data
<1> DEFINE A == {i \in Qps : st[s][i] = "posted"}
<1>3. /\ IsFiniteSet(Qps) /\ Cardinality(Qps) \in Nat /\ A \subseteq Qps
      /\ IsFiniteSet(A) /\ IsFiniteSet(Qps \ A)
  BY QueuePairs, FS_Subset
<1>4. Cardinality(A) \in Nat /\ Cardinality(Qps \ A) \in Nat
  BY <1>3, FS_CardinalityType
<1>5. Cardinality(Qps) = Cardinality(A) + Cardinality(Qps \ A)
  <2>1. A \cup (Qps \ A) = Qps /\ A \cap (Qps \ A) = {}
    OBVIOUS
  <2>2. Cardinality(A \cap (Qps \ A)) = 0
    BY <2>1, FS_EmptySet
  <2>3. Cardinality(A \cup (Qps \ A))
          = Cardinality(A) + Cardinality(Qps \ A) - Cardinality(A \cap (Qps \ A))
    BY <1>3, FS_Union
  <2>4. Cardinality(Qps) = Cardinality(A) + Cardinality(Qps \ A) - 0
    BY <2>1, <2>2, <2>3
  <2> QED  BY <1>4, <2>4
<1>6. UnderWay(s) = Cardinality(A) + net[s] /\ net[s] \in Nat
  BY <1>2 DEF UnderWay, Types
<1>7. /\ Pile(q) \in Seq(Completions) /\ Distinct(Pile(q)) /\ Recvs(Pile(q)) \in Nat
      /\ rx[q] \in Nat /\ routs[q] = rx[q] + Recvs(Pile(q)) /\ Cardinality(Qps) <= routs[q]
  BY <1>2, PileType DEF Piled, Types
<1>8. \A k \in DOMAIN Pile(q) : /\ Pile(q)[k].qp \in Qps
                                /\ Pile(q)[k].id = "RECV" => /\ net[s] = 0
                                                             /\ Pile(q)[k].qp \notin A
  <2> SUFFICES ASSUME NEW k \in DOMAIN Pile(q)
               PROVE  /\ Pile(q)[k].qp \in Qps
                      /\ Pile(q)[k].id = "RECV" => net[s] = 0 /\ Pile(q)[k].qp \notin A
    OBVIOUS
  <2>1. Pile(q)[k] \in Completions /\ Counted(q, Pile(q)[k])
    BY <1>2, <1>7, Places, ElementOfSeq DEF Piled
  <2> QED  BY <1>2, <2>1 DEF Counted, Completions
<1>9. connected[q] /\ (net[s] > 0 => net[s] = 1 /\ A = {} /\ Qps = {0})
  <2>1. PICK i \in Qps : i \in A \/ net[s] > 0
    <3>1. CASE net[s] > 0
      <4>1. 0 \in Qps
        BY <1>2, <3>1, QueuePairs, VerbsAssumption DEF Qps
      <4> QED  BY <3>1, <4>1
    <3>2. CASE ~ (net[s] > 0)
      <4>1. Cardinality(A) # 0
        BY <1>4, <1>6, <3>2
      <4>2. A # {}
        BY <1>3, <4>1, FS_EmptySet
      <4> QED  BY <4>2
    <3> QED  BY <3>1, <3>2
  <2>2. /\ Queued(s, i) /\ Chain(i) /\ sent[s][i] \in Nat /\ got[q][i] \in Nat
        /\ sent["client"][i] \in Nat /\ sent["server"][i] \in Nat /\ got["server"][i] \in Nat
    BY <1>2 DEF Data, Types, Sides
  <2>3. sent[s][i] = got[q][i] + 1
    BY <1>1, <2>1, <2>2 DEF Queued, Message
  <2>4. sent["client"][i] > 0
    BY <2>2, <2>3 DEF Chain, Sides
  <2>5. connected["client"] /\ connected["server"]
    BY <2>2, <2>4 DEF Chain
  <2>6. ASSUME net[s] > 0
        PROVE  net[s] = 1 /\ A = {} /\ Qps = {0}
    <3>1. net[s] = 1 /\ ~ Reliable
      BY <2>2, <2>6 DEF Queued
    <3>2. Qps = {0}
      BY <3>1, OneQueuePair
    <3>3. \A j \in Qps : st[s][j] # "posted"
      BY <1>2, <3>1 DEF Data, Queued
    <3> QED  BY <3>1, <3>2, <3>3
  <2> QED  BY <1>2, <2>5, <2>6 DEF Sides
<1> DEFINE B == Qps \ A
           a == Cardinality(A)
           b == Cardinality(B)
           c == Cardinality(Qps)
           p == Recvs(Pile(q))
<1>10. CASE net[s] = 0
  <2>1. p <= b
    <3>1. \A k \in DOMAIN Pile(q) : Pile(q)[k].id = "RECV" => Pile(q)[k].qp \in B
      BY <1>8
    <3> HIDE DEF A, B
    <3> QED  BY <1>3, <1>7, <3>1, RecvsBound DEF B
  <2>2. /\ a \in Nat /\ b \in Nat /\ c = a + b /\ p \in Nat /\ rx[q] \in Nat
        /\ c <= rx[q] + p /\ UnderWay(s) = a + 0
    BY <1>4, <1>5, <1>6, <1>7, <1>10
  <2> HIDE DEF a, b, c, p
  <2>3. rx[q] >= UnderWay(s)
    BY <2>1, <2>2
  <2> QED  BY <1>1, <1>9, <2>3
<1>11. CASE net[s] > 0
  <2>1. p <= 0
    <3>1. \A k \in DOMAIN Pile(q) : Pile(q)[k].id = "RECV" => Pile(q)[k].qp \in {}
      BY <1>8, <1>11
    <3>2. IsFiniteSet({}) /\ Cardinality({}) = 0
      BY FS_EmptySet
    <3>3. Recvs(Pile(q)) <= Cardinality({})
      BY <1>7, <3>1, <3>2, RecvsBound
    <3> QED  BY <3>2, <3>3
  <2>2. a = 0 /\ c = 1
    BY <1>9, <1>11, FS_EmptySet, FS_Singleton
  <2>3. p \in Nat /\ rx[q] \in Nat /\ c <= rx[q] + p /\ UnderWay(s) = a + 1
    BY <1>6, <1>7, <1>9, <1>11
  <2> HIDE DEF a, c, p
  <2>4. rx[q] >= UnderWay(s)
    BY <2>1, <2>2, <2>3
  <2> QED  BY <1>1, <1>9, <2>4
<1> QED  BY <1>6, <1>10, <1>11

\* A message under way to a process that runs finds connected queue pairs and
\* a receive of its own: ReceiverReady for every depth and number of queue
\* pairs.  The pile of the peer has at most one receive for each queue pair
\* that has nothing under way, and routs does not go below one per queue pair.
THEOREM ReceiversAreReady == Spec => []ReceiverReady
BY InvInvariant, InvReady, PTL

----------------------------------------------------------------------------
\* Why main returns 1.

\* A side that runs goes to x, and if that is the end it has a reason.
LEMMA GoKeepsReasons ==
    ASSUME Types, FailuresExplained, NEW s \in Sides, On(s),
           NEW x \in Opening \cup Loop \cup {"failed"}, Goto(s, x), prog' = prog,
           short' = short \/ short' = short + 1,
           x = "failed" => short' > 0 \/ (Reliable /\ ~ On(Peer(s)))
    PROVE  FailuresExplained'
<1>1. pc'[s] = x /\ \A q \in Sides \ {s} : pc'[q] = pc[q]
  BY Goes
<1>2. short \in Nat /\ short' \in Nat /\ (short > 0 => short' > 0)
  BY DEF Types
<1>3. Reliable' <=> Reliable
  BY DEF Reliable
<1>4. \A q \in Sides : ~ On(q) => ~ On(q)'
  BY <1>1 DEF On
<1>5. ASSUME NEW q \in Sides, pc'[q] = "failed"
      PROVE  short' > 0 \/ (Reliable /\ ~ On(Peer(q)))
  BY <1>1, <1>2, <1>5 DEF FailuresExplained, At
<1>6. \A q \in Sides : Peer(q) \in Sides
  BY Peers
<1>7. ASSUME NEW q \in Sides, pc'[q] = "failed"
      PROVE  short' > 0 \/ (Reliable' /\ ~ On(Peer(q))')
  BY <1>3, <1>4, <1>5, <1>6, <1>7
<1> QED  BY <1>7 DEF FailuresExplained, At, Peer

\* A step that no process takes.
LEMMA StayKeepsReasons ==
    ASSUME FailuresExplained, UNCHANGED <<prog, pc, short>>
    PROVE  FailuresExplained'
BY DEF FailuresExplained, At, Reliable, On, Peer

\* A read that finds the connection closed: the peer has failed, and its
\* reason serves; a peer that has come to its end has written all it has to.
LEMMA ClosedHasReason ==
    ASSUME Inv, FailuresExplained, NEW s \in Sides, ReadClosed(s)
    PROVE  short > 0 \/ (Reliable /\ ~ On(Peer(s)))
<1>1. Types /\ Exchange /\ Peer(s) \in Sides /\ Peer(Peer(s)) = s
  BY Peers DEF Inv
<1>2. /\ tcp[s] = <<>> /\ ~ On(Peer(s)) /\ pc[s] \in {"read_addr", "read_done"} /\ On(s)
  BY DEF ReadClosed, On
<1>3. CASE pc[Peer(s)] = "failed"
  BY <1>1, <1>2, <1>3 DEF FailuresExplained, At
<1>4. CASE pc[Peer(s)] = "ended"
  <2>1. \A q \in Sides : pc[q] # "failed"
    BY <1>2, <1>4, Peers DEF On
  <2>2. /\ Len(tcp["server"]) = Wrote("client") - Took("server")
        /\ Len(tcp["client"]) = Wrote("server") - Took("client")
    BY <1>1, <2>1 DEF Exchange
  <2>3. Len(tcp[s]) = 0
    BY <1>2
  <2>4. CASE s = "client"
    <3>1. pc["client"] = "read_addr" /\ pc["server"] = "ended"
      BY <1>1, <1>2, <1>4, <2>4 DEF Types, Peer
    <3>2. Wrote("server") = 1 /\ Took("client") = 0
      BY <3>1 DEF Wrote, Took
    <3>3. Len(tcp["client"]) = 1
      BY <2>2, <3>2
    <3> QED  BY <2>3, <2>4, <3>3
  <2>5. CASE s = "server"
    <3>1. pc["server"] \in {"read_addr", "read_done"} /\ pc["client"] = "ended"
      BY <1>2, <1>4, <2>5 DEF Peer
    <3>2. Wrote("client") = 2 /\ (Took("server") = 0 \/ Took("server") = 1)
      BY <3>1 DEF Wrote, Took
    <3>3. Len(tcp["server"]) = 2 \/ Len(tcp["server"]) = 1
      BY <2>2, <3>2
    <3> QED  BY <2>3, <2>5, <3>3
  <2> QED  BY <2>4, <2>5 DEF Sides
<1> QED  BY <1>2, <1>3, <1>4 DEF On

\* A completion that makes main fail has an error status: the credits always
\* suffice for the receives that are posted again.
LEMMA ParseHasReason ==
    ASSUME Inv, NEW s \in Sides, Parse(s)
    PROVE  \/ Goto(s, "answer") \/ Goto(s, "answer_next")
           \/ Goto(s, "failed") /\ Reliable /\ ~ On(Peer(s))
<1>1. Types /\ On(s) /\ Piled(s) /\ pc[s] \in {"parse", "parse_next"}
  BY DEF Inv, Data, On, Parse
<1>2. PICK c, n, k : /\ c = Head(wc[s]) /\ n = PostRecvs(s, Refill(Left(s)))
                     /\ k = Recvs(Tail(Pile(s)))
  OBVIOUS
<1>3. /\ Counted(s, c) /\ k \in Nat
      /\ Recvs(Pile(s)) = k + (IF c.id = "RECV" THEN 1 ELSE 0)
  BY <1>1, <1>2, FirstOfPile
<1>4. ASSUME c.id = "RECV"
      PROVE  ~ (n < Refill(Left(s)))
  <2>1. routs[s] = rx[s] + (k + 1) /\ Cardinality(Qps) <= routs[s] /\ routs[s] <= RxDepth
    BY <1>1, <1>3, <1>4 DEF Piled
  <2>2. routs[s] = rx[s] + k + 1
    BY <1>1, <1>3, <2>1 DEF Types
  <2>3. n = Refill(Left(s)) /\ n \in Nat
    BY <1>1, <1>2, <1>3, <2>1, <2>2, RefillKeepsCredits
  <2> QED  BY <2>3
<1>5. CASE c.ok
  BY <1>2, <1>4, <1>5 DEF Parse
<1>6. CASE ~ c.ok
  BY <1>2, <1>3, <1>6 DEF Parse, Fail, Counted
<1> QED  BY <1>5, <1>6

\* An answer is always posted, and the program goes on.
LEMMA AnswerGoesOn ==
    ASSUME Inv, NEW s \in Sides, Answer(s)
    PROVE  \E x \in Loop : Goto(s, x) /\ prog' = prog /\ short' = short
<1>1. Types /\ On(s) /\ Piled(s) /\ pc[s] \in Parsing
  BY DEF Inv, Data, On, Answer, Parsing
<1>2. wc[s] # <<>> /\ wc[s] \in Seq(Completions)
  BY <1>1 DEF Piled, Types
<1>3. PICK i, x : i = Head(wc[s]).qp /\ x = AfterAnswer(s)
  OBVIOUS
<1>4. i \in Qps
  <2>1. Head(wc[s]) \in Completions
    BY <1>2, HeadTailProperties
  <2> QED  BY <1>3, <2>1 DEF Completions
<1>5. ~ (MayAnswer(s, i) /\ st[s][i] # "idle")
  BY <1>1, <1>4, AnswerFinds
<1>6. Goto(s, x) /\ prog' = prog /\ short' = short
  BY <1>3, <1>5 DEF Answer, setupVars
<1>7. x \in {"parse", "next_poll", "event", "poll", "close"}
  <2>1. PICK y : y = LoopTop(scnt[s], rcnt[s])
    OBVIOUS
  <2>2. y \in {"event", "poll", "close"}
    BY <2>1, LoopTops
  <2>3. x = "parse" \/ x = "next_poll" \/ x = y
    BY <1>3, <2>1 DEF AfterAnswer
  <2> QED  BY <2>2, <2>3
<1> QED  BY <1>6, <1>7 DEF Loop, Parsing

\* rc_pingpong -t -e: a poll after an event may find nothing and fail.
StartPollMayFail == prog = "rc_ts" /\ use_event

\* The processes never fail without a reason, unless ibv_start_poll may.
LEMMA RunKeepsReasons ==
    ASSUME Inv, FailuresExplained, ~ StartPollMayFail, NEW s \in Sides, Run(s)
    PROVE  FailuresExplained'
<1>1. Types
  BY DEF Inv
<1> DEFINE Labels == Opening \cup Loop \cup {"failed"}
           Moves(x) == /\ x \in Labels /\ Goto(s, x) /\ prog' = prog
                       /\ short' = short \/ short' = short + 1
                       /\ x = "failed" => short' > 0 \/ (Reliable /\ ~ On(Peer(s)))
<1>2. SUFFICES On(s) /\ \E x : Moves(x)
  BY <1>1, GoKeepsReasons
<1>3. On(s)
  BY DEF Run, On, At, WriteMsg, ReadMsg, ReadClosed, Connect, Start, GetEvent, Poll,
         PollNothing, NextPoll, Parse, Answer, Close
<1>4. CASE WriteMsg(s) \/ ReadMsg(s) \/ Connect(s)
  <2>1. PICK x : x = After(s, pc[s])
    OBVIOUS
  <2>2. Goto(s, x) /\ prog' = prog /\ short' = short
    BY <1>4, <2>1 DEF WriteMsg, ReadMsg, Connect, At
  <2>3. /\ pc[s] \in {"write_addr", "write_done", "read_addr", "read_done", "connect"}
        /\ pc["client"] # "read_done" /\ pc["server"] # "write_done"
    BY <1>1, <1>4 DEF WriteMsg, ReadMsg, Connect, At, Types
  <2>4. x \in {"read_addr", "write_done", "connect", "start", "write_addr", "read_done"}
    BY <2>1, <2>3, Scripts DEF Sides
  <2>5. x \in Labels /\ x # "failed"
    BY <2>4 DEF Opening
  <2> QED  BY <1>3, <2>2, <2>5
<1>5. CASE ReadClosed(s)
  <2>1. Goto(s, "failed") /\ prog' = prog /\ short' = short
    BY <1>5 DEF ReadClosed, Fail, setupVars
  <2>2. short > 0 \/ (Reliable /\ ~ On(Peer(s)))
    BY <1>5, ClosedHasReason
  <2> QED  BY <1>3, <2>1, <2>2
<1>6. CASE Start(s) \/ NextPoll(s)
  <2>1. PICK y, z : y = LoopTop(0, 0) /\ z = LoopTop(scnt[s], rcnt[s])
    OBVIOUS
  <2>2. y \in {"event", "poll", "close"} /\ z \in {"event", "poll", "close"}
    BY <2>1, LoopTops
  <2>3. /\ Goto(s, y) \/ Goto(s, z) \/ Goto(s, "parse_next")
        /\ prog' = prog /\ short' = short
    BY <1>6, <2>1 DEF Start, NextPoll, Take, setupVars
  <2>4. {"event", "poll", "close", "parse_next"} \subseteq Labels \ {"failed"}
    BY DEF Loop, Parsing
  <2> QED  BY <1>3, <2>2, <2>3, <2>4
<1>7. CASE GetEvent(s) \/ Poll(s) \/ PollNothing(s) \/ Close(s)
  <2>1. /\ Goto(s, "poll") \/ Goto(s, "parse") \/ Goto(s, "event") \/ Goto(s, "ended")
        /\ prog' = prog /\ short' = short
    BY <1>7 DEF GetEvent, Poll, PollNothing, Close, Take, StartPollMayFail, setupVars
  <2>2. {"event", "poll", "parse", "ended"} \subseteq Labels \ {"failed"}
    BY DEF Loop, Parsing
  <2> QED  BY <1>3, <2>1, <2>2
<1>8. CASE Parse(s)
  <2>1. \/ Goto(s, "answer") \/ Goto(s, "answer_next")
        \/ Goto(s, "failed") /\ Reliable /\ ~ On(Peer(s))
    BY <1>8, ParseHasReason
  <2>2. prog' = prog /\ short' = short
    BY <1>8 DEF Parse, Fail, setupVars
  <2>3. {"answer", "answer_next"} \subseteq Labels \ {"failed"}
    BY DEF Loop, Parsing
  <2> QED  BY <1>3, <2>1, <2>2, <2>3
<1>9. CASE Answer(s)
  <2>1. PICK x \in Loop : Goto(s, x) /\ prog' = prog /\ short' = short
    BY <1>9, AnswerGoesOn
  <2>2. x \in Labels /\ x # "failed"
    BY DEF Loop, Parsing
  <2> QED  BY <1>3, <2>1, <2>2
<1> QED  BY <1>4, <1>5, <1>6, <1>7, <1>8, <1>9 DEF Run

\* No step changes the program or its options.
LEMMA SameProgram ==
    ASSUME [Next]_vars
    PROVE  prog' = prog /\ use_event' = use_event
<1>1. ASSUME NEW s \in Sides, Run(s)
      PROVE  prog' = prog /\ use_event' = use_event
  <2>1. CASE WriteMsg(s) \/ ReadMsg(s) \/ ReadClosed(s) \/ Connect(s) \/ Start(s)
    BY <2>1 DEF WriteMsg, ReadMsg, ReadClosed, Connect, Start, Fail
  <2>2. CASE GetEvent(s) \/ Poll(s) \/ PollNothing(s) \/ NextPoll(s)
    BY <2>2 DEF GetEvent, Poll, Take, PollNothing, NextPoll, Fail
  <2>3. CASE Parse(s) \/ Answer(s) \/ Close(s)
    BY <2>3 DEF Parse, Answer, Close, Fail
  <2> QED  BY <1>1, <2>1, <2>2, <2>3 DEF Run
<1>2. ASSUME NEW s \in Sides, Adapter(s) \/ Mishap(s)
      PROVE  prog' = prog /\ use_event' = use_event
  <2>1. CASE Adapter(s)
    BY <2>1 DEF Adapter, Deliver, SendDone, Transmit, Arrive, Complete
  <2>2. CASE Mishap(s)
    BY <2>2 DEF Mishap, ReadShort, LoseAck, LoseDatagram
  <2> QED  BY <1>2, <2>1, <2>2
<1>3. CASE Terminating \/ UNCHANGED vars
  BY <1>3 DEF Terminating, vars
<1> QED  BY <1>1, <1>2, <1>3 DEF Next

\* Every step keeps the reasons.
LEMMA NextKeepsReasons ==
    ASSUME Inv, StartPollMayFail \/ FailuresExplained, [Next]_vars
    PROVE  (StartPollMayFail \/ FailuresExplained)'
<1>1. prog' = prog /\ use_event' = use_event
  BY SameProgram
<1>2. CASE StartPollMayFail
  BY <1>1, <1>2 DEF StartPollMayFail
<1>3. CASE ~ StartPollMayFail
  <2>1. FailuresExplained /\ Types
    BY <1>3 DEF Inv
  <2>2. ASSUME NEW s \in Sides, Run(s)
        PROVE  FailuresExplained'
    BY <1>3, <2>1, <2>2, RunKeepsReasons
  <2>3. ASSUME NEW s \in Sides, ReadShort(s)
        PROVE  FailuresExplained'
    <3>1. /\ short \in Nat /\ short' = short + 1 /\ On(s) /\ pc[s] \in Opening
          /\ UNCHANGED pc \/ Goto(s, "failed")
      BY <2>1, <2>3 DEF ReadShort, Types, On, Opening
    <3>2. Goto(s, pc[s]) \/ Goto(s, "failed")
      BY <2>1, <3>1 DEF Goto, Types
    <3>3. short' > 0
      BY <3>1
    <3> QED  BY <1>1, <2>1, <3>1, <3>2, <3>3, GoKeepsReasons
  <2>4. ASSUME NEW s \in Sides, Adapter(s)
        PROVE  FailuresExplained'
    BY <2>1, <2>4, StayKeepsReasons DEF Adapter, Deliver, SendDone, Transmit, Arrive, Complete, setupVars
  <2>5. ASSUME NEW s \in Sides, LoseDatagram(s) \/ \E i \in Qps : LoseAck(s, i)
        PROVE  FailuresExplained'
    BY <2>1, <2>5, StayKeepsReasons DEF LoseDatagram, LoseAck, setupVars
  <2>6. CASE Terminating \/ UNCHANGED vars
    BY <2>1, <2>6, StayKeepsReasons DEF Terminating, vars, setupVars
  <2> QED  BY <2>2, <2>3, <2>4, <2>5, <2>6 DEF Next, Mishap
<1> QED  BY <1>2, <1>3

\* main returns 1 only when a read of the exchange came short, or when the
\* peer has gone before the last sends were acknowledged: FailuresExplained,
\* of every program and option but rc_pingpong -t -e.
THEOREM FailuresAreExplained == Spec => [](StartPollMayFail \/ FailuresExplained)
<1>1. Init => StartPollMayFail \/ FailuresExplained
  BY DEF Init, FailuresExplained, At
<1>2. Inv /\ (StartPollMayFail \/ FailuresExplained) /\ [Next]_vars
        => (StartPollMayFail \/ FailuresExplained)'
  BY NextKeepsReasons
<1> QED  BY <1>1, <1>2, InvInvariant, PTL DEF Spec

----------------------------------------------------------------------------
\* Every queue pair carries a ping-pong.

\* The round trip of queue pair i begins with nothing sent and nothing received.
LEMMA TripInit ==
    ASSUME Init, NEW i \in 0 .. NumQp - 1
    PROVE  Trip(i)!Init
<1>1. i \in Qps => sent["client"][i] = 0 /\ sent["server"][i] = 0
                   /\ got["client"][i] = 0 /\ got["server"][i] = 0
  BY DEF Init, Sides
<1> QED  BY <1>1 DEF Trip!Init

\* What a step does to the round trip of queue pair i: nothing, a message that
\* is up to s, or a receive of the message of its peer.
Rests(i) == \A s \in Sides : sent'[s][i] = sent[s][i] /\ got'[s][i] = got[s][i]
Speaks(s, i) ==
    /\ Turn(s, i) /\ sent'[s][i] = sent[s][i] + 1 /\ sent'[Peer(s)][i] = sent[Peer(s)][i]
    /\ \A q \in Sides : got'[q][i] = got[q][i]
Hears(s, i) ==
    /\ Message(Peer(s), i) /\ got'[s][i] = got[s][i] + 1 /\ got'[Peer(s)][i] = got[Peer(s)][i]
    /\ \A q \in Sides : sent'[q][i] = sent[q][i]

\* Each of them is a step of a ping-pong, or none.
LEMMA TripStep ==
    ASSUME Types, NEW i, prog' = prog,
           i \in Qps => Rests(i) \/ \E s \in Sides : Speaks(s, i) \/ Hears(s, i)
    PROVE  Trip(i)!Next \/ UNCHANGED Trip(i)!vars
<1>1. Qps' = Qps
  BY DEF Qps
<1>2. CASE i \notin Qps
  BY <1>1, <1>2 DEF Trip!vars
<1>3. CASE i \in Qps
  <2>1. /\ sent["client"][i] \in Nat /\ sent["server"][i] \in Nat
        /\ got["client"][i] \in Nat /\ got["server"][i] \in Nat
    BY <1>3 DEF Types, Sides
  <2> DEFINE f == [r \in {0, 1} |-> LET s == IF r = 0 THEN "client" ELSE "server"
                                    IN IF i \in Qps THEN sent[s][i] ELSE 0]
             g == [r \in {0, 1} |-> LET s == IF r = 0 THEN "client" ELSE "server"
                                    IN IF i \in Qps THEN got[s][i] ELSE 0]
  <2>2. /\ f = [r \in {0, 1} |-> f[r]] /\ g = [r \in {0, 1} |-> g[r]]
        /\ f' = [r \in {0, 1} |-> f'[r]] /\ g' = [r \in {0, 1} |-> g'[r]]
    BY <1>1
  <2>3. /\ f[0] = sent["client"][i] /\ f[1] = sent["server"][i]
        /\ g[0] = got["client"][i] /\ g[1] = got["server"][i]
    BY <1>3
  <2>4. /\ f'[0] = sent'["client"][i] /\ f'[1] = sent'["server"][i]
        /\ g'[0] = got'["client"][i] /\ g'[1] = got'["server"][i]
    BY <1>1, <1>3
  <2>5. /\ Trip(i)!Ping <=> f[0] = g[0] /\ f' = [f EXCEPT ![0] = @ + 1] /\ g' = g
        /\ Trip(i)!Pong <=> f[1] < g[1] /\ f' = [f EXCEPT ![1] = @ + 1] /\ g' = g
        /\ Trip(i)!Receive(0) <=> g[0] < f[1 - 0] /\ g' = [g EXCEPT ![0] = @ + 1] /\ f' = f
        /\ Trip(i)!Receive(1) <=> g[1] < f[1 - 1] /\ g' = [g EXCEPT ![1] = @ + 1] /\ f' = f
        /\ UNCHANGED Trip(i)!vars <=> f' = f /\ g' = g
    BY DEF Trip!Ping, Trip!Pong, Trip!Receive, Trip!vars
  <2> HIDE DEF f, g
  <2>6. CASE Rests(i)
    <3>1. f'[0] = f[0] /\ f'[1] = f[1] /\ g'[0] = g[0] /\ g'[1] = g[1]
      BY <2>3, <2>4, <2>6 DEF Rests, Sides
    <3> QED  BY <2>2, <2>5, <3>1
  <2>7. CASE Speaks("client", i)
    <3>1. f[0] = g[0] /\ f'[0] = f[0] + 1 /\ f'[1] = f[1] /\ g'[0] = g[0] /\ g'[1] = g[1]
      BY <2>3, <2>4, <2>7 DEF Speaks, Turn, Peer, Sides
    <3>2. Trip(i)!Ping
      BY <2>2, <2>5, <3>1
    <3> QED  BY <3>2 DEF Trip!Next
  <2>8. CASE Speaks("server", i)
    <3>1. f[1] < g[1] /\ f'[1] = f[1] + 1 /\ f'[0] = f[0] /\ g'[0] = g[0] /\ g'[1] = g[1]
      BY <2>3, <2>4, <2>8 DEF Speaks, Turn, Peer, Sides
    <3>2. Trip(i)!Pong
      BY <2>2, <2>5, <3>1
    <3> QED  BY <3>2 DEF Trip!Next
  <2>9. CASE Hears("client", i)
    <3>1. f[1] = g[0] + 1 /\ g'[0] = g[0] + 1 /\ g'[1] = g[1] /\ f'[0] = f[0] /\ f'[1] = f[1]
      BY <2>3, <2>4, <2>9 DEF Hears, Message, Peer, Sides
    <3>2. g[0] < f[1 - 0]
      BY <2>1, <2>3, <3>1
    <3>3. Trip(i)!Receive(0)
      BY <2>2, <2>5, <3>1, <3>2
    <3> QED  BY <3>3 DEF Trip!Next
  <2>10. CASE Hears("server", i)
    <3>1. f[0] = g[1] + 1 /\ g'[1] = g[1] + 1 /\ g'[0] = g[0] /\ f'[0] = f[0] /\ f'[1] = f[1]
      BY <2>3, <2>4, <2>10 DEF Hears, Message, Peer, Sides
    <3>2. g[1] < f[1 - 1]
      BY <2>1, <2>3, <3>1
    <3>3. Trip(i)!Receive(1)
      BY <2>2, <2>5, <3>1, <3>2
    <3> QED  BY <3>3 DEF Trip!Next
  <2> QED  BY <1>3, <2>6, <2>7, <2>8, <2>9, <2>10 DEF Sides
<1> QED  BY <1>2, <1>3

\* parse_single_wc counts a receive once, of a message that was sent.
LEMMA ParseTrips ==
    ASSUME Inv, NEW s \in Sides, Parse(s), NEW i \in Qps
    PROVE  Rests(i) \/ Hears(s, i)
<1>1. Types /\ Piled(s) /\ pc[s] \in {"parse", "parse_next"}
  BY DEF Inv, Data, On, Parse
<1>2. PICK c, j : c = Head(wc[s]) /\ j = c.qp
  OBVIOUS
<1>3. Counted(s, c) /\ j \in Qps
  BY <1>1, <1>2, FirstOfPile
<1>4. CASE UNCHANGED <<sent, got>>
  BY <1>4 DEF Rests
<1>5. CASE ~ UNCHANGED <<sent, got>>
  <2>1. c.id = "RECV" /\ sent' = sent /\ got' = [got EXCEPT ![s][j] = @ + 1]
    BY <1>2, <1>5 DEF Parse, Fail, history
  <2>2. got \in [Sides -> [Qps -> Nat]]
    BY <1>1 DEF Types
  <2>3. /\ got'[s][j] = got[s][j] + 1 /\ \A k \in Qps \ {j} : got'[s][k] = got[s][k]
        /\ \A q \in Sides \ {s} : got'[q] = got[q]
    BY <1>3, <2>1, <2>2
  <2>4. Message(Peer(s), j)
    BY <1>2, <1>3, <2>1 DEF Counted
  <2>5. CASE i = j
    BY <2>1, <2>3, <2>4, <2>5, Peers DEF Hears
  <2>6. CASE i # j
    BY <2>1, <2>3, <2>6 DEF Rests
  <2> QED  BY <2>5, <2>6
<1> QED  BY <1>4, <1>5

\* An answer is sent when it is the turn of its side.
LEMMA AnswerTrips ==
    ASSUME Inv, NEW s \in Sides, Answer(s), NEW i \in Qps
    PROVE  Rests(i) \/ Speaks(s, i)
<1>1. Types /\ Piled(s) /\ pc[s] \in Parsing
  BY DEF Inv, Data, On, Answer, Parsing
<1>2. PICK j : j = Head(wc[s]).qp
  OBVIOUS
<1>3. j \in Qps
  <2>1. wc[s] # <<>> /\ wc[s] \in Seq(Completions)
    BY <1>1 DEF Piled, Types
  <2>2. Head(wc[s]) \in Completions
    BY <2>1, HeadTailProperties
  <2> QED  BY <1>2, <2>2 DEF Completions
<1>4. CASE UNCHANGED <<sent, got>>
  BY <1>4 DEF Rests
<1>5. CASE ~ UNCHANGED <<sent, got>>
  <2>1. MayAnswer(s, j) /\ got' = got /\ sent' = [sent EXCEPT ![s][j] = @ + 1]
    BY <1>2, <1>5 DEF Answer, Fail, history
  <2>2. sent \in [Sides -> [Qps -> Nat]]
    BY <1>1 DEF Types
  <2>3. /\ sent'[s][j] = sent[s][j] + 1 /\ \A k \in Qps \ {j} : sent'[s][k] = sent[s][k]
        /\ \A q \in Sides \ {s} : sent'[q] = sent[q]
    BY <1>3, <2>1, <2>2
  <2>4. Turn(s, j)
    BY <1>1, <1>3, <2>1, AnswerFinds
  <2>5. CASE i = j
    BY <2>1, <2>3, <2>4, <2>5, Peers DEF Speaks
  <2>6. CASE i # j
    BY <2>1, <2>3, <2>6 DEF Rests
  <2> QED  BY <2>5, <2>6
<1> QED  BY <1>4, <1>5

\* The client opens every queue pair.
LEMMA StartTrips ==
    ASSUME Inv, NEW s \in Sides, Start(s), NEW i \in Qps
    PROVE  Rests(i) \/ Speaks(s, i)
<1>1. Types /\ Queued(s, i) /\ pc[s] \in Opening
  BY DEF Inv, Data, Start, At, Opening
<1>2. CASE s = "client"
  <2>1. sent' = [sent EXCEPT ![s] = [j \in Qps |-> 1]] /\ got' = got
    BY <1>2 DEF Start
  <2>2. sent \in [Sides -> [Qps -> Nat]]
    BY <1>1 DEF Types
  <2>3. sent'[s][i] = 1 /\ \A q \in Sides \ {s} : sent'[q] = sent[q]
    BY <2>1, <2>2
  <2>4. sent[s][i] = 0 /\ got[s][i] = 0
    BY <1>1 DEF Queued
  <2> QED  BY <1>2, <2>1, <2>3, <2>4, Peers DEF Speaks, Turn
<1>3. CASE s # "client"
  BY <1>3 DEF Start, Rests
<1> QED  BY <1>2, <1>3

\* Every step is a step of each of the ping-pongs, or leaves it alone.
LEMMA NextTrips ==
    ASSUME Inv, [Next]_vars, NEW i \in Qps
    PROVE  Rests(i) \/ \E s \in Sides : Speaks(s, i) \/ Hears(s, i)
<1>1. ASSUME NEW s \in Sides, Run(s)
      PROVE  Rests(i) \/ Speaks(s, i) \/ Hears(s, i)
  <2>1. CASE WriteMsg(s) \/ ReadMsg(s) \/ ReadClosed(s) \/ Connect(s)
    BY <2>1 DEF WriteMsg, ReadMsg, ReadClosed, Connect, Fail, history, Rests
  <2>2. CASE Start(s)
    BY <2>2, StartTrips
  <2>3. CASE GetEvent(s) \/ Poll(s) \/ PollNothing(s) \/ NextPoll(s) \/ Close(s)
    BY <2>3 DEF GetEvent, Poll, PollNothing, NextPoll, Close, Take, Fail, history, Rests
  <2>4. CASE Parse(s)
    BY <2>4, ParseTrips
  <2>5. CASE Answer(s)
    BY <2>5, AnswerTrips
  <2> QED  BY <1>1, <2>1, <2>2, <2>3, <2>4, <2>5 DEF Run
<1>2. ASSUME NEW s \in Sides, Adapter(s) \/ Mishap(s)
      PROVE  Rests(i)
  <2>1. CASE Adapter(s)
    BY <2>1 DEF Adapter, Deliver, SendDone, Transmit, Arrive, Complete, history, Rests
  <2>2. CASE Mishap(s)
    BY <2>2 DEF Mishap, ReadShort, LoseDatagram, LoseAck, history, Rests
  <2> QED  BY <1>2, <2>1, <2>2
<1>3. CASE Terminating \/ UNCHANGED vars
  BY <1>3 DEF Terminating, vars, history, Rests
<1> QED  BY <1>1, <1>2, <1>3 DEF Next

\* Every queue pair carries a ping-pong, whatever the interleaving of its
\* completions, for every number of queue pairs and iterations, in all five
\* programs and with any number of losses: IsPingPong.
THEOREM CarriesPingPong == Spec => IsPingPong
<1>1. Init => \A i \in 0 .. NumQp - 1 : Trip(i)!Init
  BY TripInit
<1>2. Inv /\ [Next]_vars
        => [\A i \in 0 .. NumQp - 1 : Trip(i)!Next \/ UNCHANGED Trip(i)!vars]_vars
  <2> SUFFICES ASSUME Inv, [Next]_vars, NEW i \in 0 .. NumQp - 1
               PROVE  Trip(i)!Next \/ UNCHANGED Trip(i)!vars
    OBVIOUS
  <2>1. Types /\ prog' = prog
    BY SameProgram DEF Inv
  <2>2. i \in Qps => Rests(i) \/ \E s \in Sides : Speaks(s, i) \/ Hears(s, i)
    BY NextTrips
  <2> QED  BY <2>1, <2>2, TripStep
<1> QED  BY <1>1, <1>2, InvInvariant, PTL DEF Spec, IsPingPong

=============================================================================
