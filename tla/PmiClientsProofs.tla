-------------------------- MODULE PmiClientsProofs --------------------------
(***************************************************************************)
(* The PMI1 and the PMI2 client library, for every number of ranks: the    *)
(* types, that a call reads the answers to its own requests, that a        *)
(* barrier holds the ranks until all have entered it, that a lookup after  *)
(* it finds what was published before it, and that a call fails only for   *)
(* a reason outside the library.                                           *)
(*                                                                         *)
(* Answers carry nothing that says whose they are, so the second rests on  *)
(* what is on the way between a rank and the manager: at most one message, *)
(* a request, a request the manager holds, or an answer, and it belongs to *)
(* the one exchange in progress. The invariant Wire says this, rank by     *)
(* rank, for as long as no call without a lock has met another call there  *)
(* (the ranks in mixed); it needs the mutex, which keeps the exchanges of  *)
(* PMI2 functions apart, the phases of a client, which keep every other    *)
(* call out of PMI_Init and PMI2_Init, and the one way to leave a request  *)
(* unanswered, the command of PMI_Spawn_multiple that is given up halfway. *)
(*                                                                         *)
(* A step of one rank cannot disturb another's part; only the manager      *)
(* touches several ranks at once, when it answers a barrier. The actions   *)
(* of the program's calls are all entries (CallsBegin), and one lemma      *)
(* serves them.                                                            *)
(*                                                                         *)
(* A PMI1 process without a manager is a job of its own: no manager and no *)
(* wire to share, only the mpiexec it may start. The invariant Apart says  *)
(* so, and says in which order that mpiexec is started, accepted and       *)
(* spoken to; each property follows from Wire or from Apart.               *)
(***************************************************************************)
EXTENDS PmiClients, SequenceTheorems, TLAPS

\* The functions a call can be of.
Ops ==
    LockFree \cup Barriers \cup Publications \cup
    {None, "PMI_Init", "PMI_Finalize", "PMI_Get_universe_size", "PMI_Get_appnum", "PMI_Abort",
     "lcm_pm_getname", "PMI_Publish_name", "PMI_Unpublish_name", "PMI_Lookup_name",
     "PMI_Spawn_multiple", "PMI2_KVS_Get", "PMI2_Info_GetNodeAttr",
     "PMI2_Info_GetNodeAttrIntArray", "PMI2_Info_PutNodeAttr", "PMI2_Info_GetJobAttr",
     "PMI2_Info_GetJobAttrIntArray", "PMI2_Nameserv_publish", "PMI2_Nameserv_lookup",
     "PMI2_Nameserv_unpublish"}

\* Calls and answers.
CallRec == [op : Ops, key : Keys, val : Nat, todo : Seq(Cmds),
            at : {"idle", "lock", "write", "read", "body", "done"},
            res : Outcomes, got : Nat, own : BOOLEAN, due : Nat]
Answers == [cmd : Cmds, rc : Nat, val : Nat, by : Threads]

\* The state of the process manager.
Managers == [up : BOOLEAN, lazy : BOOLEAN, kvs : [Keys -> Nat],
             in : [Ranks -> Requests \cup {None}], due : SUBSET Keys, names : BOOLEAN,
             attr : BOOLEAN, mid : SUBSET Ranks, refusals : Nat]

\* The types of all variables in a job that has a process manager, or whose
\* client does not start one.
Types ==
    /\ TypeOK
    /\ world.api = "pmi1" => world.env # "none"
    /\ fd \in [Ranks -> {"none", "open", "closed"}]
    /\ inited \in [Ranks -> {"no", "single", "pm"}]
    /\ world.api = "pmi1" => inited \in [Ranks -> {"no", "pm"}]
    /\ call \in [Ranks -> [Threads -> CallRec]]
    /\ req \in [Ranks -> Seq(Requests)]
    /\ ans \in [Ranks -> Seq(Answers)]
    /\ pm \in Managers
    /\ mixed \subseteq Ranks
    /\ pub \in [Ranks -> [val : Nat, at : Nat]]

\* The manager holds a request of rank r that it has not answered: a lazy
\* fence is answered at once.
Unanswered(r) == pm.in[r] # None /\ ~(pm.lazy /\ pm.in[r].cmd = "barrier")

\* The manager waits for the rest of a command that PMI_Spawn_multiple gave
\* up: it answers nothing.
Silent(r) == r \in pm.mid \/ (req[r] # <<>> /\ req[r][1].cmd = "spawn-part")

\* Nothing is on the way between rank r and the manager.
Quiet(r) == req[r] = <<>> /\ ans[r] = <<>> /\ ~Unanswered(r)

\* Message m belongs to the exchange a thread of rank r is in.
For(r, m) == OnWire(r, m.by) /\ m.cmd = Head(call[r][m.by].todo)

\* PMI1 has one thread; a PMI2 function that locks holds the mutex from its
\* first exchange to its end.
Locks(r) ==
    /\ world.api = "pmi1" => ~InCall(r, "helper") /\ call[r]["main"].at # "body"
    /\ world.api = "pmi2" =>
          \A t \in Threads : call[r][t].at \in {"write", "read", "body", "done"}
                                /\ call[r][t].op \notin LockFree => mutex[r] = t

\* The function that connects.
InitOp == IF world.api = "pmi1" THEN "PMI_Init" ELSE "PMI2_Init"

\* What is on the way fits the state of the socket.
Socket(r) ==
    /\ phase[r] = "new" => /\ ~InCall(r, "helper")
                           /\ ~InCall(r, "main") => fd[r] = "none"
                           /\ InCall(r, "main") => call[r]["main"].op = InitOp
    /\ fd[r] = "none" => Quiet(r) /\ stream[r] = None
    /\ ~pm.up => req[r] = <<>> /\ pm.in[r] = None
    /\ stream[r] \in Threads => world.api = "pmi2" /\ ans[r] # <<>>

\* One message at most is on the way, a request, a request the manager holds
\* or an answer, and it belongs to the exchange in progress.
Pending(r) ==
    /\ req[r] # <<>> =>
          Len(req[r]) = 1 /\ ans[r] = <<>> /\ ~Unanswered(r) /\ For(r, req[r][1])
    /\ Unanswered(r) => ans[r] = <<>> /\ For(r, pm.in[r])
    /\ ans[r] # <<>> => Len(ans[r]) = 1 /\ For(r, ans[r][1])

\* One thread at most is in an exchange, and an answer half read is its own.
Exchange(r) ==
    /\ \A t, u \in Threads : OnWire(r, t) /\ OnWire(r, u) => t = u
    /\ \A t \in Threads : call[r][t].at = "body" =>
          stream[r] = t /\ ans[r] # <<>> /\ ans[r][1].by = t
    /\ fd[r] # "closed" =>
          /\ stream[r] # None => stream[r] \in Threads /\ call[r][stream[r]].at = "body"
          /\ Pending(r) \/ (Silent(r) /\ ans[r] = <<>> /\ ~Unanswered(r))

\* No call has read an answer to another's request.
Own(r) == stream[r] # "broken" /\ \A t \in Threads : call[r][t].own

\* The barriers a rank has left are behind those it has entered.
Counts(r) ==
    /\ left[r] <= entered[r]
    /\ \A t \in Threads : InCall(r, t) /\ call[r][t].op \in Barriers =>
          t = "main" /\ left[r] < entered[r]

\* Rank r's part of the invariant; the exchanges of a rank are in order until
\* a call without a lock meets another one.
Local(r) ==
    /\ Locks(r) /\ Socket(r) /\ Counts(r)
    /\ r \notin mixed => (Alive(r) => Exchange(r)) /\ Own(r)

\* The invariant.
Wire == Types /\ \A r \in Ranks : Local(r)

\* The functions that look up a name, and the commands that are neither a
\* barrier nor about names.
Gets == {"lcm_pm_getname", "PMI2_KVS_Get"}
PlainCmds == Cmds \ {"barrier", "put", "get"}

\* The function that closes the connection.
FinalOp == IF world.api = "pmi1" THEN "PMI_Finalize" ELSE "PMI2_Finalize"

\* Which threads call a function: the second one comes after the first barrier
\* and never while the library is finalized.
Allowed(r, t, op) ==
    /\ t = "helper" => /\ entered[r] >= 1 /\ op # FinalOp
                       /\ ~(InCall(r, "main") /\ call[r]["main"].op = FinalOp)
    /\ op = FinalOp => ~InCall(r, "helper")

\* What the commands of a function are, and when the program calls it.
Exchanges(r, t, op, todo, key) ==
    \/ op \notin Barriers \cup Publications \cup Gets /\ todo \in Seq(PlainCmds)
    \/ /\ op \in Barriers /\ t = "main" /\ pub[r].at # 0
       /\ \/ todo = <<"barrier">>
          \/ todo = <<>> /\ world.api = "pmi1" /\ inited[r] # "pm"
    \/ /\ op \in Publications /\ t = "main" /\ pub[r].at = 0 /\ key \in lcm_pm_get_rank(r)
       /\ \/ todo = <<"put">> /\ world.api = "pmi2"
          \/ todo = <<"my_kvsname", "put">> /\ world.api = "pmi1"
    \/ op \in Gets /\ todo \in {<<"get">>, <<"my_kvsname", "get">>}

\* A function of the library is entered; what the invariants need to know
\* of its arguments.
Entry(r, t, op, todo, key, val, first, conn) ==
    /\ t \in Threads /\ op \in Ops /\ todo \in Seq(Cmds) /\ key \in Keys /\ val \in Nat
    /\ first \in {"lock", "write"} /\ conn \in {"none", "open", "closed"}
    /\ \/ /\ phase[r] = "new" /\ t = "main" /\ op = InitOp /\ conn \in {"none", "open"}
          /\ conn = "open" => world.env # "none"
          /\ conn = "none" => world.env # "fd"
       \/ phase[r] = "ready" /\ conn = fd[r] /\ op # InitOp
    /\ world.api = "pmi1" => t = "main" /\ first = "write"
    /\ world.api = "pmi2" => \/ op \in LockFree /\ first = "write"
                             \/ op \notin LockFree /\ first = "lock" /\ todo # <<>>
    /\ Exchanges(r, t, op, todo, key) /\ Allowed(r, t, op)
    /\ Enter(r, t, op, todo, key, val, first, conn)

\* Some function is entered.
Begins(r) ==
    \E t \in Threads, op \in Ops, todo \in Seq(Cmds), key \in Keys, val \in Nat,
       first \in {"lock", "write"}, conn \in {"none", "open", "closed"} :
          Entry(r, t, op, todo, key, val, first, conn)

\* An entry with any arguments is one.
LEMMA EntryBegins ==
    ASSUME NEW r, NEW t, NEW op, NEW todo, NEW key, NEW val, NEW first, NEW conn,
           Entry(r, t, op, todo, key, val, first, conn)
    PROVE  Begins(r)
BY DEF Begins, Entry

\* Lists of one and two commands.
LEMMA CmdSeqs ==
    /\ <<>> \in Seq(Cmds)
    /\ \A c \in Cmds : <<c>> \in Seq(Cmds) /\ <<c>> # <<>>
    /\ \A c, d \in Cmds : <<c, d>> \in Seq(Cmds) /\ <<c, d>> # <<>>
    /\ \A c, d \in Cmds : <<c>> \o <<d>> = <<c, d>>
    /\ \A c \in Cmds : <<>> \o <<c>> = <<c>>
<1>1. \A c, d \in Cmds : <<c, d>> \in Seq(Cmds) /\ <<c, d>> # <<>>
  OBVIOUS
<1>2. \A c \in Cmds : <<c>> \in Seq(Cmds) /\ <<c>> # <<>>
  OBVIOUS
<1>3. ASSUME NEW c \in Cmds, NEW d \in Cmds  PROVE <<c>> \o <<d>> = <<c, d>>
  <2> DEFINE s == <<c>> \o <<d>>
             u == <<c, d>>
  <2>1. s \in Seq(Cmds) /\ Len(s) = 2 /\ s[1] = c /\ s[2] = d
    OBVIOUS
  <2>2. u \in Seq(Cmds) /\ Len(u) = 2 /\ u[1] = c /\ u[2] = d
    BY <1>1
  <2> HIDE DEF s, u
  <2>3. s = u
    BY <2>1, <2>2, SeqEqual
  <2> QED  BY <2>3 DEF s, u
<1>4. \A c \in Cmds : <<>> \o <<c>> = <<c>>
  OBVIOUS
<1> QED  BY <1>1, <1>2, <1>3, <1>4

\* Ranks are keys; the rank of a process is one.
LEMMA KeyTypes ==
    /\ Ranks \subseteq Keys /\ Ranks \subseteq Nat /\ 0 \in Ranks /\ NRanks - 1 \in Ranks
    /\ Types => \A r \in Ranks : /\ fd[r] \in {"none", "open", "closed"}
                                 /\ lcm_pm_get_rank(r) \subseteq Ranks
<1>1. /\ Ranks \subseteq Keys /\ Ranks \subseteq Nat /\ 0 \in Ranks /\ NRanks - 1 \in Ranks
  BY RanksAssumption, UniverseAssumption DEF Ranks, Keys
<1>2. ASSUME Types, NEW r \in Ranks  PROVE fd[r] \in {"none", "open", "closed"}
  BY <1>2 DEF Types, TypeOK
<1>3. ASSUME NEW r \in Ranks  PROVE lcm_pm_get_rank(r) \subseteq Ranks
  BY <1>1, <1>3 DEF lcm_pm_get_rank, PMI2_Job_GetRank
<1> QED  BY <1>1, <1>2, <1>3

\* The first thread may call any function that does not finalize.
LEMMA AllowedMain ==
    ASSUME NEW r, NEW op, op # FinalOp
    PROVE  Allowed(r, "main", op)
BY DEF Allowed

\* A call of a PMI1 function is an entry.
LEMMA CallBegins1 ==
    ASSUME Types, world.api = "pmi1", NEW r \in Ranks, NEW op \in Ops \ {"PMI_Init"},
           NEW todo \in Seq(Cmds), NEW key \in Keys, NEW val \in Nat,
           Exchanges(r, "main", op, todo, key), Allowed(r, "main", op),
           Call(r, "main", op, todo, key, val, "write")
    PROVE  Begins(r)
<1>1. Entry(r, "main", op, todo, key, val, "write", fd[r])
  BY KeyTypes DEF Entry, Call, Threads, InitOp
<1> QED  BY <1>1, EntryBegins

\* A PMI1 function with one exchange.
LEMMA AskBegins ==
    ASSUME Types, world.api = "pmi1", NEW r \in Ranks, NEW op \in Ops \ {"PMI_Init"},
           NEW cmd \in PlainCmds, op \notin Barriers \cup Publications \cup Gets, Ask(r, op, cmd),
           Allowed(r, "main", op)
    PROVE  Begins(r)
<1> DEFINE todo == IF WithManager(r) THEN <<cmd>> ELSE <<>>
<1>a. <<cmd>> \in Seq(PlainCmds) /\ <<>> \in Seq(PlainCmds)
  OBVIOUS
<1>b. cmd \in Cmds
  BY DEF PlainCmds
<1>1. todo \in Seq(PlainCmds) /\ todo \in Seq(Cmds)
  BY <1>a, <1>b, CmdSeqs
<1>2. Call(r, "main", op, todo, 0, 0, "write")
  BY DEF Ask
<1> HIDE DEF todo
<1>3. Exchanges(r, "main", op, todo, 0)
  BY <1>1 DEF Exchanges
<1> QED  BY <1>1, <1>2, <1>3, CallBegins1, KeyTypes

\* A PMI2 function that locks.
LEMMA LockedBegins ==
    ASSUME Types, world.api = "pmi2", NEW r \in Ranks, NEW t \in Threads, NEW op \in Ops,
           op \notin LockFree, NEW cmd \in Cmds, NEW key \in Keys, NEW val \in Nat,
           Exchanges(r, t, op, <<cmd>>, key), Allowed(r, t, op),
           Locked(r, t, op, cmd, key, val)
    PROVE  Begins(r)
<1>1. Entry(r, t, op, <<cmd>>, key, val, "lock", fd[r])
  BY KeyTypes, CmdSeqs DEF Entry, Locked, Call, InitOp, LockFree
<1> QED  BY <1>1, EntryBegins

\* A PMI2 function that takes no lock.
LEMMA PlainBegins ==
    ASSUME Types, world.api = "pmi2", NEW r \in Ranks, NEW t \in Threads,
           NEW op \in LockFree \ {"PMI2_Init"}, NEW todo \in Seq(PlainCmds), NEW val \in Nat,
           Plain(r, t, op, todo, val), Allowed(r, t, op)
    PROVE  Begins(r)
<1>1. op \in Ops /\ op \notin Barriers \cup Publications \cup Gets
  BY DEF Ops, LockFree, Barriers, Publications, Gets
<1>2. todo \in Seq(Cmds)
  BY DEF PlainCmds
<1>3. Entry(r, t, op, todo, 0, val, "write", fd[r])
  BY <1>1, <1>2, KeyTypes DEF Entry, Plain, Call, Exchanges, InitOp
<1> QED  BY <1>3, EntryBegins

\* A client that is no singleton has its manager: nothing is started.
LEMMA Promoted ==
    ASSUME Types, world.api = "pmi1", NEW r \in Ranks, NEW op, NEW todo \in Seq(Cmds),
           NEW key, NEW val, Promote(r, op, todo, key, val)
    PROVE  Call(r, "main", op, todo, key, val, "write")
<1>1. inited[r] # "single"
  BY DEF Types
<1>2. <<>> \o todo = todo
  OBVIOUS
<1>3. PMIi_InitIfSingleton(r) \o todo = todo
  BY <1>1, <1>2 DEF PMIi_InitIfSingleton
<1> QED  BY <1>1, <1>3 DEF Promote

\* Every call of the wrapper is an entry.
LEMMA Begin1 ==
    ASSUME Types, world.api = "pmi1", NEW r \in Ranks, WrapperCall(r)
    PROVE  Begins(r)
<1>0. inited[r] \in {"no", "pm"}
  BY DEF Types
<1>1. CASE lcm_pm_initialize(r)
  <2>1. PICK conn \in getPMIFD :
           /\ phase[r] = "new"
           /\ Enter(r, "main", "PMI_Init",
                    IF conn = "open" THEN world.hello \o PMII_getmaxes ELSE <<>>,
                    0, 0, "write", conn)
    BY <1>1 DEF lcm_pm_initialize, PMI_Init
  <2> DEFINE todo == IF conn = "open" THEN world.hello \o PMII_getmaxes ELSE <<>>
  <2>2. todo \in Seq(PlainCmds)
    <3>1. {"initack", "tv_ready", "init", "get_maxes"} \subseteq PlainCmds
      BY DEF Cmds, Queries, PlainCmds
    <3>2. <<"init", "get_maxes">> \in Seq(PlainCmds) /\ <<>> \in Seq(PlainCmds)
      BY <3>1
    <3>3. world.hello \in Hellos
      BY DEF Types, TypeOK, Worlds
    <3>4. world.hello \in Seq(PlainCmds)
      <4>1. /\ <<>> \in Seq(PlainCmds) /\ <<"initack">> \in Seq(PlainCmds)
            /\ <<"tv_ready">> \in Seq(PlainCmds)
            /\ <<"initack", "tv_ready">> \in Seq(PlainCmds)
        BY <3>1
      <4> QED  BY <3>3, <4>1, Zenon DEF Hellos, Unasked
    <3>5. world.hello \o <<"init", "get_maxes">> \in Seq(PlainCmds)
      BY <3>2, <3>4
    <3> QED  BY <3>2, <3>5 DEF PMII_getmaxes
  <2>3. Enter(r, "main", "PMI_Init", todo, 0, 0, "write", conn)
    BY <2>1
  <2> HIDE DEF todo
  <2>4. todo \in Seq(Cmds)
    BY <2>2 DEF PlainCmds
  <2>5. "PMI_Init" \in Ops /\ "PMI_Init" \notin Barriers \cup Publications \cup Gets
    BY DEF Ops, Barriers, Publications, Gets
  <2>6. /\ conn \in {"none", "open"}
        /\ conn = "open" => world.env # "none"
        /\ conn = "none" => world.env # "fd"
        /\ Allowed(r, "main", "PMI_Init")
    <3>1. world.env \in {"fd", "port", "none"}
      BY DEF Types, TypeOK, Worlds
    <3> QED  BY <3>1, AllowedMain DEF getPMIFD, PMII_Connect_to_pm, FinalOp
  <2>7. Exchanges(r, "main", "PMI_Init", todo, 0)
    BY <2>2, <2>5 DEF Exchanges
  <2>8. Entry(r, "main", "PMI_Init", todo, 0, 0, "write", conn)
    BY <2>1, <2>3, <2>4, <2>5, <2>6, <2>7, KeyTypes DEF Entry, Threads, InitOp
  <2> QED  BY <2>8, EntryBegins
<1>2. ASSUME NEW val \in Lengths, Publish(r, val)  PROVE Begins(r)
  <2> DEFINE todo == PMI_KVS_Get_my_name(r) \o PMI_KVS_Put(r)
  <2>1. {"my_kvsname", "put"} \subseteq Cmds
    BY DEF Cmds, Queries
  <2>2. todo = <<"my_kvsname", "put">>
    BY <1>0, <2>1, CmdSeqs DEF PMI_KVS_Get_my_name, PMI_KVS_Put, Singleton
  <2>3. PICK key \in lcm_pm_get_rank(r) :
           Call(r, "main", "lcm_pm_publish", todo, key, val, "write")
    BY <1>2 DEF Publish, lcm_pm_publish
  <2> HIDE DEF todo
  <2>4. todo \in Seq(Cmds) /\ pub[r].at = 0
    BY <1>2, <2>1, <2>2, CmdSeqs DEF Publish
  <2>5. "lcm_pm_publish" \in Ops /\ "lcm_pm_publish" \in Publications
    BY DEF Ops, Publications
  <2>6. Exchanges(r, "main", "lcm_pm_publish", todo, key)
    BY <2>2, <2>3, <2>4, <2>5 DEF Exchanges
  <2>7. val \in Nat /\ key \in Keys /\ Allowed(r, "main", "lcm_pm_publish")
    BY LengthsAssumption, KeyTypes, AllowedMain DEF FinalOp
  <2> QED  BY <2>3, <2>4, <2>5, <2>6, <2>7, CallBegins1
<1>3. ASSUME NEW key \in Keys, GetName(r, key)  PROVE Begins(r)
  <2> DEFINE todo == PMI_KVS_Get_my_name(r) \o PMI_KVS_Get
  <2>1. {"my_kvsname", "get"} \subseteq Cmds
    BY DEF Cmds, Queries
  <2>2. todo = <<"my_kvsname", "get">>
    BY <1>0, <2>1, CmdSeqs DEF PMI_KVS_Get_my_name, PMI_KVS_Get, Singleton
  <2>3. Promote(r, "lcm_pm_getname", todo, key, 0)
    BY <1>3 DEF GetName, lcm_pm_getname
  <2> HIDE DEF todo
  <2>4. todo \in Seq(Cmds)
    BY <2>1, <2>2, CmdSeqs
  <2>5. "lcm_pm_getname" \in Ops /\ "lcm_pm_getname" \in Gets
    BY DEF Ops, Gets
  <2>6. Exchanges(r, "main", "lcm_pm_getname", todo, key)
    BY <2>2, <2>5 DEF Exchanges
  <2>7. Allowed(r, "main", "lcm_pm_getname")
    BY AllowedMain DEF FinalOp
  <2>8. Call(r, "main", "lcm_pm_getname", todo, key, 0, "write")
    BY <2>3, <2>4, Promoted
  <2> QED  BY <2>4, <2>5, <2>6, <2>7, <2>8, CallBegins1
<1>4. CASE lcm_pm_barrier(r)
  <2> DEFINE todo == IF WithManager(r) THEN <<"barrier">> ELSE <<>>
  <2>1. "barrier" \in Cmds
    BY DEF Cmds, Collective
  <2>2. pub[r].at # 0 /\ Call(r, "main", "PMI_Barrier", todo, 0, 0, "write")
    BY <1>4 DEF lcm_pm_barrier, PMI_Barrier, Ask
  <2>3. todo = <<"barrier">> \/ (todo = <<>> /\ inited[r] # "pm")
    BY DEF WithManager
  <2> HIDE DEF todo
  <2>4. todo \in Seq(Cmds)
    BY <2>1, <2>3, CmdSeqs
  <2>5. "PMI_Barrier" \in Ops /\ "PMI_Barrier" \in Barriers
    BY DEF Ops, Barriers
  <2>6. Exchanges(r, "main", "PMI_Barrier", todo, 0)
    BY <2>2, <2>3, <2>5 DEF Exchanges
  <2>7. Allowed(r, "main", "PMI_Barrier")
    BY AllowedMain DEF FinalOp
  <2> QED  BY <2>2, <2>4, <2>5, <2>6, <2>7, KeyTypes, CallBegins1
<1>5. CASE lcm_pm_finalize(r)
  <2>1. "finalize" \in PlainCmds
    BY DEF PlainCmds, Cmds, Queries
  <2>2. "PMI_Finalize" \in Ops /\ "PMI_Finalize" \notin Barriers \cup Publications \cup Gets
    BY DEF Ops, Barriers, Publications, Gets
  <2>3. Allowed(r, "main", "PMI_Finalize")
    BY <1>5 DEF lcm_pm_finalize, Allowed, Threads
  <2> QED  BY <1>5, <2>1, <2>2, <2>3, AskBegins DEF lcm_pm_finalize, PMI_Finalize
<1>6. CASE lcm_pm_get_size(r)
  <2> DEFINE todo == IF inited[r] \in {"single", "pm"} THEN <<"universe_size">> ELSE <<>>
  <2>1. "universe_size" \in PlainCmds
    BY DEF PlainCmds, Cmds, Queries
  <2>2. <<"universe_size">> \in Seq(PlainCmds) /\ <<>> \in Seq(PlainCmds)
    BY <2>1
  <2>3. todo \in Seq(PlainCmds)
    BY <2>2
  <2>4. Promote(r, "PMI_Get_universe_size", todo, 0, 0)
    BY <1>6 DEF lcm_pm_get_size, PMI_Get_universe_size
  <2> HIDE DEF todo
  <2>5. todo \in Seq(Cmds)
    BY <2>3 DEF PlainCmds
  <2>6. /\ "PMI_Get_universe_size" \in Ops
        /\ "PMI_Get_universe_size" \notin Barriers \cup Publications \cup Gets
        /\ Allowed(r, "main", "PMI_Get_universe_size")
    BY AllowedMain DEF Ops, Barriers, Publications, Gets, FinalOp
  <2>7. Exchanges(r, "main", "PMI_Get_universe_size", todo, 0)
    BY <2>3, <2>6 DEF Exchanges
  <2>8. Call(r, "main", "PMI_Get_universe_size", todo, 0, 0, "write")
    BY <2>4, <2>5, Promoted
  <2> QED  BY <2>5, <2>6, <2>7, <2>8, KeyTypes, CallBegins1
<1> QED  BY <1>1, <1>2, <1>3, <1>4, <1>5, <1>6 DEF WrapperCall

\* Every call of the wrapper over PMI2 is an entry.
LEMMA Begin2 ==
    ASSUME Types, world.api = "pmi2", NEW r \in Ranks, WrapperCall(r)
    PROVE  Begins(r)
<1>1. CASE lcm_pm_initialize(r)
  <2>1. PICK conn \in getPMIFD :
           /\ phase[r] = "new"
           /\ Enter(r, "main", "PMI2_Init",
                    IF conn = "open" THEN <<"init", "fullinit">> ELSE <<>>, 0, 0, "write", conn)
    BY <1>1 DEF lcm_pm_initialize, PMI2_Init
  <2> DEFINE todo == IF conn = "open" THEN <<"init", "fullinit">> ELSE <<>>
  <2>2. todo \in Seq(Cmds)
    <3>1. {"init", "fullinit"} \subseteq Cmds
      BY DEF Cmds, Queries
    <3>2. <<"init", "fullinit">> \in Seq(Cmds)
      BY <3>1, CmdSeqs
    <3> QED  BY <3>2, CmdSeqs
  <2>3. todo \in Seq(PlainCmds)
    <3>1. {"init", "fullinit"} \subseteq PlainCmds
      BY DEF Cmds, Queries, PlainCmds
    <3>2. <<"init", "fullinit">> \in Seq(PlainCmds) /\ <<>> \in Seq(PlainCmds)
      BY <3>1
    <3> QED  BY <3>2
  <2>4. Enter(r, "main", "PMI2_Init", todo, 0, 0, "write", conn)
    BY <2>1
  <2> HIDE DEF todo
  <2>5. /\ "PMI2_Init" \in Ops /\ "PMI2_Init" \in LockFree
        /\ "PMI2_Init" \notin Barriers \cup Publications \cup Gets
    BY DEF Ops, LockFree, Barriers, Publications, Gets
  <2>6. /\ conn \in {"none", "open"}
        /\ conn = "open" => world.env # "none"
        /\ conn = "none" => world.env # "fd"
        /\ Allowed(r, "main", "PMI2_Init")
    <3>1. world.env \in {"fd", "port", "none"}
      BY DEF Types, TypeOK, Worlds
    <3> QED  BY <3>1, AllowedMain DEF getPMIFD, PMII_Connect_to_pm, FinalOp
  <2>7. Exchanges(r, "main", "PMI2_Init", todo, 0)
    BY <2>3, <2>5 DEF Exchanges
  <2>8. Entry(r, "main", "PMI2_Init", todo, 0, 0, "write", conn)
    BY <2>1, <2>2, <2>4, <2>5, <2>6, <2>7, KeyTypes DEF Entry, Threads, InitOp
  <2> QED  BY <2>8, EntryBegins
<1>2. ASSUME NEW val \in Lengths, Publish(r, val)  PROVE Begins(r)
  <2>1. "put" \in Cmds /\ "main" \in Threads
    BY DEF Cmds, Threads
  <2>2. /\ "PMI2_KVS_Put" \in Ops /\ "PMI2_KVS_Put" \in Publications
        /\ "PMI2_KVS_Put" \notin LockFree
    BY DEF Ops, Publications, LockFree
  <2>3. PICK key \in lcm_pm_get_rank(r) :
           pub[r].at = 0 /\ Locked(r, "main", "PMI2_KVS_Put", "put", key, val)
    BY <1>2 DEF Publish, PMI2_KVS_Put
  <2>4. Exchanges(r, "main", "PMI2_KVS_Put", <<"put">>, key)
    BY <2>2, <2>3 DEF Exchanges
  <2>5. val \in Nat /\ key \in Keys /\ Allowed(r, "main", "PMI2_KVS_Put")
    BY LengthsAssumption, KeyTypes, AllowedMain DEF FinalOp
  <2> QED  BY <2>1, <2>2, <2>3, <2>4, <2>5, LockedBegins
<1>3. ASSUME NEW key \in Keys, GetName(r, key)  PROVE Begins(r)
  <2>1. "get" \in Cmds /\ "main" \in Threads
    BY DEF Cmds, Threads
  <2>2. "PMI2_KVS_Get" \in Ops /\ "PMI2_KVS_Get" \in Gets /\ "PMI2_KVS_Get" \notin LockFree
    BY DEF Ops, Gets, LockFree
  <2>3. Locked(r, "main", "PMI2_KVS_Get", "get", key, 0)
    BY <1>3 DEF GetName, PMI2_KVS_Get
  <2>4. Exchanges(r, "main", "PMI2_KVS_Get", <<"get">>, key)
    BY <2>2 DEF Exchanges
  <2>5. Allowed(r, "main", "PMI2_KVS_Get")
    BY AllowedMain DEF FinalOp
  <2> QED  BY <2>1, <2>2, <2>3, <2>4, <2>5, LockedBegins
<1>4. CASE lcm_pm_barrier(r)
  <2>1. "barrier" \in Cmds /\ "main" \in Threads
    BY DEF Cmds, Collective, Threads
  <2>2. /\ "PMI2_KVS_Fence" \in Ops /\ "PMI2_KVS_Fence" \in Barriers
        /\ "PMI2_KVS_Fence" \notin LockFree
    BY DEF Ops, Barriers, LockFree
  <2>3. pub[r].at # 0 /\ Locked(r, "main", "PMI2_KVS_Fence", "barrier", 0, 0)
    BY <1>4 DEF lcm_pm_barrier, PMI2_KVS_Fence
  <2>4. Exchanges(r, "main", "PMI2_KVS_Fence", <<"barrier">>, 0)
    BY <2>2, <2>3 DEF Exchanges
  <2>5. Allowed(r, "main", "PMI2_KVS_Fence")
    BY AllowedMain DEF FinalOp
  <2> QED  BY <2>1, <2>2, <2>3, <2>4, <2>5, KeyTypes, LockedBegins
<1>5. CASE lcm_pm_finalize(r)
  <2> DEFINE todo == IF inited[r] = "pm" THEN <<"finalize">> ELSE <<>>
  <2>1. "finalize" \in PlainCmds /\ "main" \in Threads
    BY DEF PlainCmds, Cmds, Queries, Threads
  <2>2. "PMI2_Finalize" \in LockFree
    BY DEF LockFree
  <2>3. <<"finalize">> \in Seq(PlainCmds) /\ <<>> \in Seq(PlainCmds)
    BY <2>1
  <2>4. todo \in Seq(PlainCmds)
    BY <2>3
  <2>5. Plain(r, "main", "PMI2_Finalize", todo, 0)
    BY <1>5 DEF lcm_pm_finalize, PMI2_Finalize
  <2>6. Allowed(r, "main", "PMI2_Finalize")
    BY <1>5 DEF lcm_pm_finalize, Allowed, Threads
  <2> HIDE DEF todo
  <2> QED  BY <2>1, <2>2, <2>4, <2>5, <2>6, PlainBegins
<1> QED  BY <1>1, <1>2, <1>3, <1>4, <1>5 DEF WrapperCall, lcm_pm_get_size

\* So is every call of another function.
LEMMA BeginOther1 ==
    ASSUME Types, world.api = "pmi1", Other1
    PROVE  Begins(0)
<1>0. 0 \in Ranks
  BY KeyTypes
<1>1. /\ {"PMI_Get_appnum", "PMI_Abort", "PMI_Publish_name",
          "PMI_Unpublish_name", "PMI_Lookup_name", "PMI_Spawn_multiple"} \subseteq Ops
      /\ {"PMI_Get_appnum", "PMI_Abort", "PMI_Publish_name",
          "PMI_Unpublish_name", "PMI_Lookup_name", "PMI_Spawn_multiple"}
            \cap (Barriers \cup Publications \cup Gets) = {}
      /\ \A op \in {"PMI_Get_appnum", "PMI_Abort", "PMI_Publish_name",
                     "PMI_Unpublish_name", "PMI_Lookup_name", "PMI_Spawn_multiple"} :
            Allowed(0, "main", op)
  BY AllowedMain DEF Ops, Barriers, Publications, Gets, FinalOp
<1>2. {"appnum", "abort", "publish", "unpublish", "lookup", "spawn",
       "spawn-part"} \subseteq PlainCmds
  BY DEF PlainCmds, Cmds, Queries
<1>3. CASE \/ PMI_Get_appnum(0) \/ PMI_Publish_name(0)
           \/ PMI_Unpublish_name(0) \/ PMI_Lookup_name(0)
  BY <1>0, <1>1, <1>2, <1>3, AskBegins
     DEF PMI_Get_appnum, PMI_Publish_name, PMI_Unpublish_name,
         PMI_Lookup_name
<1>4. ASSUME NEW op \in {"PMI_Abort", "PMI_Spawn_multiple"}, NEW todo \in Seq(PlainCmds),
             NEW val \in Nat, Call(0, "main", op, todo, 0, val, "write")
      PROVE  Begins(0)
  <2>1. Exchanges(0, "main", op, todo, 0)
    BY <1>1 DEF Exchanges
  <2>2. todo \in Seq(Cmds)
    BY DEF PlainCmds
  <2> QED  BY <1>0, <1>1, <1>4, <2>1, <2>2, CallBegins1, KeyTypes
<1>5. CASE PMI_Abort(0)
  <2>1. <<"abort">> \in Seq(PlainCmds)
    BY <1>2
  <2> QED  BY <1>4, <1>5, <2>1 DEF PMI_Abort
<1>6. ASSUME NEW fits \in {SpawnFits, SpawnFirstPieceTooLong, SpawnLaterPieceTooLong},
             PMI_Spawn_multiple(0, fits)
      PROVE  Begins(0)
  <2> DEFINE todo == CASE fits = SpawnFits -> <<"spawn">>
                       [] fits = SpawnFirstPieceTooLong -> <<>>
                       [] fits = SpawnLaterPieceTooLong -> <<"spawn-part">>
  <2>1. /\ <<"spawn">> \in Seq(PlainCmds) /\ <<>> \in Seq(PlainCmds)
        /\ <<"spawn-part">> \in Seq(PlainCmds)
    BY <1>2
  <2>2. todo \in Seq(PlainCmds) /\ fits \in Nat
    BY <2>1 DEF SpawnFits, SpawnFirstPieceTooLong, SpawnLaterPieceTooLong
  <2>3. Promote(0, "PMI_Spawn_multiple", todo, 0, fits)
    BY <1>6 DEF PMI_Spawn_multiple
  <2> HIDE DEF todo
  <2>4. todo \in Seq(Cmds)
    BY <2>2 DEF PlainCmds
  <2>5. Call(0, "main", "PMI_Spawn_multiple", todo, 0, fits, "write")
    BY <1>0, <2>3, <2>4, Promoted
  <2> QED  BY <1>4, <2>2, <2>5
<1> QED  BY <1>3, <1>5, <1>6 DEF Other1

\* A PMI2 function that locks and is neither a barrier nor about names.
LEMMA LockedPlainBegins ==
    ASSUME Types, world.api = "pmi2", NEW r \in Ranks, NEW t \in Threads, NEW op \in Ops,
           op \notin LockFree \cup Barriers \cup Publications \cup Gets,
           NEW cmd \in PlainCmds, Locked(r, t, op, cmd, 0, 0), Allowed(r, t, op)
    PROVE  Begins(r)
<1>1. cmd \in Cmds
  BY DEF PlainCmds
<1>2. <<cmd>> \in Seq(PlainCmds)
  OBVIOUS
<1>3. Exchanges(r, t, op, <<cmd>>, 0)
  BY <1>2 DEF Exchanges
<1> QED  BY <1>1, <1>3, KeyTypes, LockedBegins

\* The other functions of PMI2, called by either thread.
LEMMA BeginOther2 ==
    ASSUME Types, world.api = "pmi2", entered[0] = 1, Other2 \/ OtherHelper
    PROVE  Begins(0)
<1>0. 0 \in Ranks /\ NRanks - 1 \in Keys /\ "main" \in Threads /\ "helper" \in Threads
  BY KeyTypes DEF Threads
<1>1. /\ {"PMI2_Info_GetNodeAttr", "PMI2_Info_GetNodeAttrIntArray", "PMI2_Info_PutNodeAttr",
          "PMI2_Info_GetJobAttr", "PMI2_Info_GetJobAttrIntArray", "PMI2_Nameserv_publish",
          "PMI2_Nameserv_lookup", "PMI2_Nameserv_unpublish"} \subseteq Ops
      /\ {"PMI2_Info_GetNodeAttr", "PMI2_Info_GetNodeAttrIntArray", "PMI2_Info_PutNodeAttr",
          "PMI2_Info_GetJobAttr", "PMI2_Info_GetJobAttrIntArray", "PMI2_Nameserv_publish",
          "PMI2_Nameserv_lookup", "PMI2_Nameserv_unpublish"}
            \cap (LockFree \cup Barriers \cup Publications \cup Gets) = {}
  BY DEF Ops, LockFree, Barriers, Publications, Gets
<1>9. /\ \A op \in Ops \ {FinalOp} : Allowed(0, "main", op)
      /\ OtherHelper => \A op \in Ops \ {FinalOp} : Allowed(0, "helper", op)
  <2>1. \A op \in Ops \ {FinalOp} : Allowed(0, "main", op)
    BY AllowedMain
  <2>2. ASSUME OtherHelper, NEW op \in Ops \ {FinalOp}  PROVE Allowed(0, "helper", op)
    <3>1. InCall(0, "main") /\ call[0]["main"].op # "PMI2_Finalize"
      BY <2>2 DEF OtherHelper
    <3> QED  BY <3>1 DEF Allowed, FinalOp
  <2> QED  BY <2>1, <2>2
<1>10. \A op \in {"PMI2_Info_GetNodeAttr", "PMI2_Info_GetNodeAttrIntArray",
                  "PMI2_Info_PutNodeAttr", "PMI2_Info_GetJobAttr",
                  "PMI2_Info_GetJobAttrIntArray", "PMI2_Nameserv_publish",
                  "PMI2_Nameserv_lookup", "PMI2_Nameserv_unpublish", "PMI2_KVS_Get",
                  "PMI2_Abort", "PMI2_Job_Spawn", "PMI2_Job_GetId", "PMI2_Job_Connect",
                  "PMI2_Job_Disconnect"} :
          /\ Allowed(0, "main", op)
          /\ OtherHelper => Allowed(0, "helper", op)
  BY <1>9 DEF Ops, LockFree, FinalOp
<1>2. {"publish", "unpublish", "lookup", "getjobattr", "getnodeattr", "getnodeattr-wait",
       "putnodeattr"} \subseteq PlainCmds
  BY DEF PlainCmds, Cmds, Queries
<1>3. ASSUME NEW waitfor \in BOOLEAN, PMI2_Info_GetNodeAttr(0, "main", waitfor)
      PROVE  Begins(0)
  <2> DEFINE cmd == IF waitfor THEN "getnodeattr-wait" ELSE "getnodeattr"
  <2>1. cmd \in PlainCmds
    BY <1>2
  <2>2. Locked(0, "main", "PMI2_Info_GetNodeAttr", cmd, 0, 0)
    BY <1>3 DEF PMI2_Info_GetNodeAttr
  <2> HIDE DEF cmd
  <2> QED  BY <1>0, <1>1, <1>10, <2>1, <2>2, LockedPlainBegins
<1>4. CASE \/ PMI2_Info_GetNodeAttrIntArray(0, "main")
           \/ PMI2_Info_GetJobAttr(0, "main") \/ PMI2_Info_GetJobAttrIntArray(0, "main")
           \/ PMI2_Nameserv_publish(0, "main") \/ PMI2_Nameserv_lookup(0, "main")
           \/ PMI2_Nameserv_unpublish(0, "main")
           \/ OtherHelper /\ PMI2_Info_PutNodeAttr(0, "helper")
  BY <1>0, <1>1, <1>2, <1>4, <1>10, LockedPlainBegins
     DEF PMI2_Info_GetNodeAttrIntArray, PMI2_Info_GetJobAttr, PMI2_Info_GetJobAttrIntArray,
         PMI2_Nameserv_publish, PMI2_Nameserv_lookup, PMI2_Nameserv_unpublish,
         PMI2_Info_PutNodeAttr
<1>5. CASE OtherHelper /\ PMI2_KVS_Get(0, "helper", NRanks - 1)
  <2>1. "get" \in Cmds
    BY DEF Cmds
  <2>2. "PMI2_KVS_Get" \in Ops /\ "PMI2_KVS_Get" \in Gets /\ "PMI2_KVS_Get" \notin LockFree
    BY DEF Ops, Gets, LockFree
  <2>3. Exchanges(0, "helper", "PMI2_KVS_Get", <<"get">>, NRanks - 1)
    BY <2>2 DEF Exchanges
  <2> QED  BY <1>0, <1>5, <1>10, <2>1, <2>2, <2>3, LockedBegins DEF PMI2_KVS_Get
<1>6. {"PMI2_Abort", "PMI2_Job_Spawn", "PMI2_Job_GetId", "PMI2_Job_Connect",
       "PMI2_Job_Disconnect"} \subseteq LockFree
  BY DEF LockFree
<1>7. /\ <<"abort">> \in Seq(PlainCmds) /\ <<"spawn">> \in Seq(PlainCmds)
      /\ <<"job-getid">> \in Seq(PlainCmds) /\ <<"job-connect">> \in Seq(PlainCmds)
      /\ <<"job-disconnect">> \in Seq(PlainCmds)
  <2>1. {"abort", "spawn", "job-getid", "job-connect", "job-disconnect"} \subseteq PlainCmds
    BY DEF PlainCmds, Cmds, Queries
  <2> QED  BY <2>1
<1>8. CASE \/ PMI2_Abort(0) \/ PMI2_Job_Connect(0, "main") \/ PMI2_Job_Disconnect(0, "main")
           \/ OtherHelper /\ PMI2_Job_GetId(0, "helper")
           \/ \E wanted \in {0, 1} : PMI2_Job_Spawn(0, "main", wanted)
  BY <1>0, <1>6, <1>7, <1>8, <1>10, PlainBegins
     DEF PMI2_Abort, PMI2_Job_Connect, PMI2_Job_Disconnect, PMI2_Job_GetId, PMI2_Job_Spawn
<1> QED  BY <1>3, <1>4, <1>5, <1>8 DEF Other2, OtherHelper

\* Every call of the program is an entry.
LEMMA CallsBegin ==
    ASSUME Types, NEW r \in Ranks,
           WrapperCall(r) \/ \E t \in Threads : OtherCall(r, t)
    PROVE  Begins(r) /\ r \notin mixed /\ others' \subseteq Ranks \X Threads
<1>1. world.api \in {"pmi1", "pmi2"}
  BY DEF Types, TypeOK, Worlds
<1>2. CASE WrapperCall(r)
  <2>1. Begins(r)
    BY <1>1, <1>2, Begin1, Begin2
  <2> QED  BY <1>2, <2>1 DEF WrapperCall, Types, TypeOK
<1>3. ASSUME NEW t \in Threads, OtherCall(r, t)
      PROVE  Begins(r) /\ r \notin mixed /\ others' \subseteq Ranks \X Threads
  <2>1. ASSUME world.api = "pmi2", PMIX_Ring(r)  PROVE Begins(r)
    <3> DEFINE todo == IF inited[r] = "single" THEN <<>> ELSE <<"ring">>
    <3>1. "ring" \in PlainCmds /\ "PMIX_Ring" \in LockFree /\ "main" \in Threads
      BY DEF PlainCmds, Cmds, Collective, LockFree, Threads
    <3>2. <<"ring">> \in Seq(PlainCmds) /\ <<>> \in Seq(PlainCmds)
      BY <3>1
    <3>3. todo \in Seq(PlainCmds)
      BY <3>2
    <3>4. Plain(r, "main", "PMIX_Ring", todo, 0)
      BY <2>1 DEF PMIX_Ring
    <3>5. Allowed(r, "main", "PMIX_Ring")
      BY AllowedMain DEF FinalOp
    <3> HIDE DEF todo
    <3> QED  BY <2>1, <3>1, <3>3, <3>4, <3>5, PlainBegins
  <2>2. ASSUME ~(world.api = "pmi2" /\ PMIX_Ring(r))  PROVE Begins(r)
    <3>1. \/ world.api = "pmi1" /\ r = 0 /\ Other1
          \/ world.api = "pmi2" /\ r = 0 /\ entered[0] = 1 /\ (Other2 \/ OtherHelper)
      BY <1>3, <2>2 DEF OtherCall
    <3> QED  BY <3>1, BeginOther1, BeginOther2
  <2>3. r \notin mixed /\ others' \subseteq Ranks \X Threads
    BY <1>3 DEF OtherCall, Types, TypeOK
  <2> QED  BY <2>1, <2>2, <2>3
<1> QED  BY <1>2, <1>3

-----------------------------------------------------------------------------
\* The state of a call in progress.
Busy(c) == c.at \in {"lock", "write", "read", "body"} <=> c.todo # <<>>

\* The messages on the way have their types.
LEMMA Messages ==
    ASSUME Types, NEW r \in Ranks
    PROVE  /\ req[r] \in Seq(Requests) /\ ans[r] \in Seq(Answers)
           /\ req[r] # <<>> => Len(req[r]) \in Nat \ {0} /\ req[r][1] \in Requests
           /\ ans[r] # <<>> => /\ Len(ans[r]) \in Nat \ {0} /\ ans[r][1] \in Answers
                               /\ Head(ans[r]) = ans[r][1]
           /\ pm.in[r] # None => pm.in[r] \in Requests
<1>1. req[r] \in Seq(Requests) /\ ans[r] \in Seq(Answers)
  BY DEF Types
<1>2. \A S : \A s \in Seq(S) : s # <<>> => Len(s) \in Nat \ {0} /\ s[1] \in S /\ Head(s) = s[1]
  OBVIOUS
<1>3. pm.in[r] \in Requests \cup {None}
  BY DEF Types, Managers
<1> QED  BY <1>1, <1>2, <1>3

\* One message less than one is none.
LEMMA TailOfOne ==
    ASSUME NEW S, NEW s \in Seq(S), s # <<>>, Len(s) = 1
    PROVE  Tail(s) = <<>>
<1> DEFINE u == Tail(s)
<1>1. u \in Seq(S) /\ Len(u) = 0
  BY HeadTailProperties
<1> HIDE DEF u
<1>2. u = <<>>
  BY <1>1, EmptySeq
<1> QED  BY <1>2 DEF u

\* The call of a thread has its type.
LEMMA CallType ==
    ASSUME Types, NEW r \in Ranks, NEW t \in Threads
    PROVE  call[r][t] \in CallRec /\ Busy(call[r][t])
<1>1. call[r][t] \in CallRec
  BY DEF Types
<1>2. Busy(call[r][t])
  BY <1>1 DEF Types, TypeOK, Busy, CallRec
<1> QED  BY <1>1, <1>2

\* A step that sets one call leaves the others alone.
LEMMA CallSet ==
    ASSUME Types, NEW r \in Ranks, NEW t \in Threads, NEW c \in CallRec, Busy(c),
           call' = [call EXCEPT ![r][t] = c]
    PROVE  /\ call' \in [Ranks -> [Threads -> CallRec]]
           /\ \A q \in Ranks, u \in Threads : Busy(call'[q][u])
           /\ call'[r][t] = c
           /\ \A u \in Threads \ {t} : call'[r][u] = call[r][u]
           /\ \A q \in Ranks \ {r} : call'[q] = call[q]
<1>1. call \in [Ranks -> [Threads -> CallRec]]
  BY DEF Types
<1>2. \A q \in Ranks, u \in Threads : Busy(call[q][u])
  BY CallType
<1> HIDE DEF Busy
<1> QED  BY <1>1, <1>2

\* Calls of their type that are under way while they have a command to exchange
\* satisfy the type invariant.
LEMMA BusyCalls ==
    ASSUME NEW c \in CallRec, Busy(c)
    PROVE  /\ c.res \in Outcomes
           /\ c.at \in {"lock", "fork", "accept", "write", "read", "body"} <=> c.todo # <<>>
BY DEF CallRec, Busy

\* An exchange that is over leaves a call that goes on or is done.
LEMMA OverType ==
    ASSUME NEW c \in CallRec, NEW outcome \in Outcomes, NEW rest \in Seq(Cmds)
    PROVE  LET d == Over(c, outcome, rest)
           IN  /\ d \in CallRec /\ Busy(d) /\ d.todo = rest
               /\ d.at \in {"write", "done"} /\ (d.at = "done" <=> rest = <<>>)
               /\ d.op = c.op /\ d.own = c.own /\ d.key = c.key /\ d.val = c.val
               /\ d.due = c.due /\ d.got = c.got
               /\ d.res = IF c.res = "ok" THEN outcome ELSE c.res
BY DEF Over, CallRec, Busy

\* No call in progress.
LEMMA IdleType == Idle \in CallRec /\ Busy(Idle)
<1>1. 0 \in Keys /\ None \in Ops /\ "ok" \in Outcomes
  BY KeyTypes DEF Ops, Outcomes
<1>2. <<>> \in Seq(Cmds)
  BY CmdSeqs
<1> QED  BY <1>1, <1>2 DEF Idle, CallRec, Busy

\* Nothing happens to rank q.
Same(q) ==
    /\ call'[q] = call[q] /\ req'[q] = req[q] /\ ans'[q] = ans[q] /\ fd'[q] = fd[q]
    /\ phase'[q] = phase[q] /\ mutex'[q] = mutex[q] /\ stream'[q] = stream[q]
    /\ (q \in mixed' <=> q \in mixed) /\ (q \in pm'.mid <=> q \in pm.mid)
    /\ pm'.in[q] = pm.in[q] /\ entered'[q] = entered[q] /\ left'[q] = left[q]

\* A rank nothing happens to keeps its part of the invariant.
LEMMA Frame ==
    ASSUME NEW q \in Ranks, Local(q), Same(q), UNCHANGED world, pm'.lazy = pm.lazy,
           pm'.up = pm.up
    PROVE  Local(q)'
<1>1. Unanswered(q)' <=> Unanswered(q)
  BY DEF Same, Unanswered
<1>2. Locks(q)'
  BY DEF Same, Locks, InCall, Local
<1>3. Socket(q)'
  BY <1>1 DEF Same, Socket, InCall, Local, Quiet, InitOp
<1>4. ASSUME q \notin mixed', Alive(q)', Exchange(q)  PROVE Exchange(q)'
  BY <1>1, <1>4 DEF Same, Exchange, OnWire, Pending, For, Silent
<1>5. Alive(q)' <=> Alive(q)
  BY DEF Same, Alive
<1>6. Own(q)' <=> Own(q)
  BY DEF Same, Own
<1>7. Counts(q)'
  BY DEF Same, Counts, InCall, Local
<1> QED  BY <1>2, <1>3, <1>4, <1>5, <1>6, <1>7 DEF Local, Same

\* A step of one rank: it is enough that this rank keeps its part.
LEMMA Elsewhere ==
    ASSUME Wire, NEW r \in Ranks, Types', Local(r)', \A q \in Ranks \ {r} : Same(q),
           UNCHANGED world, pm'.lazy = pm.lazy, pm'.up = pm.up
    PROVE  Wire'
<1>1. ASSUME NEW q \in Ranks \ {r}  PROVE Local(q)'
  BY Frame DEF Wire
<1> QED  BY <1>1 DEF Wire

\* A function is entered: nothing of it is on the way yet.
LEMMA EntryKeepsWire ==
    ASSUME Wire, NEW r \in Ranks, NEW t, NEW op, NEW todo, NEW key, NEW val, NEW first,
           NEW conn, Entry(r, t, op, todo, key, val, first, conn), r \notin mixed,
           others' \subseteq Ranks \X Threads
    PROVE  Wire'
<1> DEFINE c == [Idle EXCEPT !.op = op, !.todo = todo, !.key = key, !.val = val,
                             !.at = IF todo = <<>> THEN "done" ELSE first,
                             !.due = DueFor(r, key)]
<1>1. /\ Types /\ Local(r)
      /\ t \in Threads /\ op \in Ops /\ todo \in Seq(Cmds) /\ key \in Keys /\ val \in Nat
      /\ first \in {"lock", "write"} /\ conn \in {"none", "open", "closed"}
  BY DEF Wire, Entry
<1>2. DueFor(r, key) \in Nat
  <2>1. \A k \in Ranks : pub[k].val \in Nat
    BY <1>1 DEF Types
  <2> QED  BY <2>1 DEF DueFor
<1>3. /\ c \in CallRec /\ Busy(c)
      /\ c.op = op /\ c.todo = todo /\ c.own = TRUE
      /\ c.at = IF todo = <<>> THEN "done" ELSE first
  BY <1>1, <1>2, IdleType DEF CallRec, Idle, Busy
<1>4. call' = [call EXCEPT ![r][t] = c]
  BY DEF Entry, Enter
<1> HIDE DEF c
<1>5. /\ call' \in [Ranks -> [Threads -> CallRec]]
      /\ \A q \in Ranks, u \in Threads : Busy(call'[q][u])
      /\ call'[r][t] = c
      /\ \A u \in Threads \ {t} : call'[r][u] = call[r][u]
      /\ \A q \in Ranks \ {r} : call'[q] = call[q]
  BY <1>1, <1>3, <1>4, CallSet
<1>6. /\ UNCHANGED <<world, inited, phase, mutex, stream, mixed, left, pub, pm, req, ans>>
      /\ fd' = [fd EXCEPT ![r] = conn]
      /\ entered' = [entered EXCEPT ![r] = IF op \in Barriers THEN @ + 1 ELSE @]
      /\ op \in Barriers => entered[r] < MaxBarriers
      /\ Alive(r) /\ call[r][t].at = "idle"
  BY DEF Entry, Enter, managerVars, InCall
<1>7. fd'[r] = conn /\ \A q \in Ranks \ {r} : fd'[q] = fd[q]
  BY <1>1, <1>6 DEF Types, TypeOK
<1>8. Types'
  <2>1. fd' \in [Ranks -> {"none", "open", "closed"}]
    BY <1>1, <1>6 DEF Types, TypeOK
  <2>2. entered' \in [Ranks -> 0 .. MaxBarriers]
    BY <1>1, <1>6, BarriersAssumption DEF Types, TypeOK
  <2>3. \A q \in Ranks, u \in Threads :
           /\ call'[q][u].res \in Outcomes
           /\ call'[q][u].at \in {"lock", "fork", "accept", "write", "read", "body"}
                  <=> call'[q][u].todo # <<>>
    <3>1. ASSUME NEW q \in Ranks, NEW u \in Threads
          PROVE  call'[q][u] \in CallRec /\ Busy(call'[q][u])
      BY <1>5
    <3> QED  BY <3>1, BusyCalls
  <2>4. TypeOK'
    BY <1>1, <1>6, <2>1, <2>2, <2>3, SMTT(30) DEF Types, TypeOK
  <2> QED  BY <1>1, <1>5, <1>6, <2>1, <2>4, SMTT(30) DEF Types
<1>9. Locks(r)'
  <2>1. world.api = "pmi1" => t = "main" /\ first = "write"
    BY DEF Entry
  <2>2. world.api = "pmi2" => op \in LockFree \/ (first = "lock" /\ todo # <<>>)
    BY DEF Entry
  <2>3. CASE world.api = "pmi1"
    BY <1>1, <1>3, <1>5, <1>6, <2>1, <2>3 DEF Local, Locks, InCall, Threads
  <2>4. CASE world.api = "pmi2"
    BY <1>1, <1>3, <1>5, <1>6, <2>2, <2>4 DEF Local, Locks
  <2> QED  BY <1>6, <2>3, <2>4 DEF Locks
<1>10. \/ fd[r] = "none" /\ t = "main" /\ conn # "closed"
       \/ fd[r] = conn /\ phase[r] # "new"
  BY <1>1, <1>6 DEF Entry, Local, Socket, InCall
<1>11. Socket(r)'
  <2>1. Unanswered(r)' <=> Unanswered(r)
    BY <1>6 DEF Unanswered
  <2>2. fd[r] = "none" => Quiet(r) /\ stream[r] = None
    BY <1>1 DEF Local, Socket
  <2>3. fd[r] = "none" => Quiet(r)' /\ stream'[r] = None
    BY <1>6, <2>1, <2>2 DEF Quiet
  <2>4. fd'[r] = "none" => fd[r] = "none"
    BY <1>7, <1>10
  <2>5. (phase[r] = "new" => /\ ~InCall(r, "helper")
                             /\ ~InCall(r, "main") => fd[r] = "none"
                             /\ InCall(r, "main") => call[r]["main"].op = InitOp)'
    <3>1. phase[r] = "new" => ~InCall(r, "helper") /\ t = "main" /\ op = InitOp
      BY <1>1 DEF Local, Socket, Entry
    <3>2. InitOp' = InitOp
      BY <1>6 DEF InitOp
    <3> QED  BY <1>1, <1>3, <1>5, <1>6, <3>1, <3>2 DEF InCall, Threads
  <2> QED  BY <1>1, <1>6, <2>3, <2>4, <2>5 DEF Local, Socket
<1>12. Exchange(r)'
  <2>1. Exchange(r)
    BY <1>1, <1>6 DEF Local
  <2>2. \A u \in Threads : /\ OnWire(r, u)' <=> OnWire(r, u)
                           /\ call'[r][u].at = "body" <=> call[r][u].at = "body"
                           /\ OnWire(r, u) => call'[r][u] = call[r][u]
    BY <1>1, <1>3, <1>5, <1>6 DEF OnWire
  <2>3. Unanswered(r)' <=> Unanswered(r)
    BY <1>6 DEF Unanswered
  <2>4. Silent(r)' <=> Silent(r)
    BY <1>6 DEF Silent
  <2>5. Pending(r) => Pending(r)'
    <3>1. \A m : m.by \in Threads /\ For(r, m) => For(r, m)'
      BY <2>2 DEF For
    <3>2. /\ req[r] # <<>> => req[r][1].by \in Threads
          /\ pm.in[r] # None => pm.in[r].by \in Threads
          /\ ans[r] # <<>> => ans[r][1].by \in Threads
      BY <1>1, Messages DEF Requests, Answers
    <3> QED  BY <1>6, <2>3, <3>1, <3>2 DEF Pending, Unanswered
  <2>6. CASE fd[r] = conn /\ phase[r] # "new"
    BY <1>6, <1>7, <2>1, <2>2, <2>3, <2>4, <2>5, <2>6 DEF Exchange
  <2>7. CASE fd[r] = "none" /\ t = "main" /\ conn # "closed"
    BY <1>6, <1>7, <2>1, <2>2, <2>3, <2>4, <2>5, <2>7 DEF Exchange
  <2> QED  BY <1>10, <2>6, <2>7
<1>13. Own(r)'
  BY <1>1, <1>3, <1>5, <1>6 DEF Local, Own
<1>14. Counts(r)'
  <2>1. /\ entered[r] \in Nat /\ left[r] \in Nat /\ left'[r] = left[r]
        /\ entered'[r] = IF op \in Barriers THEN entered[r] + 1 ELSE entered[r]
    BY <1>1, <1>6, BarriersAssumption DEF Types, TypeOK
  <2>2. op \in Barriers => t = "main"
    BY DEF Entry, Exchanges, Barriers, Publications, Gets
  <2>3. Counts(r)
    BY <1>1 DEF Local
  <2>4. \A u \in Threads \ {t} : InCall(r, u)' <=> InCall(r, u)
    BY <1>5 DEF InCall
  <2>5. left'[r] <= entered'[r] /\ (op \in Barriers => left'[r] < entered'[r])
    BY <2>1, <2>3 DEF Counts
  <2>6. ASSUME NEW u \in Threads, InCall(r, u)', call'[r][u].op \in Barriers
        PROVE  u = "main" /\ left'[r] < entered'[r]
    <3>1. CASE u = t
      BY <1>3, <1>5, <2>2, <2>5, <2>6, <3>1
    <3>2. CASE u # t
      <4>1. InCall(r, u) /\ call[r][u].op \in Barriers
        BY <1>5, <2>4, <2>6, <3>2
      <4>2. u = "main" /\ left[r] < entered[r]
        BY <2>3, <4>1 DEF Counts
      <4> QED  BY <2>1, <4>2
    <3> QED  BY <3>1, <3>2
  <2> QED  BY <2>5, <2>6 DEF Counts
<1>15. Local(r)'
  BY <1>9, <1>11, <1>12, <1>13, <1>14 DEF Local
<1>16. \A q \in Ranks \ {r} : Same(q)
  BY <1>1, <1>5, <1>6, <1>7 DEF Same, Types, TypeOK
<1> QED  BY <1>6, <1>8, <1>15, <1>16, Elsewhere

\* What a step of a thread inside the library leaves alone.
StepTypes(r) ==
    /\ UNCHANGED <<world, fd, inited, entered, left, pub>>
    /\ others' \subseteq Ranks \X Threads

\* A step inside the library keeps the types.
LEMMA StepKeepsTypes ==
    ASSUME Types, NEW r \in Ranks, NEW t \in Threads, NEW c \in CallRec, Busy(c),
           call' = [call EXCEPT ![r][t] = c], StepTypes(r), UNCHANGED <<pm, phase>>,
           mutex' \in [Ranks -> Threads \cup {None}],
           stream' \in [Ranks -> Threads \cup {None, "broken"}],
           req' \in [Ranks -> Seq(Requests)], ans' \in [Ranks -> Seq(Answers)],
           mixed' \subseteq Ranks
    PROVE  Types'
<1>1. /\ call' \in [Ranks -> [Threads -> CallRec]]
      /\ \A q \in Ranks, u \in Threads : Busy(call'[q][u])
  BY CallSet
<1>2. \A q \in Ranks, u \in Threads :
         /\ call'[q][u].res \in Outcomes
         /\ call'[q][u].at \in {"lock", "fork", "accept", "write", "read", "body"}
                <=> call'[q][u].todo # <<>>
  <2>1. ASSUME NEW q \in Ranks, NEW u \in Threads
        PROVE  call'[q][u] \in CallRec /\ Busy(call'[q][u])
    BY <1>1
  <2> QED  BY <2>1, BusyCalls
<1>3. TypeOK'
  BY <1>2 DEF Types, TypeOK, StepTypes
<1> QED  BY <1>1, <1>3 DEF Types, StepTypes

\* The part of the invariant that a step leaves alone which changes neither
\* what the thread is doing for its caller nor the messages.
LEMMA StepKeepsCall ==
    ASSUME Wire, NEW r \in Ranks, NEW t \in Threads, NEW c \in CallRec, Busy(c),
           call' = [call EXCEPT ![r][t] = c], StepTypes(r), UNCHANGED <<pm, phase>>,
           call[r][t].at # "idle", c.at # "idle", c.op = call[r][t].op,
           c.at \in {"write", "read", "body", "done"},
           world.api = "pmi1" => c.at # "body"
    PROVE  /\ Counts(r)'
           /\ phase'[r] = "new" => /\ ~InCall(r, "helper")'
                                   /\ ~InCall(r, "main")' => fd'[r] = "none"
                                   /\ InCall(r, "main")' => call'[r]["main"].op = InitOp'
           /\ world.api = "pmi1" => Locks(r)'
           /\ world.api = "pmi2" /\ mutex' = mutex /\ call[r][t].at # "lock" => Locks(r)'
<1>1. /\ call'[r][t] = c
      /\ \A u \in Threads \ {t} : call'[r][u] = call[r][u]
      /\ Local(r)
  BY CallSet DEF Wire
<1>2. \A u \in Threads : /\ InCall(r, u)' <=> InCall(r, u)
                         /\ call'[r][u].op = call[r][u].op
  BY <1>1 DEF InCall
<1>3. Counts(r)'
  BY <1>1, <1>2 DEF Counts, Local, StepTypes
<1>4. InitOp' = InitOp
  BY DEF InitOp, StepTypes
<1>5. "main" \in Threads /\ "helper" \in Threads
  BY DEF Threads
<1>6. phase'[r] = "new" => /\ ~InCall(r, "helper")'
                           /\ ~InCall(r, "main")' => fd'[r] = "none"
                           /\ InCall(r, "main")' => call'[r]["main"].op = InitOp'
  BY <1>1, <1>2, <1>4, <1>5 DEF Local, Socket, StepTypes
<1>7. world.api = "pmi1" => Locks(r)'
  BY <1>1, <1>2, <1>5 DEF Local, Locks, StepTypes, InCall
<1>8. call[r][t].at \in {"idle", "lock", "write", "read", "body", "done"}
  BY DEF Wire, Types, CallRec
<1>9. world.api = "pmi2" /\ mutex' = mutex /\ call[r][t].at # "lock" => Locks(r)'
  BY <1>1, <1>2, <1>5, <1>8 DEF Local, Locks, StepTypes
<1> QED  BY <1>3, <1>6, <1>7, <1>9

\* A step of a thread that is in no exchange before or after it.
LEMMA OffWire ==
    ASSUME Wire, NEW r \in Ranks, NEW t \in Threads, NEW c \in CallRec, Busy(c),
           call' = [call EXCEPT ![r][t] = c], StepTypes(r),
           UNCHANGED <<pm, phase, req, ans, stream, mixed>>,
           call[r][t].at \in {"lock", "write"}, c.at \in {"write", "done"},
           c.op = call[r][t].op, c.own = call[r][t].own,
           Locks(r)', mutex' \in [Ranks -> Threads \cup {None}],
           \A q \in Ranks \ {r} : mutex'[q] = mutex[q]
    PROVE  Wire'
<1>1. /\ call'[r][t] = c
      /\ \A u \in Threads \ {t} : call'[r][u] = call[r][u]
      /\ \A q \in Ranks \ {r} : call'[q] = call[q]
      /\ Local(r) /\ Types
  BY CallSet, ZenonT(40) DEF Wire
<1>2. Types'
  BY <1>1, StepKeepsTypes DEF Types, TypeOK
<1>3. Unanswered(r)' <=> Unanswered(r)
  BY DEF Unanswered
<1>4. /\ Counts(r)'
      /\ phase'[r] = "new" => /\ ~InCall(r, "helper")'
                              /\ ~InCall(r, "main")' => fd'[r] = "none"
                              /\ InCall(r, "main")' => call'[r]["main"].op = InitOp'
  BY StepKeepsCall
<1>5. Socket(r)'
  BY <1>1, <1>3, <1>4 DEF Local, Socket, Quiet, StepTypes
<1>6. ASSUME Exchange(r)  PROVE Exchange(r)'
  <2>1. \A u \in Threads : /\ OnWire(r, u)' <=> OnWire(r, u)
                           /\ call'[r][u].at = "body" <=> call[r][u].at = "body"
                           /\ OnWire(r, u) => call'[r][u] = call[r][u]
    BY <1>1 DEF OnWire
  <2>2. Silent(r)' <=> Silent(r)
    BY DEF Silent
  <2>3. Pending(r) => Pending(r)'
    <3>1. \A m : m.by \in Threads /\ For(r, m) => For(r, m)'
      BY <2>1 DEF For
    <3>2. /\ req[r] # <<>> => req[r][1].by \in Threads
          /\ pm.in[r] # None => pm.in[r].by \in Threads
          /\ ans[r] # <<>> => ans[r][1].by \in Threads
      BY <1>1, Messages DEF Requests, Answers
    <3> QED  BY <1>3, <3>1, <3>2 DEF Pending, Unanswered
  <2> QED  BY <1>3, <1>6, <2>1, <2>2, <2>3 DEF Exchange, StepTypes
<1>7. Own(r) => Own(r)'
  BY <1>1 DEF Own
<1>8. Local(r)'
  BY <1>1, <1>4, <1>5, <1>6, <1>7 DEF Local, Alive
<1>9. \A q \in Ranks \ {r} : Same(q)
  BY <1>1 DEF Same, StepTypes
<1> QED  BY <1>2, <1>8, <1>9, Elsewhere DEF StepTypes

\* No thread and a broken stream are not threads.
LEMMA Distinct == /\ None \notin Threads /\ None # "broken" /\ "broken" \notin Threads
                  /\ "main" \in Threads /\ "helper" \in Threads
BY NoneAssumption DEF Threads

\* A rank that waits in a collective call is told from one that does not.
LEMMA RequestsExist == None \notin Requests
BY NoneAssumption

\* pthread_mutex_lock
LEMMA LockKeepsWire ==
    ASSUME Wire, world.api = "pmi2", NEW r \in Ranks, NEW t \in Threads,
           pthread_mutex_lock(r, t), UNCHANGED others
    PROVE  Wire'
<1> DEFINE c == [call[r][t] EXCEPT !.at = "write"]
<1>1. /\ call[r][t].at = "lock" /\ mutex[r] = None
      /\ mutex' = [mutex EXCEPT ![r] = t]
      /\ call' = [call EXCEPT ![r][t].at = "write"]
      /\ UNCHANGED <<world, fd, inited, phase, stream, mixed, entered, left, pub, pm, req, ans>>
  BY DEF pthread_mutex_lock, history, managerVars
<1>2. Types /\ Local(r) /\ call[r][t] \in CallRec /\ Busy(call[r][t])
  BY CallType DEF Wire
<1>3. call' = [call EXCEPT ![r][t] = c]
  BY <1>1
<1>4. /\ c \in CallRec /\ Busy(c) /\ c.at = "write"
      /\ c.op = call[r][t].op /\ c.own = call[r][t].own
  BY <1>1, <1>2 DEF CallRec, Busy
<1> HIDE DEF c
<1>5. StepTypes(r)
  BY <1>1, <1>2 DEF StepTypes, Types, TypeOK
<1>6. /\ mutex' \in [Ranks -> Threads \cup {None}] /\ mutex'[r] = t
      /\ \A q \in Ranks \ {r} : mutex'[q] = mutex[q]
  BY <1>1, <1>2 DEF Types, TypeOK
<1>7. /\ call'[r][t] = c
      /\ \A u \in Threads \ {t} : call'[r][u] = call[r][u]
  BY <1>2, <1>3, <1>4, CallSet
<1>8. Locks(r)'
  BY <1>1, <1>2, <1>4, <1>6, <1>7, Distinct DEF Local, Locks
<1> QED  BY <1>1, <1>2, <1>3, <1>4, <1>5, <1>6, <1>8, OffWire

\* A request goes out and its answer is awaited, or it is a part of a command
\* that is given up.
LEMMA SendKeepsWire ==
    ASSUME Wire, NEW r \in Ranks, NEW t \in Threads, NEW c \in CallRec, Busy(c),
           call' = [call EXCEPT ![r][t] = c], StepTypes(r),
           UNCHANGED <<pm, phase, ans, stream, mutex>>, Alive(r),
           call[r][t].at = "write", c.op = call[r][t].op, c.own = call[r][t].own,
           \/ c.at = "read" /\ c.todo = call[r][t].todo
           \/ c.at = "done" /\ Head(call[r][t].todo) = "spawn-part",
           \/ UNCHANGED req
           \/ /\ fd[r] = "open" /\ pm.up
              /\ req' = [req EXCEPT ![r] = Append(@, Request(t, call[r][t]))],
           mixed' \in {mixed, mixed \cup {r}},
           r \notin mixed' => \A u \in Threads \ {t} : ~OnWire(r, u)
    PROVE  Wire'
<1>1. /\ call'[r][t] = c
      /\ \A u \in Threads \ {t} : call'[r][u] = call[r][u]
      /\ \A q \in Ranks \ {r} : call'[q] = call[q]
      /\ Local(r) /\ Types
  BY CallSet, ZenonT(40) DEF Wire
<1>2. PICK m \in Requests : /\ m = Request(t, call[r][t]) /\ m.by = t
                            /\ m.cmd = Head(call[r][t].todo)
  <2>1. call[r][t] \in CallRec /\ call[r][t].todo # <<>>
    BY <1>1, CallType DEF Busy
  <2>2. \A s \in Seq(Cmds) : s # <<>> => Head(s) \in Cmds
    OBVIOUS
  <2>3. /\ Request(t, call[r][t]) \in Requests /\ Request(t, call[r][t]).by = t
        /\ Request(t, call[r][t]).cmd = Head(call[r][t].todo)
    BY <2>1, <2>2 DEF CallRec, Requests, Request
  <2> QED  BY <2>3
<1>3. /\ req' \in [Ranks -> Seq(Requests)]
      /\ \A q \in Ranks \ {r} : req'[q] = req[q]
      /\ req'[r] = req[r] \/ (fd[r] = "open" /\ pm.up /\ req'[r] = Append(req[r], m))
  <2>1. req \in [Ranks -> Seq(Requests)]
    BY <1>1 DEF Types
  <2>2. CASE UNCHANGED req
    BY <2>1, <2>2
  <2>3. CASE /\ fd[r] = "open" /\ pm.up
             /\ req' = [req EXCEPT ![r] = Append(@, Request(t, call[r][t]))]
    BY <1>2, <2>1, <2>3
  <2> QED  BY <2>2, <2>3
<1>4. Types'
  <2>1. mixed' \subseteq Ranks
    BY <1>1 DEF Types
  <2> QED  BY <1>1, <1>3, <2>1, StepKeepsTypes DEF Types, TypeOK
<1>5. /\ Counts(r)' /\ Locks(r)'
      /\ phase'[r] = "new" => /\ ~InCall(r, "helper")'
                              /\ ~InCall(r, "main")' => fd'[r] = "none"
                              /\ InCall(r, "main")' => call'[r]["main"].op = InitOp'
  <2>1. world.api \in {"pmi1", "pmi2"}
    BY <1>1 DEF Types, TypeOK, Worlds
  <2> QED  BY <2>1, StepKeepsCall
<1>6. Unanswered(r)' <=> Unanswered(r)
  BY DEF Unanswered
<1>7. Socket(r)'
  BY <1>1, <1>3, <1>5, <1>6 DEF Local, Socket, Quiet, StepTypes
<1>8. ASSUME r \notin mixed'  PROVE Exchange(r)' /\ Own(r)'
  <2>1. Exchange(r) /\ Own(r) /\ \A u \in Threads : ~OnWire(r, u)
    BY <1>1, <1>8 DEF Local, OnWire
  <2>2. Own(r)'
    BY <1>1, <2>1 DEF Own
  <2>3. \A u \in Threads : OnWire(r, u)' => u = t /\ c.at = "read"
    BY <1>1, <2>1 DEF OnWire
  <2>4. \A u \in Threads : call'[r][u].at # "body"
    BY <1>1, <2>1 DEF OnWire
  <2>5. CASE fd[r] = "closed"
    BY <1>3, <2>2, <2>3, <2>4, <2>5 DEF Exchange, StepTypes
  <2>6. CASE fd[r] # "closed"
    <3>1. stream[r] = None
      BY <2>1, <2>6 DEF Exchange, OnWire
    <3>2. ans[r] = <<>> /\ ~Unanswered(r) /\ (req[r] = <<>> \/ Silent(r))
      <4>1. \A x : x.by \in Threads => ~For(r, x)
        BY <2>1 DEF For
      <4>2. /\ req[r] # <<>> => req[r][1].by \in Threads
            /\ pm.in[r] # None => pm.in[r].by \in Threads
            /\ ans[r] # <<>> => ans[r][1].by \in Threads
        BY <1>1, Messages DEF Requests, Answers
      <4> QED  BY <2>1, <2>6, <4>1, <4>2 DEF Exchange, Pending, Unanswered
    <3>3. CASE req'[r] = req[r]
      <4>1. req[r] = <<>> \/ Silent(r)'
        BY <3>2, <3>3 DEF Silent
      <4>2. Pending(r)' \/ (Silent(r) /\ ans[r] = <<>> /\ ~Unanswered(r))'
        BY <1>6, <3>2, <3>3, <4>1 DEF Pending
      <4> QED  BY <2>2, <2>3, <2>4, <3>1, <4>2 DEF Exchange, StepTypes
    <3>4. CASE req'[r] = Append(req[r], m)
      <4>1. req[r] \in Seq(Requests)
        BY <1>1 DEF Types
      <4>2. CASE req[r] = <<>>
        <5>1. req'[r] # <<>> /\ Len(req'[r]) = 1 /\ req'[r][1] = m
          BY <1>2, <3>4, <4>1, <4>2
        <5>2. c.at = "read" => For(r, m)'
          BY <1>1, <1>2 DEF For, OnWire
        <5>3. c.at = "done" => Silent(r)'
          BY <1>2, <5>1 DEF Silent
        <5>4. Pending(r)' \/ (Silent(r) /\ ans[r] = <<>> /\ ~Unanswered(r))'
          <6>1. CASE c.at = "read"
            <7>1. For(r, req[r][1])'
              BY <5>1, <5>2, <6>1 DEF For, OnWire
            <7> QED  BY <1>6, <3>2, <5>1, <7>1 DEF Pending
          <6>2. CASE c.at = "done"
            BY <1>6, <3>2, <5>3, <6>2
          <6> QED  BY <6>1, <6>2
        <5> QED  BY <2>2, <2>3, <2>4, <3>1, <5>4 DEF Exchange, StepTypes
      <4>3. CASE req[r] # <<>>
        <5>1. req'[r] # <<>> /\ req'[r][1] = req[r][1]
          BY <1>2, <3>4, <4>1, <4>3
        <5>2. Silent(r)' /\ ans'[r] = <<>> /\ ~Unanswered(r)'
          BY <1>6, <3>2, <4>3, <5>1 DEF Silent
        <5> QED  BY <2>2, <2>3, <2>4, <3>1, <5>2 DEF Exchange, StepTypes
      <4> QED  BY <4>2, <4>3
    <3> QED  BY <1>3, <3>3, <3>4
  <2> QED  BY <2>5, <2>6, <2>2
<1>9. Local(r)'
  BY <1>5, <1>7, <1>8 DEF Local
<1>10. \A q \in Ranks \ {r} : Same(q)
  BY <1>1, <1>3 DEF Same, StepTypes
<1> QED  BY <1>4, <1>9, <1>10, Elsewhere DEF StepTypes

\* A process that ends in the middle of a call.
LEMMA EndKeepsWire ==
    ASSUME Wire, NEW r \in Ranks, NEW t \in Threads, StepTypes(r),
           UNCHANGED <<pm, ans, stream, mutex>>,
           call[r][t] \in CallRec, call[r][t].todo # <<>>,
           phase' = [phase EXCEPT ![r] = "killed"],
           call' = [call EXCEPT ![r] = [u \in Threads |-> Idle]],
           \/ UNCHANGED req
           \/ /\ fd[r] = "open" /\ pm.up
              /\ req' = [req EXCEPT ![r] = Append(@, Request(t, call[r][t]))],
           mixed' \in {mixed, mixed \cup {r}}
    PROVE  Wire'
<1>1. Local(r) /\ Types
  BY DEF Wire
<1>2. Request(t, call[r][t]) \in Requests
  <2>1. \A s \in Seq(Cmds) : s # <<>> => Head(s) \in Cmds
    OBVIOUS
  <2> QED  BY <2>1 DEF CallRec, Requests, Request
<1>3. /\ req' \in [Ranks -> Seq(Requests)]
      /\ \A q \in Ranks \ {r} : req'[q] = req[q]
      /\ req'[r] = req[r] \/ (fd[r] = "open" /\ pm.up)
  <2>1. req \in [Ranks -> Seq(Requests)]
    BY <1>1 DEF Types
  <2>2. CASE UNCHANGED req
    BY <2>1, <2>2
  <2>3. CASE /\ fd[r] = "open" /\ pm.up
             /\ req' = [req EXCEPT ![r] = Append(@, Request(t, call[r][t]))]
    BY <1>2, <2>1, <2>3
  <2> QED  BY <2>2, <2>3
<1>4. /\ phase' \in [Ranks -> {"new", "ready", "final", "killed"}] /\ phase'[r] = "killed"
      /\ \A q \in Ranks \ {r} : phase'[q] = phase[q]
  BY <1>1 DEF Types, TypeOK
<1>5. /\ call' \in [Ranks -> [Threads -> CallRec]]
      /\ \A u \in Threads : call'[r][u] = Idle
      /\ \A q \in Ranks \ {r} : call'[q] = call[q]
  BY <1>1, IdleType DEF Types
<1>6. Types'
  <2>1. \A q \in Ranks, u \in Threads : Busy(call'[q][u])
    BY <1>1, <1>5, IdleType, CallType
  <2>2. \A q \in Ranks, u \in Threads :
           /\ call'[q][u].res \in Outcomes
           /\ call'[q][u].at \in {"lock", "fork", "accept", "write", "read", "body"}
                  <=> call'[q][u].todo # <<>>
    <3>1. ASSUME NEW q \in Ranks, NEW u \in Threads
          PROVE  call'[q][u] \in CallRec /\ Busy(call'[q][u])
      BY <1>5, <2>1
    <3> QED  BY <3>1, BusyCalls
  <2>3. mixed' \subseteq Ranks
    BY <1>1 DEF Types
  <2>4. TypeOK'
    BY <1>1, <1>4, <2>2 DEF Types, TypeOK, StepTypes
  <2> QED  BY <1>1, <1>3, <1>5, <2>3, <2>4 DEF Types, StepTypes
<1>7. \A u \in Threads : call'[r][u].at = "idle" /\ call'[r][u].own
  BY <1>5 DEF Idle
<1>8. Locks(r)' /\ Counts(r)'
  BY <1>1, <1>7, Distinct DEF Local, Locks, Counts, InCall, StepTypes
<1>9. Unanswered(r)' <=> Unanswered(r)
  BY DEF Unanswered
<1>10. Socket(r)'
  BY <1>1, <1>3, <1>4, <1>9 DEF Local, Socket, Quiet, StepTypes
<1>11. r \notin mixed' => Own(r)'
  BY <1>1, <1>7 DEF Local, Own
<1>12. ~Alive(r)'
  BY <1>4 DEF Alive
<1>13. Local(r)'
  BY <1>8, <1>10, <1>11, <1>12 DEF Local
<1>14. \A q \in Ranks \ {r} : Same(q)
  BY <1>3, <1>4, <1>5 DEF Same, StepTypes
<1> QED  BY <1>6, <1>13, <1>14, Elsewhere DEF StepTypes

\* What a PMI1 function goes on with, and what it takes for its result.
LEMMA GoesOn ==
    ASSUME NEW c \in CallRec, c.todo # <<>>, NEW o \in Outcomes
    PROVE  /\ Noticed(c, o) \in Outcomes
           /\ AfterWrite(c) \in Seq(Cmds) /\ AfterAnswer(c, o) \in Seq(Cmds)
<1>1. Noticed(c, o) \in Outcomes
  BY DEF Noticed, Outcomes
<1>2. c.todo \in Seq(Cmds) /\ "abort" \in Cmds
  BY DEF CallRec, Cmds
<1>3. Tail(c.todo) \in Seq(Cmds) /\ <<>> \in Seq(Cmds) /\ <<"abort">> \in Seq(Cmds)
  BY <1>2, CmdSeqs
<1>4. <<"abort">> \o Tail(c.todo) \in Seq(Cmds)
  BY <1>3, ConcatProperties
<1>5. SubSeq(c.todo, 3, Len(c.todo)) \in Seq(Cmds)
  BY <1>2
<1>6. AfterWrite(c) \in Seq(Cmds)
  BY <1>3, <1>5 DEF AfterWrite
<1>7. AfterAnswer(c, o) \in Seq(Cmds)
  BY <1>3, <1>4 DEF AfterAnswer
<1> QED  BY <1>1, <1>6, <1>7

\* PMIU_writeline
LEMMA WritelineKeepsWire ==
    ASSUME Wire, world.api = "pmi1", NEW r \in Ranks, PMIU_writeline(r), UNCHANGED others
    PROVE  Wire'
<1> DEFINE c == call[r]["main"]
<1>1. /\ Alive(r) /\ c.at = "write"
      /\ UNCHANGED <<world, fd, inited, phase, mutex, stream, mixed, entered, left, pub, pm, ans>>
  BY DEF PMIU_writeline, history
<1>2. Types /\ Local(r) /\ c \in CallRec /\ Busy(c) /\ "main" \in Threads
  BY CallType, Distinct DEF Wire
<1>3. StepTypes(r)
  BY <1>1, <1>2 DEF StepTypes, Types, TypeOK
<1>4. Noticed(c, "lost") \in Outcomes /\ AfterWrite(c) \in Seq(Cmds)
  <2>1. c.todo # <<>> /\ "lost" \in Outcomes
    BY <1>1, <1>2 DEF Busy, Outcomes
  <2> QED  BY <1>2, <2>1, GoesOn
<1>5. \A u \in Threads \ {"main"} : ~OnWire(r, u)
  BY <1>2 DEF Local, Locks, OnWire, InCall, Threads
<1>6. CASE /\ IF Unwritten(c) THEN UNCHANGED req ELSE Sent(r, "main")
           /\ call' = [call EXCEPT ![r]["main"].at = "read"]
  <2> DEFINE d == [c EXCEPT !.at = "read"]
  <2>1. call' = [call EXCEPT ![r]["main"] = d]
    BY <1>6
  <2>2. /\ d \in CallRec /\ Busy(d) /\ d.at = "read" /\ d.todo = c.todo
        /\ d.op = c.op /\ d.own = c.own
    BY <1>1, <1>2 DEF CallRec, Busy
  <2>3. \/ UNCHANGED req
        \/ /\ fd[r] = "open" /\ pm.up
           /\ req' = [req EXCEPT ![r] = Append(@, Request("main", c))]
    BY <1>6 DEF Sent
  <2> HIDE DEF d
  <2> QED  BY <1>1, <1>2, <1>3, <1>5, <2>1, <2>2, <2>3, SendKeepsWire
<1>7. ASSUME UNCHANGED req, NEW o \in Outcomes, NEW rest \in Seq(Cmds),
             call' = [call EXCEPT ![r]["main"] = Over(c, o, rest)]
      PROVE  Wire'
  <2> DEFINE d == Over(c, o, rest)
  <2>1. /\ d \in CallRec /\ Busy(d) /\ d.at \in {"write", "done"}
        /\ d.op = c.op /\ d.own = c.own
    BY <1>2, OverType, ZenonT(40)
  <2>2. call' = [call EXCEPT ![r]["main"] = d]
    BY <1>7
  <2> HIDE DEF d
  <2>3. Locks(r)'
    BY <1>1, <1>2, <1>3, <2>1, <2>2, StepKeepsCall
  <2>4. mutex' \in [Ranks -> Threads \cup {None}] /\ UNCHANGED mutex
    BY <1>1, <1>2 DEF Types, TypeOK
  <2> QED  BY <1>1, <1>2, <1>3, <1>7, <2>1, <2>2, <2>3, <2>4, OffWire
<1>8. CASE /\ call' = [call EXCEPT ![r]["main"] =
                         Over(c, Noticed(c, "lost"), AfterWrite(c))]
           /\ UNCHANGED req
  BY <1>4, <1>7, <1>8
<1> QED  BY <1>6, <1>8 DEF PMIU_writeline

\* PMI_Spawn_multiple gives up between two pieces of its command.
LEMMA SpawnKeepsWire ==
    ASSUME Wire, world.api = "pmi1", NEW r \in Ranks, SpawnGivesUp(r), UNCHANGED others
    PROVE  Wire'
<1> DEFINE c == call[r]["main"]
           d == Over(c, "ok", <<>>)
<1>0. UNCHANGED fd
  <2>1. fd \in [Ranks -> {"none", "open", "closed"}]
    BY DEF Wire, Types
  <2>2. fd' = [fd EXCEPT ![r] = fd[r]]
    BY <2>1 DEF SpawnGivesUp
  <2> QED  BY <2>1, <2>2
<1>1. /\ Alive(r) /\ c.at = "write" /\ Head(c.todo) = "spawn-part"
      /\ UNCHANGED <<world, fd, inited, phase, mutex, stream, mixed, entered, left, pub, pm, ans>>
      /\ call' = [call EXCEPT ![r]["main"] = d]
  BY <1>0 DEF SpawnGivesUp, history
<1>2. Types /\ Local(r) /\ c \in CallRec /\ Busy(c) /\ "main" \in Threads
  BY CallType, Distinct DEF Wire
<1>3. StepTypes(r)
  BY <1>1, <1>2 DEF StepTypes, Types, TypeOK
<1>4. d \in CallRec /\ Busy(d) /\ d.at = "done" /\ d.op = c.op /\ d.own = c.own
  <2>1. <<>> \in Seq(Cmds) /\ "ok" \in Outcomes
    BY CmdSeqs DEF Outcomes
  <2> QED  BY <1>2, <2>1, OverType
<1>5. \A u \in Threads \ {"main"} : ~OnWire(r, u)
  BY <1>2 DEF Local, Locks, OnWire, InCall, Threads
<1>6. \/ UNCHANGED req
      \/ /\ fd[r] = "open" /\ pm.up
         /\ req' = [req EXCEPT ![r] = Append(@, Request("main", c))]
  BY DEF SpawnGivesUp, Sent
<1> HIDE DEF d
<1> QED  BY <1>1, <1>2, <1>3, <1>4, <1>5, <1>6, SendKeepsWire

\* A write to a socket nobody reads ends the process.
LEMMA SigpipeKeepsWire ==
    ASSUME Wire, NEW r \in Ranks, NEW t \in Threads, Sigpipe(r, t), UNCHANGED others
    PROVE  Wire'
<1>1. Types /\ call[r][t] \in CallRec /\ call[r][t].todo # <<>>
  BY CallType DEF Wire, Busy, Sigpipe
<1>2. StepTypes(r)
  BY <1>1 DEF StepTypes, Types, TypeOK, Sigpipe, history
<1> QED  BY <1>1, <1>2, EndKeepsWire DEF Sigpipe, Exits, history, managerVars

\* PMIi_WriteSimpleCommand: a call that takes no lock and finds another one
\* in an exchange mixes the two up.
LEMMA WriteKeepsWire ==
    ASSUME Wire, world.api = "pmi2", NEW r \in Ranks, NEW t \in Threads,
           PMIi_WriteSimpleCommand(r, t), UNCHANGED others
    PROVE  Wire'
<1> DEFINE c == call[r][t]
           sent == [c EXCEPT !.at = "read"]
           outcome == IF TooLong(c) THEN "toolong" ELSE "lost"
           failed == Over(c, outcome, <<>>)
<1>1. /\ Alive(r) /\ c.at = "write"
      /\ UNCHANGED <<world, fd, inited, mutex, stream, entered, left, pub, pm, ans>>
  BY DEF PMIi_WriteSimpleCommand
<1>2. Types /\ Local(r) /\ c \in CallRec /\ Busy(c) /\ c.todo # <<>>
  BY <1>1, CallType DEF Wire, Busy
<1>3. StepTypes(r)
  BY <1>1, <1>2 DEF StepTypes, Types, TypeOK
<1>4. /\ sent \in CallRec /\ Busy(sent) /\ sent.at = "read" /\ sent.todo = c.todo
      /\ sent.op = c.op /\ sent.own = c.own
  BY <1>1, <1>2 DEF CallRec, Busy
<1>5. failed \in CallRec /\ Busy(failed) /\ failed.at = "done" /\ failed.op = c.op
      /\ failed.own = c.own
  <2>1. <<>> \in Seq(Cmds) /\ outcome \in Outcomes
    BY CmdSeqs DEF Outcomes
  <2> HIDE DEF outcome
  <2> QED  BY <1>2, <2>1, OverType, ZenonT(40)
<1>6. PICK next \in {sent, failed} :
         /\ IF next.at = "read"
            THEN /\ ~TooLong(c) /\ Sent(r, t)
                 /\ mixed' = IF Mixing(r, t) THEN mixed \cup {r} ELSE mixed
            ELSE /\ TooLong(c) \/ SendFails(r)
                 /\ UNCHANGED <<req, mixed>>
         /\ IF c.op = "PMI2_Abort"
            THEN /\ phase' = [phase EXCEPT ![r] = "killed"]
                 /\ call' = [call EXCEPT ![r] = [u \in Threads |-> Idle]]
            ELSE /\ call' = [call EXCEPT ![r][t] = next]
                 /\ UNCHANGED phase
  BY DEF PMIi_WriteSimpleCommand
<1> HIDE DEF sent, failed
<1>7. /\ \/ UNCHANGED req
         \/ /\ fd[r] = "open" /\ pm.up
            /\ req' = [req EXCEPT ![r] = Append(@, Request(t, c))]
      /\ mixed' \in {mixed, mixed \cup {r}}
  BY <1>6 DEF Sent
<1>8. CASE c.op = "PMI2_Abort"
  <2>1. /\ phase' = [phase EXCEPT ![r] = "killed"]
        /\ call' = [call EXCEPT ![r] = [u \in Threads |-> Idle]]
    BY <1>6, <1>8
  <2> QED  BY <1>1, <1>2, <1>3, <1>7, <2>1, EndKeepsWire
<1>9. CASE c.op # "PMI2_Abort" /\ next = sent
  <2>1. call' = [call EXCEPT ![r][t] = sent] /\ UNCHANGED phase
    BY <1>6, <1>9
  <2>2. mixed' = IF Mixing(r, t) THEN mixed \cup {r} ELSE mixed
    BY <1>4, <1>6, <1>9
  <2>3. ASSUME r \notin mixed', NEW u \in Threads \ {t}  PROVE ~OnWire(r, u)
    <3>1. ~Mixing(r, t)
      BY <2>2, <2>3
    <3>2. OnWire(r, u) => c.op \notin LockFree /\ call[r][u].op \notin LockFree
      BY <3>1 DEF Mixing
    <3>3. OnWire(r, u) => mutex[r] = u /\ mutex[r] = t
      BY <1>1, <1>2, <3>2 DEF Local, Locks, OnWire
    <3> QED  BY <3>3
  <2> QED  BY <1>1, <1>2, <1>3, <1>4, <1>7, <2>1, <2>3, SendKeepsWire
<1>10. CASE c.op # "PMI2_Abort" /\ next = failed
  <2>1. call' = [call EXCEPT ![r][t] = failed] /\ UNCHANGED <<phase, req, mixed>>
    BY <1>5, <1>6, <1>10
  <2>2. Locks(r)'
    BY <1>1, <1>2, <1>3, <1>5, <2>1, StepKeepsCall
  <2>3. mutex' \in [Ranks -> Threads \cup {None}] /\ UNCHANGED mutex
    BY <1>1, <1>2 DEF Types, TypeOK
  <2> QED  BY <1>1, <1>2, <1>3, <1>5, <2>1, <2>2, <2>3, OffWire
<1> QED  BY <1>6, <1>8, <1>9, <1>10

\* What an answer makes of a call.
LEMMA AnswerType ==
    ASSUME NEW c \in CallRec, c.todo # <<>>, NEW a \in Answers, NEW o \in Outcomes
    PROVE  /\ Outcome(c, a) \in Outcomes /\ Verdict(c, a) \in Outcomes /\ Value(c, a) \in Nat
           /\ After(c, o) \in Seq(Cmds)
<1>1. Outcome(c, a) \in Outcomes
  BY DEF Outcome, Outcomes
<1>2. Verdict(c, a) \in Outcomes
  BY <1>1 DEF Verdict, Outcomes
<1>3. Value(c, a) \in Nat
  BY DEF Value, MPIU_Strncpy, GetBuffer, CallRec, Answers
<1>4. Tail(c.todo) \in Seq(Cmds) /\ <<>> \in Seq(Cmds)
  <2>1. c.todo \in Seq(Cmds)
    BY DEF CallRec
  <2> QED  BY <2>1, CmdSeqs
<1> QED  BY <1>1, <1>2, <1>3, <1>4 DEF After

\* Call c after it has read an answer.
Taken(c, o, rest, got, own) == [Over(c, o, rest) EXCEPT !.got = got, !.own = own]

\* It goes on or is done.
LEMMA TakenType ==
    ASSUME NEW c \in CallRec, NEW o \in Outcomes, NEW rest \in Seq(Cmds), NEW got \in Nat,
           NEW own \in BOOLEAN
    PROVE  LET d == Taken(c, o, rest, got, own)
           IN  /\ d \in CallRec /\ Busy(d) /\ d.todo = rest
               /\ d.at \in {"write", "done"} /\ (d.at = "done" <=> rest = <<>>)
               /\ d.op = c.op /\ d.own = own /\ d.key = c.key /\ d.val = c.val
               /\ d.due = c.due /\ d.got = got
               /\ d.res = IF c.res = "ok" THEN o ELSE c.res
<1> DEFINE e == Over(c, o, rest)
<1>1. /\ e \in CallRec /\ Busy(e) /\ e.todo = rest
      /\ e.at \in {"write", "done"} /\ (e.at = "done" <=> rest = <<>>)
      /\ e.op = c.op /\ e.key = c.key /\ e.val = c.val /\ e.due = c.due
      /\ e.res = IF c.res = "ok" THEN o ELSE c.res
  BY OverType
<1> HIDE DEF e
<1>2. LET d == [e EXCEPT !.got = got, !.own = own]
      IN  /\ d \in CallRec /\ d.todo = e.todo /\ d.at = e.at /\ d.op = e.op /\ d.own = own
          /\ d.key = e.key /\ d.val = e.val /\ d.due = e.due /\ d.got = got /\ d.res = e.res
  BY <1>1 DEF CallRec
<1> QED  BY <1>1, <1>2 DEF Busy, Taken, e

\* An exchange is over: the answer was read, or there is none to come.
LEMMA ReadKeepsWire ==
    ASSUME Wire, NEW r \in Ranks, NEW t \in Threads, NEW c \in CallRec, Busy(c),
           call' = [call EXCEPT ![r][t] = c], StepTypes(r),
           UNCHANGED <<pm, phase, req, mutex, mixed>>, Alive(r), OnWire(r, t),
           c.op = call[r][t].op, c.at \in {"write", "done"}, r \notin mixed => c.own,
           \/ UNCHANGED <<ans, stream>> /\ (Eof(r) \/ r \in mixed)
           \/ /\ r \in mixed /\ fd[r] # "none" /\ UNCHANGED ans
              /\ stream' = [stream EXCEPT ![r] = "broken"]
           \/ /\ ans[r] # <<>> /\ ans' = [ans EXCEPT ![r] = Tail(@)]
              /\ \/ stream' = [stream EXCEPT ![r] = None]
                 \/ UNCHANGED stream /\ stream[r] \notin Threads
    PROVE  Wire'
<1>1. /\ call'[r][t] = c
      /\ \A u \in Threads \ {t} : call'[r][u] = call[r][u]
      /\ \A q \in Ranks \ {r} : call'[q] = call[q]
      /\ Local(r) /\ Types
  BY CallSet, ZenonT(40) DEF Wire
<1>2. /\ stream' \in [Ranks -> Threads \cup {None, "broken"}]
      /\ \A q \in Ranks \ {r} : stream'[q] = stream[q]
  <2>1. stream \in [Ranks -> Threads \cup {None, "broken"}]
    BY <1>1 DEF Types, TypeOK
  <2>2. \/ UNCHANGED stream \/ stream' = [stream EXCEPT ![r] = "broken"]
        \/ stream' = [stream EXCEPT ![r] = None]
    OBVIOUS
  <2> QED  BY <2>1, <2>2
<1>3. /\ ans' \in [Ranks -> Seq(Answers)]
      /\ \A q \in Ranks \ {r} : ans'[q] = ans[q]
      /\ ans' = ans \/ (ans[r] # <<>> /\ ans'[r] = Tail(ans[r]))
  <2>1. ans \in [Ranks -> Seq(Answers)]
    BY <1>1 DEF Types
  <2>2. ans[r] # <<>> => Tail(ans[r]) \in Seq(Answers)
    BY <2>1
  <2> QED  BY <2>1, <2>2
<1>4. Types'
  BY <1>1, <1>2, <1>3, StepKeepsTypes DEF Types, TypeOK
<1>5. /\ Counts(r)' /\ Locks(r)'
      /\ phase'[r] = "new" => /\ ~InCall(r, "helper")'
                              /\ ~InCall(r, "main")' => fd'[r] = "none"
                              /\ InCall(r, "main")' => call'[r]["main"].op = InitOp'
  <2>1. world.api \in {"pmi1", "pmi2"}
    BY <1>1 DEF Types, TypeOK, Worlds
  <2>2. call[r][t].at \in {"read", "body"}
    BY DEF OnWire
  <2> QED  BY <2>1, <2>2, StepKeepsCall
<1>6. Unanswered(r)' <=> Unanswered(r)
  BY DEF Unanswered
<1>7. fd[r] = "none" => Quiet(r) /\ stream[r] = None
  BY <1>1 DEF Local, Socket
<1>8. Socket(r)'
  <2>1. fd'[r] = "none" => Quiet(r)' /\ stream'[r] = None
    BY <1>2, <1>3, <1>6, <1>7 DEF Quiet, StepTypes
  <2>2. stream'[r] \in Threads => world.api = "pmi2" /\ ans'[r] # <<>>
    <3>1. stream'[r] \in Threads => UNCHANGED <<ans, stream>>
      BY <1>1, Distinct DEF Types, TypeOK
    <3> QED  BY <1>1, <3>1 DEF Local, Socket
  <2> QED  BY <1>1, <1>5, <2>1, <2>2 DEF Local, Socket, StepTypes
<1>9. ASSUME r \notin mixed  PROVE Exchange(r)' /\ Own(r)'
  <2>1. Exchange(r) /\ Own(r)
    BY <1>1, <1>9 DEF Local
  <2>2. stream'[r] # "broken"
    BY <1>1, <1>9, <2>1, Distinct DEF Own, Types, TypeOK
  <2>3. Own(r)'
    BY <1>1, <1>9, <2>1, <2>2 DEF Own
  <2>4. \A u \in Threads : ~OnWire(r, u)'
    BY <1>1, <2>1 DEF Exchange, OnWire
  <2>5. \A u \in Threads : call'[r][u].at # "body"
    BY <2>4 DEF OnWire
  <2>6. CASE fd[r] = "closed"
    BY <2>3, <2>4, <2>5, <2>6 DEF Exchange, StepTypes
  <2>7. CASE fd[r] # "closed"
    <3>1. Quiet(r)' /\ stream'[r] = None
      <4>1. CASE UNCHANGED <<ans, stream>> /\ (Eof(r) \/ r \in mixed)
        <5>1. CASE fd[r] = "none"
          BY <1>6, <1>7, <4>1, <5>1 DEF Quiet
        <5>2. CASE fd[r] # "none"
          <6>1. ~pm.up /\ ans[r] = <<>>
            <7>1. fd[r] \in {"none", "open", "closed"}
              BY <1>1 DEF Types, TypeOK
            <7> QED  BY <1>9, <2>7, <4>1, <5>2, <7>1 DEF Eof
          <6>2. req[r] = <<>> /\ pm.in[r] = None
            BY <1>1, <6>1 DEF Local, Socket
          <6>3. stream[r] = None
            BY <2>1, <2>7, <6>1 DEF Exchange
          <6> QED  BY <4>1, <6>1, <6>2, <6>3 DEF Quiet, Unanswered
        <5> QED  BY <5>1, <5>2
      <4>2. CASE /\ ans[r] # <<>> /\ ans' = [ans EXCEPT ![r] = Tail(@)]
                 /\ \/ stream' = [stream EXCEPT ![r] = None]
                    \/ UNCHANGED stream /\ stream[r] \notin Threads
        <5>1. Pending(r)
          BY <2>1, <2>7, <4>2 DEF Exchange
        <5>2. Len(ans[r]) = 1 /\ req[r] = <<>> /\ ~Unanswered(r)
          BY <4>2, <5>1 DEF Pending
        <5>3. ans'[r] = <<>>
          <6>1. ans[r] \in Seq(Answers) /\ ans'[r] = Tail(ans[r])
            BY <1>1, <4>2 DEF Types
          <6> QED  BY <4>2, <5>2, <6>1, TailOfOne
        <5>4. stream'[r] = None
          BY <1>2, <2>2, <4>2, <1>1, Distinct DEF Types, TypeOK
        <5> QED  BY <1>6, <5>2, <5>3, <5>4 DEF Quiet
      <4> QED  BY <1>9, <4>1, <4>2
    <3>2. Pending(r)'
      BY <3>1 DEF Quiet, Pending
    <3> QED  BY <2>3, <2>4, <2>5, <3>1, <3>2 DEF Exchange
  <2> QED  BY <2>6, <2>7
<1>10. Local(r)'
  BY <1>5, <1>8, <1>9 DEF Local
<1>11. \A q \in Ranks \ {r} : Same(q)
  BY <1>1, <1>2, <1>3 DEF Same, StepTypes
<1> QED  BY <1>4, <1>10, <1>11, Elsewhere DEF StepTypes

\* The answer at the head of the stream is to the thread that reads it.
LEMMA AnswerIsOwn ==
    ASSUME Wire, NEW r \in Ranks \ mixed, NEW t \in Threads, Alive(r), OnWire(r, t),
           ans[r] # <<>>, call[r][t].at = "body" \/ fd[r] = "open"
    PROVE  /\ Head(ans[r]) = ans[r][1] /\ ans[r][1].by = t
           /\ fd[r] # "closed" => For(r, ans[r][1])
<1>1. Exchange(r) /\ Types
  BY DEF Wire, Local
<1>2. Head(ans[r]) = ans[r][1] /\ ans[r][1] \in Answers
  BY <1>1, Messages
<1>3. ans[r][1].by \in Threads
  BY <1>2 DEF Answers
<1>4. fd[r] # "closed" => For(r, ans[r][1])
  BY <1>1 DEF Exchange, Pending
<1>5. fd[r] = "open" => ans[r][1].by = t
  BY <1>1, <1>3, <1>4 DEF For, Exchange
<1>6. call[r][t].at = "body" => ans[r][1].by = t
  BY <1>1 DEF Exchange
<1> QED  BY <1>2, <1>4, <1>5, <1>6

\* GetResponse
LEMMA GetResponseKeepsWire ==
    ASSUME Wire, world.api = "pmi1", NEW r \in Ranks, GetResponse(r), UNCHANGED others
    PROVE  Wire'
<1> DEFINE c == call[r]["main"]
<1>1. /\ Alive(r) /\ c.at = "read"
      /\ UNCHANGED <<world, fd, inited, phase, mutex, stream, mixed, entered, left, pub, pm, req>>
  BY DEF GetResponse, history
<1>2. Types /\ Local(r) /\ c \in CallRec /\ Busy(c) /\ "main" \in Threads
  BY CallType, Distinct DEF Wire
<1>3. StepTypes(r)
  BY <1>1, <1>2 DEF StepTypes, Types, TypeOK
<1>4. c.todo # <<>> /\ OnWire(r, "main") /\ (r \notin mixed => c.own) /\ c.own \in BOOLEAN
  BY <1>1, <1>2 DEF CallRec, Busy, OnWire, Local, Own
<1>5. CASE /\ Eof(r) /\ UNCHANGED ans
           /\ call' = [call EXCEPT ![r]["main"] =
                         Over(c, Noticed(c, "lost"), AfterAnswer(c, "lost"))]
  <2> DEFINE o == Noticed(c, "lost")
             rest == AfterAnswer(c, "lost")
             d == Over(c, o, rest)
  <2>1. "lost" \in Outcomes
    BY DEF Outcomes
  <2>2. o \in Outcomes /\ rest \in Seq(Cmds)
    BY <1>2, <1>4, <2>1, GoesOn
  <2> HIDE DEF o, rest
  <2>3. /\ d \in CallRec /\ Busy(d) /\ d.at \in {"write", "done"}
        /\ d.op = c.op /\ d.own = c.own
    BY <1>2, <2>2, OverType
  <2>4. call' = [call EXCEPT ![r]["main"] = d]
    BY <1>5 DEF o, rest
  <2> HIDE DEF d
  <2> QED  BY <1>1, <1>2, <1>3, <1>4, <1>5, <2>3, <2>4, ReadKeepsWire
<1>6. CASE /\ fd[r] = "open" /\ ans[r] # <<>>
           /\ ans' = [ans EXCEPT ![r] = Tail(@)]
           /\ LET a == Head(ans[r])
                  o == Outcome(c, a)
              IN  call' = [call EXCEPT ![r]["main"] =
                             [Over(c, Noticed(c, o), AfterAnswer(c, o)) EXCEPT
                                !.got = Value(c, a), !.own = @ /\ a.by = "main"]]
  <2> DEFINE a == Head(ans[r])
             said == Outcome(c, a)
             o == Noticed(c, said)
             rest == AfterAnswer(c, said)
             got == Value(c, a)
             own == c.own /\ a.by = "main"
             d == [Over(c, o, rest) EXCEPT !.got = got, !.own = own]
  <2>1. a \in Answers
    BY <1>2, <1>6, Messages
  <2>2. Over(c, o, rest).own = c.own
    BY <1>2 DEF Over, CallRec
  <2>3. call' = [call EXCEPT ![r]["main"] = d]
    BY <1>6, <2>2
  <2>4. r \notin mixed => own
    BY <1>1, <1>2, <1>4, <1>6, AnswerIsOwn
  <2> HIDE DEF a
  <2>5. said \in Outcomes /\ got \in Nat
    BY <1>2, <1>4, <2>1, AnswerType DEF Outcomes
  <2> HIDE DEF said
  <2>6. o \in Outcomes /\ rest \in Seq(Cmds) /\ got \in Nat
    BY <1>2, <1>4, <2>5, GoesOn
  <2>7. own \in BOOLEAN
    OBVIOUS
  <2> HIDE DEF o, rest, got, own
  <2>8. /\ d \in CallRec /\ Busy(d) /\ d.at \in {"write", "done"}
        /\ d.op = c.op /\ d.own = own
    <3>1. PICK y \in BOOLEAN : y = own
      BY <2>7
    <3>2. d = Taken(c, o, rest, got, y)
      BY <3>1 DEF Taken
    <3> HIDE DEF c, d
    <3>3. LET e == Taken(c, o, rest, got, y)
          IN  /\ e \in CallRec /\ Busy(e) /\ e.at \in {"write", "done"}
              /\ e.op = c.op /\ e.own = y
      BY <1>2, <2>6, TakenType
    <3> QED  BY <3>1, <3>2, <3>3
  <2> HIDE DEF d
  <2>9. stream[r] \notin Threads
    BY <1>2 DEF Local, Socket
  <2> QED  BY <1>1, <1>2, <1>3, <1>4, <1>6, <2>3, <2>4, <2>8, <2>9, ReadKeepsWire
<1> QED  BY <1>5, <1>6 DEF GetResponse

\* The first read of PMIi_ReadCommand, of the length.
LEMMA ReadLengthKeepsWire ==
    ASSUME Wire, world.api = "pmi2", NEW r \in Ranks, NEW t \in Threads, ReadLength(r, t),
           UNCHANGED others
    PROVE  Wire'
<1> DEFINE c == call[r][t]
<1>1. /\ Alive(r) /\ c.at = "read" /\ fd[r] = "open" /\ ans[r] # <<>>
      /\ UNCHANGED <<world, fd, inited, phase, mutex, mixed, entered, left, pub, pm, req, ans>>
  BY DEF ReadLength, history, managerVars
<1>2. Types /\ Local(r) /\ c \in CallRec /\ Busy(c)
  BY CallType DEF Wire
<1>3. StepTypes(r)
  BY <1>1, <1>2 DEF StepTypes, Types, TypeOK
<1>4. OnWire(r, t) /\ c.todo # <<>>
  BY <1>1, <1>2 DEF OnWire, Busy
<1>5. CASE /\ stream[r] = None
           /\ stream' = [stream EXCEPT ![r] = t]
           /\ call' = [call EXCEPT ![r][t].at = "body"]
  <2> DEFINE d == [c EXCEPT !.at = "body"]
  <2>1. call' = [call EXCEPT ![r][t] = d]
    BY <1>5
  <2>2. /\ d \in CallRec /\ Busy(d) /\ d.at = "body" /\ d.todo = c.todo
        /\ d.op = c.op /\ d.own = c.own
    BY <1>2, <1>4 DEF CallRec, Busy
  <2> HIDE DEF d
  <2>3. /\ call'[r][t] = d
        /\ \A u \in Threads \ {t} : call'[r][u] = call[r][u]
        /\ \A q \in Ranks \ {r} : call'[q] = call[q]
    BY <1>2, <2>1, <2>2, CallSet, ZenonT(40)
  <2>4. /\ stream' \in [Ranks -> Threads \cup {None, "broken"}] /\ stream'[r] = t
        /\ \A q \in Ranks \ {r} : stream'[q] = stream[q]
    BY <1>2, <1>5 DEF Types, TypeOK
  <2>5. Types'
    BY <1>1, <1>2, <1>3, <2>1, <2>2, <2>4, StepKeepsTypes DEF Types, TypeOK
  <2>6. /\ Counts(r)' /\ Locks(r)'
        /\ phase'[r] = "new" => /\ ~InCall(r, "helper")'
                                /\ ~InCall(r, "main")' => fd'[r] = "none"
                                /\ InCall(r, "main")' => call'[r]["main"].op = InitOp'
    BY <1>1, <1>2, <1>3, <2>1, <2>2, StepKeepsCall
  <2>7. Unanswered(r)' <=> Unanswered(r)
    BY <1>1 DEF Unanswered
  <2>8. Socket(r)'
    BY <1>1, <1>2, <2>4, <2>6, <2>7 DEF Local, Socket, Quiet
  <2>9. ASSUME r \notin mixed  PROVE Exchange(r)' /\ Own(r)'
    <3>1. Exchange(r) /\ Own(r)
      BY <1>1, <1>2, <2>9 DEF Local
    <3>2. Own(r)'
      BY <2>2, <2>3, <2>4, <3>1, Distinct DEF Own
    <3>3. \A u \in Threads : OnWire(r, u)' <=> u = t
      BY <1>4, <2>2, <2>3, <3>1 DEF Exchange, OnWire
    <3>4. ans[r][1].by = t /\ For(r, ans[r][1])
      BY <1>1, <1>4, <2>9, AnswerIsOwn
    <3>5. For(r, ans[r][1])'
      BY <1>1, <2>2, <2>3, <3>3, <3>4 DEF For
    <3>6. Pending(r)
      BY <1>1, <3>1 DEF Exchange
    <3>7. Pending(r)'
      BY <1>1, <2>7, <3>5, <3>6 DEF Pending
    <3>8. \A u \in Threads : call'[r][u].at = "body" <=> u = t
      BY <2>2, <2>3, <3>3 DEF OnWire
    <3> QED  BY <1>1, <2>4, <3>2, <3>3, <3>4, <3>7, <3>8 DEF Exchange
  <2>10. Local(r)'
    BY <1>1, <2>6, <2>8, <2>9 DEF Local
  <2>11. \A q \in Ranks \ {r} : Same(q)
    BY <1>1, <2>3, <2>4 DEF Same
  <2> QED  BY <1>1, <2>5, <2>10, <2>11, Elsewhere
<1>6. CASE /\ stream[r] # None
           /\ stream' = [stream EXCEPT ![r] = "broken"]
           /\ call' = [call EXCEPT ![r][t] = Over([c EXCEPT !.own = FALSE], "wrong", <<>>)]
  <2> DEFINE b == [c EXCEPT !.own = FALSE]
             d == Over(b, "wrong", <<>>)
  <2>1. r \in mixed
    BY <1>1, <1>2, <1>4, <1>6 DEF Local, Exchange, OnWire
  <2>2. b \in CallRec /\ b.op = c.op /\ "wrong" \in Outcomes /\ <<>> \in Seq(Cmds)
    BY <1>2, CmdSeqs DEF CallRec, Outcomes
  <2>3. call' = [call EXCEPT ![r][t] = d]
    BY <1>6
  <2> HIDE DEF b
  <2>4. d \in CallRec /\ Busy(d) /\ d.at \in {"write", "done"} /\ d.op = c.op
    BY <2>2, OverType, ZenonT(40)
  <2> HIDE DEF d
  <2> QED  BY <1>1, <1>2, <1>3, <1>4, <1>6, <2>1, <2>3, <2>4, ReadKeepsWire
<1> QED  BY <1>5, <1>6 DEF ReadLength

\* The second read of PMIi_ReadCommand, of the rest.
LEMMA ReadBodyKeepsWire ==
    ASSUME Wire, world.api = "pmi2", NEW r \in Ranks, NEW t \in Threads, ReadBody(r, t),
           UNCHANGED others
    PROVE  Wire'
<1> DEFINE c == call[r][t]
           a == Head(ans[r])
           o == Verdict(c, a)
           rest == After(c, o)
           got == Value(c, a)
           own == c.own /\ a.by = t
           d == [Over(c, o, rest) EXCEPT !.got = got, !.own = own]
<1>1. /\ Alive(r) /\ c.at = "body" /\ stream[r] = t
      /\ UNCHANGED <<world, fd, inited, phase, mutex, mixed, entered, left, pub, pm, req>>
      /\ ans' = [ans EXCEPT ![r] = Tail(@)]
      /\ stream' = [stream EXCEPT ![r] = None]
  BY DEF ReadBody, history
<1>2. Types /\ Local(r) /\ c \in CallRec /\ Busy(c)
  BY CallType DEF Wire
<1>3. StepTypes(r)
  BY <1>1, <1>2 DEF StepTypes, Types, TypeOK
<1>4. /\ OnWire(r, t) /\ c.todo # <<>> /\ (r \notin mixed => c.own) /\ c.own \in BOOLEAN
      /\ ans[r] # <<>>
  BY <1>1, <1>2 DEF CallRec, Busy, OnWire, Local, Own, Socket
<1>5. a \in Answers
  BY <1>2, <1>4, Messages
<1>6. Over(c, o, rest).own = c.own
  BY <1>2 DEF Over, CallRec
<1>7. call' = [call EXCEPT ![r][t] = d]
  BY <1>6 DEF ReadBody
<1>8. r \notin mixed => own
  BY <1>1, <1>2, <1>4, AnswerIsOwn
<1> HIDE DEF a
<1>9. o \in Outcomes /\ got \in Nat
  BY <1>2, <1>4, <1>5, AnswerType DEF Outcomes
<1> HIDE DEF o
<1>10. rest \in Seq(Cmds)
  BY <1>2, <1>4, <1>5, <1>9, AnswerType
<1>11. own \in BOOLEAN
  OBVIOUS
<1> HIDE DEF rest, got, own
<1>12. /\ d \in CallRec /\ Busy(d) /\ d.at \in {"write", "done"}
       /\ d.op = c.op /\ d.own = own
  <2>1. PICK y \in BOOLEAN : y = own
    BY <1>11
  <2>2. d = Taken(c, o, rest, got, y)
    BY <2>1 DEF Taken
  <2> HIDE DEF c, d
  <2> QED  BY <1>2, <1>9, <1>10, <2>1, <2>2, TakenType
<1> HIDE DEF d
<1> QED  BY <1>1, <1>2, <1>3, <1>4, <1>7, <1>8, <1>12, ReadKeepsWire

\* A read of PMIi_ReadCommand that fails.
LEMMA ReadFailsKeepsWire ==
    ASSUME Wire, world.api = "pmi2", NEW r \in Ranks, NEW t \in Threads, ReadFails(r, t),
           UNCHANGED others
    PROVE  Wire'
<1> DEFINE c == call[r][t]
           b == [c EXCEPT !.own = FALSE]
<1>1. /\ Alive(r) /\ OnWire(r, t)
      /\ UNCHANGED <<world, fd, inited, phase, mutex, stream, mixed, entered, left, pub, pm,
                     req, ans>>
  BY DEF ReadFails, history, managerVars
<1>2. Types /\ Local(r) /\ c \in CallRec /\ Busy(c) /\ (r \notin mixed => Own(r))
  BY CallType DEF Wire, Local
<1>3. StepTypes(r)
  BY <1>1, <1>2 DEF StepTypes, Types, TypeOK
<1>4. "wrong" \in Outcomes /\ "lost" \in Outcomes /\ <<>> \in Seq(Cmds)
  BY CmdSeqs DEF Outcomes
<1>5. CASE Eof(r) /\ call' = [call EXCEPT ![r][t] = Over(c, "lost", <<>>)]
  <2> DEFINE d == Over(c, "lost", <<>>)
  <2>1. /\ d \in CallRec /\ Busy(d) /\ d.at \in {"write", "done"}
        /\ d.op = c.op /\ d.own = c.own
    BY <1>2, <1>4, OverType, ZenonT(40)
  <2>2. call' = [call EXCEPT ![r][t] = d]
    BY <1>5
  <2>3. r \notin mixed => c.own
    BY <1>2 DEF Own
  <2> HIDE DEF d
  <2> QED  BY <1>1, <1>2, <1>3, <1>5, <2>1, <2>2, <2>3, ReadKeepsWire
<1>6. CASE /\ stream[r] = "broken"
           /\ call' = [call EXCEPT ![r][t] = Over([c EXCEPT !.own = FALSE], "wrong", <<>>)]
  <2> DEFINE d == Over(b, "wrong", <<>>)
  <2>1. r \in mixed
    BY <1>2, <1>6 DEF Own
  <2>2. call' = [call EXCEPT ![r][t] = d]
    BY <1>6
  <2>3. b \in CallRec /\ b.op = c.op
    BY <1>2 DEF CallRec
  <2> HIDE DEF b
  <2>4. d \in CallRec /\ Busy(d) /\ d.at \in {"write", "done"} /\ d.op = c.op
    BY <1>4, <2>3, OverType, ZenonT(40)
  <2> HIDE DEF d
  <2> QED  BY <1>1, <1>2, <1>3, <2>1, <2>2, <2>4, ReadKeepsWire
<1> QED  BY <1>5, <1>6 DEF ReadFails

\* A call ends, with what it makes of the socket and of the client.
LEMMA LeaveKeepsWire ==
    ASSUME Wire, NEW r \in Ranks, NEW t \in Threads, NEW conn \in {fd[r], "closed"},
           NEW state \in {"no", "single", "pm"}, NEW stage \in {"new", "ready", "final", "killed"},
           world.api = "pmi1" => state \in {"no", "pm"},
           stage # "new", Leave(r, t, conn, state, stage), UNCHANGED others
    PROVE  Wire'
<1> DEFINE c == call[r][t]
<1>1. /\ Alive(r) /\ c.at = "done"
      /\ call' = [call EXCEPT ![r][t] = Idle]
      /\ fd' = [fd EXCEPT ![r] = conn]
      /\ inited' = [inited EXCEPT ![r] = state]
      /\ phase' = [phase EXCEPT ![r] = stage]
      /\ mutex' = [mutex EXCEPT ![r] = IF @ = t THEN None ELSE @]
      /\ left' = [left EXCEPT ![r] = IF c.op \in Barriers THEN @ + 1 ELSE @]
      /\ pub' = [pub EXCEPT ![r] =
                    IF c.op \notin Publications THEN @
                    ELSE [val |-> IF c.res = "ok" /\ fd[r] = "open" THEN c.val ELSE 0,
                          at |-> entered[r] + 1]]
      /\ UNCHANGED <<world, stream, mixed, entered, pm, req, ans>>
  BY DEF Leave, Release, managerVars
<1>2. Types /\ Local(r) /\ c \in CallRec
  BY CallType DEF Wire
<1>3. /\ call' \in [Ranks -> [Threads -> CallRec]]
      /\ \A q \in Ranks, u \in Threads : Busy(call'[q][u])
      /\ call'[r][t] = Idle
      /\ \A u \in Threads \ {t} : call'[r][u] = call[r][u]
      /\ \A q \in Ranks \ {r} : call'[q] = call[q]
  BY <1>1, <1>2, IdleType, CallSet
<1>4. Idle.at = "idle" /\ Idle.own
  BY DEF Idle
<1>5. /\ fd' \in [Ranks -> {"none", "open", "closed"}] /\ fd'[r] = conn
      /\ inited' \in [Ranks -> {"no", "single", "pm"}]
      /\ world.api = "pmi1" => inited' \in [Ranks -> {"no", "pm"}]
      /\ phase' \in [Ranks -> {"new", "ready", "final", "killed"}] /\ phase'[r] = stage
      /\ \A q \in Ranks \ {r} : fd'[q] = fd[q] /\ phase'[q] = phase[q]
  BY <1>1, <1>2 DEF Types, TypeOK
<1>6. /\ mutex' \in [Ranks -> Threads \cup {None}]
      /\ \A u \in Threads \ {t} : mutex[r] = u => mutex'[r] = u
      /\ \A q \in Ranks \ {r} : mutex'[q] = mutex[q]
  BY <1>1, <1>2 DEF Types, TypeOK
<1>7. /\ entered[r] \in 0 .. MaxBarriers /\ left[r] \in 0 .. MaxBarriers
      /\ left \in [Ranks -> 0 .. MaxBarriers]
      /\ c.op \in Barriers => left[r] < entered[r]
      /\ left[r] <= entered[r]
  BY <1>1, <1>2 DEF Types, TypeOK, Local, Counts, InCall
<1>8. /\ left' \in [Ranks -> 0 .. MaxBarriers]
      /\ left'[r] = IF c.op \in Barriers THEN left[r] + 1 ELSE left[r]
      /\ \A q \in Ranks \ {r} : left'[q] = left[q]
  BY <1>1, <1>7, BarriersAssumption
<1>9. pub' \in [Ranks -> [val : Nat, at : Nat]]
  <2> DEFINE p == [val |-> IF c.res = "ok" /\ fd[r] = "open" THEN c.val ELSE 0,
                   at |-> entered[r] + 1]
  <2>1. pub \in [Ranks -> [val : Nat, at : Nat]]
    BY <1>2 DEF Types
  <2>2. c.val \in Nat
    BY <1>2 DEF CallRec
  <2>3. p \in [val : Nat, at : Nat]
    BY <1>7, <2>2, BarriersAssumption
  <2>4. pub' = [pub EXCEPT ![r] = IF c.op \notin Publications THEN @ ELSE p]
    BY <1>1
  <2> HIDE DEF p, c
  <2> QED  BY <2>1, <2>3, <2>4
<1>10. Types'
  <2>1. \A q \in Ranks, u \in Threads :
           /\ call'[q][u].res \in Outcomes
           /\ call'[q][u].at \in {"lock", "fork", "accept", "write", "read", "body"}
                  <=> call'[q][u].todo # <<>>
    <3>1. ASSUME NEW q \in Ranks, NEW u \in Threads
          PROVE  call'[q][u] \in CallRec /\ Busy(call'[q][u])
      BY <1>3
    <3> QED  BY <3>1, BusyCalls
  <2>2. UNCHANGED <<world, others, stream, mixed, entered, pm, req, ans>>
    BY <1>1
  <2>3. TypeOK
    BY <1>2 DEF Types
  <2>4. TypeOK'
    BY <1>5, <1>6, <1>8, <2>1, <2>2, <2>3 DEF TypeOK
  <2> QED  BY <1>2, <1>3, <1>5, <1>9, <2>2, <2>4 DEF Types
<1>11. Locks(r)'
  BY <1>1, <1>2, <1>3, <1>4, <1>6, Distinct DEF Local, Locks, InCall
<1>12. Unanswered(r)' <=> Unanswered(r)
  BY <1>1 DEF Unanswered
<1>13. Socket(r)'
  <2>1. fd'[r] = "none" => fd[r] = "none"
    BY <1>5
  <2> QED  BY <1>1, <1>2, <1>5, <1>12, <2>1 DEF Local, Socket, Quiet
<1>14. Counts(r)'
  <2>1. \A u \in Threads : InCall(r, u)' => u # t /\ InCall(r, u) /\ call'[r][u] = call[r][u]
    BY <1>3, <1>4 DEF InCall
  <2>2. CASE c.op \in Barriers
    <3>1. t = "main"
      BY <1>1, <1>2, <2>2 DEF Local, Counts, InCall
    <3>2. \A u \in Threads : ~(InCall(r, u)' /\ call'[r][u].op \in Barriers)
      BY <1>2, <2>1, <3>1 DEF Local, Counts
    <3>3. left'[r] <= entered'[r]
      BY <1>1, <1>7, <1>8, <2>2, BarriersAssumption
    <3> QED  BY <3>2, <3>3 DEF Counts
  <2>3. CASE c.op \notin Barriers
    BY <1>1, <1>2, <1>8, <2>1, <2>3 DEF Local, Counts
  <2> QED  BY <2>2, <2>3
<1>15. ASSUME r \notin mixed  PROVE Exchange(r)' /\ Own(r)'
  <2>1. Exchange(r) /\ Own(r)
    BY <1>1, <1>2, <1>15 DEF Local
  <2>2. Own(r)'
    BY <1>1, <1>3, <1>4, <2>1 DEF Own
  <2>3. \A u \in Threads : /\ OnWire(r, u)' <=> OnWire(r, u)
                           /\ call'[r][u].at = "body" <=> call[r][u].at = "body"
                           /\ OnWire(r, u) => call'[r][u] = call[r][u]
    BY <1>1, <1>3, <1>4 DEF OnWire
  <2>4. Silent(r)' <=> Silent(r)
    BY <1>1 DEF Silent
  <2>5. Pending(r) => Pending(r)'
    <3>1. \A m : m.by \in Threads /\ For(r, m) => For(r, m)'
      BY <2>3 DEF For
    <3>2. /\ req[r] # <<>> => req[r][1].by \in Threads
          /\ pm.in[r] # None => pm.in[r].by \in Threads
          /\ ans[r] # <<>> => ans[r][1].by \in Threads
      BY <1>2, Messages DEF Requests, Answers
    <3> QED  BY <1>1, <1>12, <3>1, <3>2 DEF Pending, Unanswered
  <2>6. fd'[r] # "closed" => fd[r] # "closed"
    BY <1>5
  <2> QED  BY <1>1, <1>12, <2>1, <2>2, <2>3, <2>4, <2>5, <2>6 DEF Exchange
<1>16. Local(r)'
  BY <1>1, <1>11, <1>13, <1>14, <1>15 DEF Local
<1>17. \A q \in Ranks \ {r} : Same(q)
  BY <1>1, <1>3, <1>5, <1>6, <1>8 DEF Same
<1> QED  BY <1>1, <1>10, <1>16, <1>17, Elsewhere

\* The functions of PMI1 and PMI2 return.
LEMMA ReturnKeepsWire ==
    ASSUME Wire, NEW r \in Ranks, NEW t \in Threads, UNCHANGED others,
           \/ world.api = "pmi1" /\ t = "main" /\ Return1(r)
           \/ world.api = "pmi2" /\ Return2(r, t)
    PROVE  Wire'
<1>1. /\ Types /\ Local(r) /\ inited[r] \in {"no", "single", "pm"}
      /\ phase[r] \in {"new", "ready", "final", "killed"}
  BY DEF Wire, Types, TypeOK
<1>2. call[r][t].at = "done"
  BY DEF Return1, Return2, Leave
<1>3. phase[r] = "new" => t = "main" /\ call[r][t].op = InitOp
  BY <1>1, <1>2 DEF Local, Socket, InCall, Threads
<1>4. CASE world.api = "pmi1" /\ t = "main" /\ Return1(r)
  <2> DEFINE op == call[r]["main"].op
             conn == IF op = "PMI_Finalize" /\ WithManager(r) THEN "closed" ELSE fd[r]
             state == Initialized1(r, call[r]["main"])
             stage == CASE op = "PMI_Init"     -> "ready"
                        [] op = "PMI_Finalize" -> "final"
                        [] OTHER               -> phase[r]
  <2>1. Leave(r, "main", conn, state, stage)
    BY <1>4 DEF Return1
  <2>2. conn \in {fd[r], "closed"}
    OBVIOUS
  <2>3. state \in {"no", "pm"}
    <3>1. world.env # "none" /\ inited[r] \in {"no", "pm"}
      BY <1>1, <1>4 DEF Types
    <3>2. op = "PMI_Init" /\ Succeeds1(r, call[r]["main"]) => fd[r] # "none"
      BY <3>1 DEF Succeeds1, NameService
    <3> QED  BY <3>1, <3>2 DEF Initialized1
  <2>4. stage \in {"new", "ready", "final", "killed"} /\ stage # "new"
    BY <1>1, <1>3, <1>4 DEF InitOp
  <2> HIDE DEF conn, state, stage
  <2> QED  BY <1>4, <2>1, <2>2, <2>3, <2>4, LeaveKeepsWire
<1>5. CASE world.api = "pmi2" /\ Return2(r, t)
  <2> DEFINE c == call[r][t]
             op == c.op
             conn == IF Closes(r, c) THEN "closed" ELSE fd[r]
             state == CASE op = "PMI2_Init" /\ world.env = "none"  -> "single"
                        [] op = "PMI2_Init" /\ Succeeds2(r, c)     -> "pm"
                        [] OTHER                                   -> inited[r]
             stage == CASE op = "PMI2_Init"     -> "ready"
                        [] op = "PMI2_Finalize" -> "final"
                        [] OTHER                -> phase[r]
  <2>1. Leave(r, t, conn, state, stage)
    BY <1>5 DEF Return2
  <2>2. conn \in {fd[r], "closed"}
    OBVIOUS
  <2>3. state \in {"no", "single", "pm"}
    BY <1>1
  <2>4. stage \in {"new", "ready", "final", "killed"} /\ stage # "new"
    BY <1>1, <1>3, <1>5 DEF InitOp
  <2> HIDE DEF conn, state, stage
  <2> QED  BY <1>5, <2>1, <2>2, <2>3, <2>4, LeaveKeepsWire
<1> QED  BY <1>4, <1>5

-----------------------------------------------------------------------------
\* The manager takes a request and may answer.
LEMMA Removed ==
    ASSUME NEW S, NEW s \in Seq(S), NEW i \in 1 .. Len(s)
    PROVE  /\ RemoveAt(s, i) \in Seq(S) /\ Len(RemoveAt(s, i)) = Len(s) - 1
           /\ \A j \in 1 .. Len(s) - 1 : RemoveAt(s, i)[j] = IF j < i THEN s[j] ELSE s[j + 1]
           /\ Len(s) = 1 => RemoveAt(s, i) = <<>>
<1> DEFINE n == Len(s)
           u == SubSeq(s, 1, i - 1)
           v == SubSeq(s, i + 1, n)
           w == u \o v
<1>1. n \in Nat /\ i \in 1 .. n /\ \A j \in 1 .. n : s[j] \in S
  OBVIOUS
<1>2. u \in Seq(S) /\ Len(u) = i - 1 /\ \A j \in 1 .. i - 1 : u[j] = s[j]
  <2>1. \A j \in 1 .. i - 1 : s[j] \in S
    BY <1>1
  <2>2. 1 \in Int /\ i - 1 \in Int
    BY <1>1
  <2> HIDE DEF n
  <2> QED  BY <1>1, <2>1, <2>2, SubSeqProperties
<1>3. v \in Seq(S) /\ Len(v) = n - i /\ \A j \in 1 .. n - i : v[j] = s[i + j]
  <2>1. \A j \in i + 1 .. n : s[j] \in S
    BY <1>1
  <2>2. i + 1 \in Int /\ n \in Int
    BY <1>1
  <2> HIDE DEF n
  <2>3. PICK m \in Int : m = i + 1
    BY <2>2
  <2>4. \A j \in m .. n : s[j] \in S
    BY <2>1, <2>3
  <2>5. /\ SubSeq(s, m, n) \in Seq(S)
        /\ Len(SubSeq(s, m, n)) = IF m <= n THEN n - m + 1 ELSE 0
        /\ \A j \in 1 .. n - m + 1 : SubSeq(s, m, n)[j] = s[m + j - 1]
    BY <2>2, <2>4, SubSeqProperties
  <2> QED  BY <1>1, <2>3, <2>5
<1> HIDE DEF u, v, n
<1>4. /\ w \in Seq(S) /\ Len(w) = n - 1
      /\ \A j \in 1 .. n - 1 : w[j] = IF j < i THEN u[j] ELSE v[j - (i - 1)]
  <2>1. /\ w \in Seq(S) /\ Len(w) = Len(u) + Len(v)
        /\ \A j \in 1 .. Len(u) + Len(v) : w[j] = IF j <= Len(u) THEN u[j] ELSE v[j - Len(u)]
    BY <1>2, <1>3, ConcatProperties
  <2> HIDE DEF w
  <2>2. Len(w) = n - 1
    BY <1>1, <1>2, <1>3, <2>1
  <2>3. \A j \in 1 .. n - 1 : w[j] = IF j < i THEN u[j] ELSE v[j - (i - 1)]
    BY <1>1, <1>2, <1>3, <2>1
  <2> QED  BY <2>1, <2>2, <2>3
<1> HIDE DEF w
<1>5. \A j \in 1 .. n - 1 : w[j] = IF j < i THEN s[j] ELSE s[j + 1]
  <2> SUFFICES ASSUME NEW j \in 1 .. n - 1
               PROVE  w[j] = IF j < i THEN s[j] ELSE s[j + 1]
    OBVIOUS
  <2>1. CASE j < i
    <3>1. j \in 1 .. i - 1
      BY <1>1, <2>1
    <3> QED  BY <1>2, <1>4, <2>1, <3>1
  <2>2. CASE ~ (j < i)
    <3>1. j - (i - 1) \in 1 .. n - i
      BY <1>1, <2>2
    <3>2. v[j - (i - 1)] = s[i + (j - (i - 1))]
      BY <1>3, <3>1
    <3>3. i + (j - (i - 1)) = j + 1
      BY <1>1
    <3> QED  BY <1>4, <2>2, <3>2, <3>3
  <2> QED  BY <2>1, <2>2
<1>6. n = 1 => w = <<>>
  BY <1>4, EmptySeq
<1>7. RemoveAt(s, i) = w
  BY DEF RemoveAt, w, u, v, n
<1> QED  BY <1>4, <1>5, <1>6, <1>7 DEF n

\* A message joins those on the way.
LEMMA Appended ==
    ASSUME NEW S, NEW s \in Seq(S), NEW a \in S
    PROVE  /\ Append(s, a) \in Seq(S) /\ Append(s, a) # <<>>
           /\ s # <<>> => Append(s, a)[1] = s[1]
           /\ s = <<>> => Len(Append(s, a)) = 1 /\ Append(s, a)[1] = a
<1> DEFINE u == Append(s, a)
           n == Len(s)
<1>1. /\ u \in Seq(S) /\ u # <<>> /\ Len(u) = n + 1
      /\ \A i \in 1 .. n : u[i] = s[i]
      /\ u[n + 1] = a
  BY AppendProperties
<1>2. n \in Nat /\ (s # <<>> => n # 0) /\ (s = <<>> => n = 0)
  BY EmptySeq
<1> HIDE DEF u, n
<1>3. (n # 0 => u[1] = s[1]) /\ (n = 0 => Len(u) = 1 /\ u[1] = a)
  BY <1>1, <1>2
<1> QED  BY <1>1, <1>2, <1>3 DEF u

\* What the manager may do to rank q.
LEMMA ServeLocal ==
    ASSUME Wire, NEW q \in Ranks, UNCHANGED <<clientVars, history>>,
           pm.up, pm'.up = pm.up, pm'.lazy = pm.lazy,
           ans'[q] = ans[q] \/ \E a \in Answers : ans'[q] = Append(ans[q], a),
           fd[q] = "none" => Quiet(q)',
           q \notin mixed /\ Alive(q) /\ fd[q] # "closed" =>
               Pending(q)' \/ (Silent(q)' /\ ans'[q] = <<>> /\ ~Unanswered(q)')
    PROVE  Local(q)'
<1>1. Local(q) /\ Types
  BY DEF Wire
<1>2. /\ UNCHANGED <<world, fd, inited, phase, mutex, stream, call, mixed, entered, left, pub>>
  BY DEF clientVars, history
<1>3. ans[q] # <<>> => ans'[q] # <<>> /\ ans'[q][1] = ans[q][1]
  <2>1. ans[q] \in Seq(Answers)
    BY <1>1 DEF Types
  <2> QED  BY <2>1, Appended
<1>4. Locks(q)' /\ Counts(q)'
  BY <1>1, <1>2 DEF Local, Locks, Counts, InCall
<1>5. Socket(q)'
  BY <1>1, <1>2, <1>3 DEF Local, Socket, InCall, InitOp
<1>6. ASSUME q \notin mixed'  PROVE (Alive(q)' => Exchange(q)') /\ Own(q)'
  <2>1. (Alive(q) => Exchange(q)) /\ Own(q) /\ (Alive(q)' <=> Alive(q))
    BY <1>1, <1>2, <1>6 DEF Local, Alive
  <2>2. Own(q)'
    BY <1>2, <2>1 DEF Own
  <2>3. ASSUME Alive(q)  PROVE Exchange(q)'
    <3>1. \A u \in Threads : OnWire(q, u)' <=> OnWire(q, u)
      BY <1>2 DEF OnWire
    <3>2. q \notin mixed
      BY <1>2, <1>6
    <3>3. Exchange(q)
      BY <2>1, <2>3
    <3>4. fd'[q] # "closed" =>
             Pending(q)' \/ (Silent(q) /\ ans[q] = <<>> /\ ~Unanswered(q))'
      BY <1>2, <2>3, <3>2
    <3> QED  BY <1>2, <1>3, <3>1, <3>3, <3>4 DEF Exchange
  <2> QED  BY <2>1, <2>2, <2>3
<1> QED  BY <1>4, <1>5, <1>6 DEF Local

\* A rank whose pending request is answered.
LEMMA AnsweredPending ==
    ASSUME Types, NEW q \in Ranks, NEW m \in Requests, For(q, m), UNCHANGED call,
           ans[q] = <<>>, req'[q] = <<>>, ~Unanswered(q)',
           NEW a \in Answers, a.cmd = m.cmd, a.by = m.by, ans'[q] = Append(ans[q], a)
    PROVE  Pending(q)'
<1>1. Len(ans'[q]) = 1 /\ ans'[q][1] = a
  BY Appended DEF Types
<1>2. For(q, ans[q][1])'
  BY <1>1 DEF For, OnWire
<1> QED  BY <1>1, <1>2 DEF Pending

\* The manager answers request m of rank r with a.
Responds(r, m, a) ==
    /\ a.cmd = m.cmd /\ a.by = m.by
    /\ ans' = [ans EXCEPT ![r] = Append(@, a)]
    /\ pm' \in Managers /\ pm'.up = pm.up /\ pm'.lazy = pm.lazy /\ pm'.in = pm.in
    /\ pm'.mid = pm.mid /\ pm'.due = pm.due
    /\ \/ pm'.kvs = pm.kvs /\ (m.cmd = "put" => a.rc # 0)
       \/ m.cmd = "put" /\ pm'.kvs = [pm.kvs EXCEPT ![m.key] = m.val] /\ a.rc = 0
    /\ m.cmd = "my_kvsname" => a.rc = 0
    /\ m.cmd = "get" => /\ a.rc = 0
                        /\ a.val = pm.kvs[m.key] \/ (a.val = 0 /\ m.key \notin pm.due)

\* The answer to a request is for its sender.
LEMMA AnswerFields ==
    ASSUME NEW m \in Requests, NEW rc \in Nat, NEW val \in Nat
    PROVE  /\ Answer(m, rc, val) \in Answers
           /\ Answer(m, rc, val).cmd = m.cmd /\ Answer(m, rc, val).by = m.by
           /\ Answer(m, rc, val).rc = rc /\ Answer(m, rc, val).val = val
BY DEF Answer, Answers, Requests

\* One without a result or a value.
LEMMA PlainAnswer ==
    \A m \in Requests : /\ Answer(m, 0, 0) \in Answers
                        /\ Answer(m, 0, 0).cmd = m.cmd /\ Answer(m, 0, 0).by = m.by
BY AnswerFields

\* The manager reads a line of a command, collects a request of all ranks, or
\* answers.
LEMMA ServeEffect ==
    ASSUME Types, NEW r \in Ranks, Serve(r)
    PROVE  \E i \in 1 .. Len(req[r]), m \in Requests :
              /\ m = req[r][i] /\ Serving(r, i)
              /\ \/ TakeLine(r, m)
                 \/ r \notin pm.mid /\ Collect(r, m)
                 \/ /\ r \notin pm.mid /\ m.cmd \notin Collective \cup {"spawn-part"}
                    /\ \E a \in Answers : Responds(r, m, a)
<1>1. PICK i \in 1 .. Len(req[r]) :
         /\ Serving(r, i)
         /\ \/ TakeLine(r, req[r][i])
            \/ /\ r \notin pm.mid
               /\ \/ Put(r, req[r][i]) \/ Get(r, req[r][i]) \/ Collect(r, req[r][i])
                  \/ Name(r, req[r][i]) \/ Attribute(r, req[r][i]) \/ Query(r, req[r][i])
                  \/ Refuse(r, req[r][i])
  BY DEF Serve
<1>2. PICK m \in Requests : m = req[r][i]
  <2>1. req[r] \in Seq(Requests)
    BY DEF Types
  <2> QED  BY <2>1
<1>3. pm \in Managers
  BY DEF Types
<1>4. m.key \in Keys /\ m.val \in Nat
  BY DEF Requests
<1>5. CASE Put(r, m)
  <2>1. m.cmd = "put" /\ pm' = [pm EXCEPT !.kvs[m.key] = m.val] /\ Reply(r, m, 0, 0)
    BY <1>5 DEF Put
  <2>2. /\ pm' \in Managers /\ pm'.up = pm.up /\ pm'.lazy = pm.lazy /\ pm'.in = pm.in
        /\ pm'.mid = pm.mid /\ pm'.due = pm.due
        /\ pm'.kvs = [pm.kvs EXCEPT ![m.key] = m.val]
    BY <1>3, <1>4, <2>1 DEF Managers
  <2> DEFINE a == Answer(m, 0, 0)
  <2>a. a \in Answers /\ a.cmd = m.cmd /\ a.by = m.by /\ a.rc = 0
    BY AnswerFields
  <2>b. ans' = [ans EXCEPT ![r] = Append(@, a)]
    BY <2>1 DEF Reply
  <2> HIDE DEF a
  <2>3. /\ a \in Answers /\ a.cmd = m.cmd /\ a.by = m.by /\ a.rc = 0
        /\ ans' = [ans EXCEPT ![r] = Append(@, a)]
    BY <2>a, <2>b
  <2>4. Responds(r, m, a)
    BY <2>1, <2>2, <2>3 DEF Responds
  <2>5. m.cmd \notin Collective \cup {"spawn-part"}
    BY <2>1 DEF Collective
  <2> QED  BY <1>1, <1>2, <1>5, <2>3, <2>4, <2>5 DEF TakeLine
<1>6. CASE Get(r, m)
  <2>1. PICK val \in Nat : /\ m.cmd = "get" /\ pm' = pm /\ Reply(r, m, 0, val)
                           /\ val = pm.kvs[m.key] \/ (val = 0 /\ m.key \notin pm.due)
    BY <1>3, <1>4, <1>6 DEF Get, Managers
  <2> DEFINE a == Answer(m, 0, val)
  <2>a. a \in Answers /\ a.cmd = m.cmd /\ a.by = m.by /\ a.rc = 0 /\ a.val = val
    BY AnswerFields
  <2>b. ans' = [ans EXCEPT ![r] = Append(@, a)]
    BY <2>1 DEF Reply
  <2> HIDE DEF a
  <2>2. /\ a \in Answers /\ a.cmd = m.cmd /\ a.by = m.by /\ a.rc = 0 /\ a.val = val
        /\ ans' = [ans EXCEPT ![r] = Append(@, a)]
    BY <2>a, <2>b
  <2>3. Responds(r, m, a)
    BY <1>3, <2>1, <2>2 DEF Responds
  <2>4. m.cmd \notin Collective \cup {"spawn-part"}
    BY <2>1 DEF Collective
  <2> QED  BY <1>1, <1>2, <1>6, <2>2, <2>3, <2>4 DEF TakeLine
<1>7. ASSUME NEW rc \in Nat, NEW val \in Nat, Reply(r, m, rc, val), r \notin pm.mid,
             m.cmd \notin Collective \cup {"spawn-part", "get"},
             m.cmd = "put" => rc # 0, m.cmd = "my_kvsname" => rc = 0,
             pm' \in Managers, pm'.up = pm.up, pm'.lazy = pm.lazy, pm'.in = pm.in,
             pm'.mid = pm.mid, pm'.due = pm.due, pm'.kvs = pm.kvs
      PROVE  /\ r \notin pm.mid /\ m.cmd \notin Collective \cup {"spawn-part"}
             /\ \E a \in Answers : Responds(r, m, a)
  <2>1. PICK a \in Answers : /\ a.cmd = m.cmd /\ a.by = m.by /\ a.rc = rc
                             /\ ans' = [ans EXCEPT ![r] = Append(@, a)]
    BY <1>7, AnswerFields, ZenonT(40) DEF Reply
  <2>2. Responds(r, m, a)
    BY <1>7, <2>1 DEF Responds
  <2> QED  BY <1>7, <2>2
<1>8. CASE Name(r, m) /\ r \notin pm.mid
  <2>1. /\ m.cmd \in {"publish", "unpublish", "lookup"}
        /\ \E rc \in {0, 1}, val \in {0, 1} : Reply(r, m, rc, val)
    BY <1>3, <1>8 DEF Name, Managers
  <2>2. /\ pm' \in Managers /\ pm'.up = pm.up /\ pm'.lazy = pm.lazy /\ pm'.in = pm.in
        /\ pm'.mid = pm.mid /\ pm'.due = pm.due /\ pm'.kvs = pm.kvs
    BY <1>3, <1>8, ZenonT(40) DEF Name, Managers
  <2>3. m.cmd \notin Collective \cup {"spawn-part", "get", "put", "my_kvsname"}
    BY <2>1 DEF Collective
  <2> QED  BY <1>1, <1>2, <1>7, <1>8, <2>1, <2>2, <2>3
<1>9. CASE Attribute(r, m) /\ r \notin pm.mid
  <2>1. /\ m.cmd \in {"putnodeattr", "getnodeattr", "getnodeattr-wait"}
        /\ \E val \in {0, 1} : Reply(r, m, 0, val)
    BY <1>3, <1>9 DEF Attribute, Managers
  <2>2. /\ pm' \in Managers /\ pm'.up = pm.up /\ pm'.lazy = pm.lazy /\ pm'.in = pm.in
        /\ pm'.mid = pm.mid /\ pm'.due = pm.due /\ pm'.kvs = pm.kvs
    BY <1>3, <1>9 DEF Attribute, Managers
  <2>3. m.cmd \notin Collective \cup {"spawn-part", "get", "put", "my_kvsname"}
    BY <2>1 DEF Collective
  <2> QED  BY <1>1, <1>2, <1>7, <1>9, <2>1, <2>2, <2>3
<1>10. CASE Query(r, m) /\ r \notin pm.mid
  <2>1. m.cmd \in Queries /\ pm' = pm /\ \E val \in {0, 1} : Reply(r, m, 0, val)
    BY <1>10 DEF Query
  <2>2. m.cmd \notin Collective \cup {"spawn-part", "get", "put"}
    BY <2>1 DEF Collective, Queries
  <2> QED  BY <1>1, <1>2, <1>3, <1>7, <1>10, <2>1, <2>2
<1>11. CASE Refuse(r, m) /\ r \notin pm.mid
  <2>1. m.cmd \in Refusable /\ pm' = [pm EXCEPT !.refusals = @ + 1]
    BY <1>11 DEF Refuse
  <2>4. \E rc \in Nat, val \in Nat : rc # 0 /\ Reply(r, m, rc, val)
    BY <1>11 DEF Refuse
  <2>2. /\ pm' \in Managers /\ pm'.up = pm.up /\ pm'.lazy = pm.lazy /\ pm'.in = pm.in
        /\ pm'.mid = pm.mid /\ pm'.due = pm.due /\ pm'.kvs = pm.kvs
    BY <1>3, <2>1 DEF Managers
  <2>3. m.cmd \notin Collective \cup {"spawn-part", "get", "my_kvsname"}
    BY <2>1 DEF Collective, Refusable
  <2> QED  BY <1>1, <1>2, <1>7, <1>11, <2>2, <2>3, <2>4
<1> QED  BY <1>1, <1>2, <1>5, <1>6, <1>8, <1>9, <1>10, <1>11

\* What a collective request of rank r does to rank q: nothing; it waits; it is
\* answered; the request q waits with is answered; or a lazy fence is complete.
Collected(r, m, q) ==
    \/ q # r /\ ans'[q] = ans[q] /\ pm'.in[q] = pm.in[q]
    \/ q = r /\ ans'[q] = ans[q] /\ pm'.in[q] = m /\ ~(pm.lazy /\ m.cmd = "barrier")
    \/ /\ q = r /\ ans'[q] = Append(ans[q], Answer(m, 0, 0))
       /\ pm'.in[q] = None \/ (pm'.in[q] = m /\ pm.lazy /\ m.cmd = "barrier")
    \/ /\ q # r /\ pm.in[q] # None /\ pm.in[q].cmd = m.cmd /\ ~(pm.lazy /\ m.cmd = "barrier")
       /\ ans'[q] = Append(ans[q], Answer(pm.in[q], 0, 0)) /\ pm'.in[q] = None
    \/ /\ q # r /\ pm.in[q] # None /\ pm.in[q].cmd = m.cmd /\ pm.lazy /\ m.cmd = "barrier"
       /\ ans'[q] = ans[q] /\ pm'.in[q] = None

\* What a request of all ranks does to each of them.
LEMMA CollectEffect ==
    ASSUME Types, NEW r \in Ranks, NEW m \in Requests, Collect(r, m)
    PROVE  /\ pm' \in Managers /\ ans' \in [Ranks -> Seq(Answers)]
           /\ pm'.up = pm.up /\ pm'.lazy = pm.lazy /\ pm'.mid = pm.mid /\ pm'.kvs = pm.kvs
           /\ \A q \in Ranks : Collected(r, m, q)
<1> DEFINE in == [pm.in EXCEPT ![r] = m]
           all == \A q \in Ranks : in[q] # None /\ in[q].cmd = m.cmd
           early == pm.lazy /\ m.cmd = "barrier"
           first == {q \in Ranks : q = r \/ (all /\ ~early)}
<1>1. /\ pm' = IF all THEN [pm EXCEPT !.in = [q \in Ranks |-> None],
                                      !.due = {k \in Keys : pm.kvs[k] # 0}]
                      ELSE [pm EXCEPT !.in = in]
      /\ ans' = IF all \/ early
                THEN [q \in Ranks |-> IF q \in first THEN Append(ans[q], Answer(in[q], 0, 0))
                                                     ELSE ans[q]]
                ELSE ans
  BY DEF Collect
<1>2. pm \in Managers /\ ans \in [Ranks -> Seq(Answers)]
  BY DEF Types
<1>3. /\ in \in [Ranks -> Requests \cup {None}] /\ in[r] = m
      /\ \A q \in Ranks \ {r} : in[q] = pm.in[q]
  BY <1>2 DEF Managers
<1>4. all \in BOOLEAN /\ early \in BOOLEAN
  OBVIOUS
<1>5. all => \A q \in Ranks : in[q] # None /\ in[q].cmd = m.cmd /\ in[q] \in Requests
  BY <1>3
<1>6. \A q \in Ranks : q \in first <=> q = r \/ (all /\ ~early)
  OBVIOUS
<1> HIDE DEF in, all, first
<1>7. /\ pm' \in Managers
      /\ pm'.up = pm.up /\ pm'.lazy = pm.lazy /\ pm'.mid = pm.mid /\ pm'.kvs = pm.kvs
      /\ all => \A q \in Ranks : pm'.in[q] = None
      /\ ~all => pm'.in = in
  <2>1. CASE all
    <3>1. pm' = [pm EXCEPT !.in = [q \in Ranks |-> None], !.due = {k \in Keys : pm.kvs[k] # 0}]
      BY <1>1, <2>1
    <3> QED  BY <1>2, <2>1, <3>1 DEF Managers
  <2>2. CASE ~all
    <3>1. pm' = [pm EXCEPT !.in = in]
      BY <1>1, <2>2
    <3> QED  BY <1>2, <1>3, <2>2, <3>1 DEF Managers
  <2> QED  BY <2>1, <2>2
<1>8. ASSUME NEW q \in Ranks, q \in first, all \/ early  PROVE Answer(in[q], 0, 0) \in Answers
  <2>1. in[q] \in Requests
    BY <1>3, <1>5, <1>6, <1>8
  <2> QED  BY <2>1, AnswerFields
<1>9. ans' \in [Ranks -> Seq(Answers)]
  <2>1. CASE all \/ early
    <3>1. ans' = [q \in Ranks |-> IF q \in first THEN Append(ans[q], Answer(in[q], 0, 0))
                                                 ELSE ans[q]]
      BY <1>1, <2>1
    <3>2. \A q \in Ranks : q \in first => Append(ans[q], Answer(in[q], 0, 0)) \in Seq(Answers)
      BY <1>2, <1>8, <2>1, AppendProperties
    <3> QED  BY <1>2, <3>1, <3>2
  <2>2. CASE ~(all \/ early)
    BY <1>1, <1>2, <2>2
  <2> QED  BY <2>1, <2>2
<1>10. \A q \in Ranks : ans'[q] = IF (all \/ early) /\ q \in first
                                 THEN Append(ans[q], Answer(in[q], 0, 0)) ELSE ans[q]
  BY <1>1
<1>11. ASSUME NEW q \in Ranks  PROVE Collected(r, m, q)
  <2>1. CASE q = r
    <3>1. ans'[q] = IF all \/ early THEN Append(ans[q], Answer(m, 0, 0)) ELSE ans[q]
      BY <1>3, <1>6, <1>10, <2>1
    <3>2. pm'.in[q] = IF all THEN None ELSE m
      BY <1>3, <1>7, <2>1
    <3> QED  BY <2>1, <3>1, <3>2 DEF Collected
  <2>2. CASE q # r /\ all
    <3>1. /\ pm.in[q] # None /\ pm.in[q].cmd = m.cmd
          /\ in[q] = pm.in[q] /\ pm'.in[q] = None
      BY <1>3, <1>5, <1>7, <2>2
    <3>2. ans'[q] = IF early THEN ans[q] ELSE Append(ans[q], Answer(pm.in[q], 0, 0))
      BY <1>6, <1>10, <2>2, <3>1
    <3> QED  BY <2>2, <3>1, <3>2 DEF Collected
  <2>3. CASE q # r /\ ~all
    BY <1>3, <1>6, <1>7, <1>10, <2>3 DEF Collected
  <2> QED  BY <2>1, <2>2, <2>3
<1> QED  BY <1>7, <1>9, <1>11

\* A step of the manager keeps the types.
LEMMA ManagerKeepsTypes ==
    ASSUME Types,
           UNCHANGED <<world, fd, inited, phase, mutex, stream, call, mixed, entered, left, pub>>,
           UNCHANGED others, req' \in [Ranks -> Seq(Requests)], ans' \in [Ranks -> Seq(Answers)],
           pm' \in Managers
    PROVE  Types'
<1>1. TypeOK'
  BY DEF Types, TypeOK
<1> QED  BY <1>1 DEF Types

\* The manager serves a request.
LEMMA ServeKeepsWire ==
    ASSUME Wire, NEW r \in Ranks, Serve(r), UNCHANGED <<clientVars, history, others>>
    PROVE  Wire'
<1>1. Types /\ \A q \in Ranks : Local(q)
  BY DEF Wire
<1>2. PICK i \in 1 .. Len(req[r]), m \in Requests :
         /\ m = req[r][i] /\ Serving(r, i)
         /\ \/ TakeLine(r, m)
            \/ r \notin pm.mid /\ Collect(r, m)
            \/ /\ r \notin pm.mid /\ m.cmd \notin Collective \cup {"spawn-part"}
               /\ \E a \in Answers : Responds(r, m, a)
  BY <1>1, ServeEffect
<1>3. /\ UNCHANGED <<world, fd, inited, phase, mutex, stream, call, mixed, entered, left, pub>>
      /\ UNCHANGED others
  BY DEF clientVars, history
<1>4. /\ req \in [Ranks -> Seq(Requests)] /\ ans \in [Ranks -> Seq(Answers)] /\ pm \in Managers
      /\ pm.up /\ req' = [req EXCEPT ![r] = RemoveAt(@, i)]
      /\ \A j \in 1 .. i - 1 : ~Servable(r, req[r][j])
  BY <1>1, <1>2 DEF Serving, Types
<1>5. /\ req' \in [Ranks -> Seq(Requests)]
      /\ \A q \in Ranks \ {r} : req'[q] = req[q]
      /\ req[r] # <<>> /\ (Len(req[r]) = 1 => req'[r] = <<>>)
  <2>1. RemoveAt(req[r], i) \in Seq(Requests) /\ (Len(req[r]) = 1 => RemoveAt(req[r], i) = <<>>)
    BY <1>4, Removed
  <2>2. req[r] # <<>>
    BY <1>2, <1>4
  <2> QED  BY <1>4, <2>1, <2>2
<1>6. fd[r] # "none"
  BY <1>1, <1>5 DEF Local, Socket, Quiet
<1>7. ASSUME NEW q \in Ranks, q \notin mixed, Alive(q), fd[q] # "closed"
      PROVE  Pending(q) \/ (Silent(q) /\ ans[q] = <<>> /\ ~Unanswered(q))
  BY <1>1, <1>7 DEF Local, Exchange
<1>8. ASSUME Pending(r)
      PROVE  /\ req'[r] = <<>> /\ For(r, m) /\ ans[r] = <<>> /\ ~Unanswered(r) /\ i = 1
             /\ m = req[r][1]
  <2>1. Len(req[r]) = 1 /\ For(r, req[r][1]) /\ ans[r] = <<>> /\ ~Unanswered(r)
    BY <1>5, <1>8 DEF Pending
  <2>2. i = 1
    BY <2>1
  <2> QED  BY <1>2, <1>5, <2>1, <2>2
<1>9. ASSUME Silent(r), r \notin pm.mid  PROVE TakeLine(r, m)
  <2>1. req[r][1].cmd = "spawn-part"
    BY <1>9 DEF Silent
  <2>2. Servable(r, req[r][1])
    BY <2>1 DEF Servable, Collective
  <2>3. i = 1
    BY <1>4, <2>2
  <2> QED  BY <1>2, <1>9, <2>1, <2>3 DEF Collect, Collective
<1>10. CASE TakeLine(r, m)
  <2>1. /\ pm' = [pm EXCEPT !.mid = @ \cup {r}] /\ UNCHANGED ans
    BY <1>10 DEF TakeLine
  <2>2. /\ pm' \in Managers /\ pm'.up = pm.up /\ pm'.lazy = pm.lazy /\ pm'.in = pm.in
        /\ r \in pm'.mid /\ \A q \in Ranks \ {r} : q \in pm'.mid <=> q \in pm.mid
    BY <1>4, <2>1 DEF Managers
  <2>3. Types'
    <3>1. ans' \in [Ranks -> Seq(Answers)]
      BY <1>4, <2>1
    <3> QED  BY <1>1, <1>3, <1>5, <2>2, <3>1, ManagerKeepsTypes
  <2>4. Unanswered(r)' <=> Unanswered(r)
    BY <2>2 DEF Unanswered
  <2>5. r \notin mixed /\ Alive(r) /\ fd[r] # "closed" =>
            Silent(r)' /\ ans'[r] = <<>> /\ ~Unanswered(r)'
    BY <1>7, <1>8, <2>1, <2>2, <2>4 DEF Silent
  <2>6. Local(r)'
    BY <1>4, <1>6, <2>1, <2>2, <2>5, ServeLocal
  <2>7. \A q \in Ranks \ {r} : Same(q)
    BY <1>3, <1>5, <2>1, <2>2 DEF Same
  <2> QED  BY <1>3, <2>2, <2>3, <2>6, <2>7, Elsewhere
<1>11. ASSUME r \notin pm.mid, ~TakeLine(r, m), NEW a \in Answers, Responds(r, m, a)
       PROVE  Wire'
  <2>1. /\ a.cmd = m.cmd /\ a.by = m.by
        /\ ans' = [ans EXCEPT ![r] = Append(@, a)]
        /\ pm' \in Managers /\ pm'.up = pm.up /\ pm'.lazy = pm.lazy /\ pm'.in = pm.in
        /\ pm'.mid = pm.mid
    BY <1>11 DEF Responds
  <2>2. /\ ans' \in [Ranks -> Seq(Answers)] /\ ans'[r] = Append(ans[r], a)
        /\ \A q \in Ranks \ {r} : ans'[q] = ans[q]
    BY <1>4, <2>1, AppendProperties
  <2>3. Types'
    BY <1>1, <1>3, <1>5, <2>1, <2>2, ManagerKeepsTypes
  <2>4. Unanswered(r)' <=> Unanswered(r)
    BY <2>1 DEF Unanswered
  <2>5. ASSUME r \notin mixed, Alive(r), fd[r] # "closed"  PROVE Pending(r)'
    <3>1. Pending(r)
      BY <1>7, <1>9, <1>11, <2>5
    <3> QED  BY <1>1, <1>3, <1>8, <2>1, <2>2, <2>4, <3>1, AnsweredPending
  <2>6. Local(r)'
    BY <1>4, <1>6, <2>1, <2>2, <2>5, ServeLocal
  <2>7. \A q \in Ranks \ {r} : Same(q)
    BY <1>3, <1>5, <2>1, <2>2 DEF Same
  <2> QED  BY <1>3, <2>1, <2>3, <2>6, <2>7, Elsewhere
<1>12. ASSUME r \notin pm.mid, ~TakeLine(r, m), Collect(r, m)
       PROVE  Wire'
  <2>1. /\ pm' \in Managers /\ ans' \in [Ranks -> Seq(Answers)]
        /\ pm'.up = pm.up /\ pm'.lazy = pm.lazy /\ pm'.mid = pm.mid
        /\ \A q \in Ranks : Collected(r, m, q)
    BY <1>1, <1>12, CollectEffect
  <2>2. Types'
    BY <1>1, <1>3, <1>5, <2>1, ManagerKeepsTypes
  <2>3. /\ Answer(m, 0, 0) \in Answers
        /\ Answer(m, 0, 0).cmd = m.cmd /\ Answer(m, 0, 0).by = m.by
    BY PlainAnswer
  <2>4. ASSUME NEW q \in Ranks, pm.in[q] # None
        PROVE  /\ pm.in[q] \in Requests /\ Answer(pm.in[q], 0, 0) \in Answers
               /\ Answer(pm.in[q], 0, 0).cmd = pm.in[q].cmd
               /\ Answer(pm.in[q], 0, 0).by = pm.in[q].by
    <3>1. pm.in[q] \in Requests
      BY <1>1, <2>4, Messages
    <3> QED  BY <3>1, PlainAnswer
  <2>5. Local(r)'
    <3>1. ASSUME r \notin mixed, Alive(r), fd[r] # "closed"  PROVE Pending(r)'
      <4>1. Pending(r)
        BY <1>7, <1>9, <1>12, <3>1
      <4>2. /\ req'[r] = <<>> /\ For(r, m) /\ ans[r] = <<>> /\ ~Unanswered(r)
        BY <1>8, <4>1
      <4>3. CASE /\ ans'[r] = ans[r] /\ pm'.in[r] = m /\ ~(pm.lazy /\ m.cmd = "barrier")
        <5>1. For(r, pm.in[r])'
          BY <1>3, <4>2, <4>3 DEF For, OnWire
        <5> QED  BY <4>2, <4>3, <5>1 DEF Pending
      <4>4. CASE /\ ans'[r] = Append(ans[r], Answer(m, 0, 0))
                 /\ pm'.in[r] = None \/ (pm'.in[r] = m /\ pm.lazy /\ m.cmd = "barrier")
        <5>1. ~Unanswered(r)'
          BY <2>1, <4>4 DEF Unanswered
        <5> QED  BY <1>1, <1>3, <2>3, <4>2, <4>4, <5>1, AnsweredPending
      <4> QED  BY <2>1, <4>3, <4>4 DEF Collected
    <3>2. ans'[r] = ans[r] \/ \E a \in Answers : ans'[r] = Append(ans[r], a)
      BY <2>1, <2>3 DEF Collected
    <3> QED  BY <1>4, <1>6, <2>1, <3>1, <3>2, ServeLocal
  <2>6. ASSUME NEW q \in Ranks \ {r}  PROVE Local(q)'
    <3>1. CASE ans'[q] = ans[q] /\ pm'.in[q] = pm.in[q]
      <4>1. Same(q)
        BY <1>3, <1>5, <2>1, <3>1 DEF Same
      <4> QED  BY <1>1, <1>3, <2>1, <4>1, Frame
    <3>2. CASE /\ pm.in[q] # None /\ pm.in[q].cmd = m.cmd /\ ~(pm.lazy /\ m.cmd = "barrier")
               /\ ans'[q] = Append(ans[q], Answer(pm.in[q], 0, 0)) /\ pm'.in[q] = None
      <4>1. Unanswered(q) /\ ~Unanswered(q)'
        BY <3>2 DEF Unanswered
      <4>2. fd[q] # "none"
        BY <1>1, <4>1 DEF Local, Socket, Quiet
      <4>3. ASSUME q \notin mixed, Alive(q), fd[q] # "closed"  PROVE Pending(q)'
        <5>1. Pending(q)
          BY <1>7, <4>1, <4>3
        <5>2. ans[q] = <<>> /\ For(q, pm.in[q]) /\ req'[q] = <<>>
          BY <1>5, <4>1, <5>1 DEF Pending
        <5>3. PICK n \in Requests : n = pm.in[q]
          BY <2>4, <3>2
        <5>4. /\ Answer(n, 0, 0) \in Answers /\ For(q, n)
              /\ Answer(n, 0, 0).cmd = n.cmd /\ Answer(n, 0, 0).by = n.by
          BY <2>4, <3>2, <5>2, <5>3
        <5> QED  BY <1>1, <1>3, <3>2, <4>1, <5>2, <5>3, <5>4, AnsweredPending
      <4> QED  BY <1>4, <2>1, <2>4, <3>2, <4>2, <4>3, ServeLocal
    <3>3. CASE /\ pm.in[q] # None /\ pm.in[q].cmd = m.cmd /\ pm.lazy /\ m.cmd = "barrier"
               /\ ans'[q] = ans[q] /\ pm'.in[q] = None
      <4>1. ~Unanswered(q) /\ ~Unanswered(q)'
        BY <3>3 DEF Unanswered
      <4>2. fd[q] = "none" => Quiet(q)'
        BY <1>1, <1>5, <3>3, <4>1 DEF Local, Socket, Quiet
      <4>3. Silent(q)' <=> Silent(q)
        BY <1>5, <2>1 DEF Silent
      <4>4. Pending(q) => Pending(q)'
        <5>1. \A x : For(q, x) => For(q, x)'
          BY <1>3 DEF For, OnWire
        <5> QED  BY <1>5, <3>3, <4>1, <5>1 DEF Pending
      <4> QED  BY <1>4, <1>7, <2>1, <3>3, <4>1, <4>2, <4>3, <4>4, ServeLocal
    <3> QED  BY <2>1, <3>1, <3>2, <3>3 DEF Collected
  <2> QED  BY <2>2, <2>5, <2>6 DEF Wire
<1> QED  BY <1>2, <1>10, <1>11, <1>12

\* The manager kills the processes of a job that one of them has aborted.
LEMMA KillKeepsWire ==
    ASSUME Wire, NEW r \in Ranks, Kill(r), UNCHANGED others
    PROVE  Wire'
<1>1. Types /\ \A q \in Ranks : Local(q)
  BY DEF Wire
<1>2. /\ req' = [q \in Ranks |-> <<>>]
      /\ phase' = [q \in Ranks |-> "killed"]
      /\ call' = [q \in Ranks |-> [t \in Threads |-> Idle]]
      /\ UNCHANGED <<world, fd, inited, mutex, stream, mixed, entered, left, pub, pm, ans>>
  BY DEF Kill, history
<1>3. <<>> \in Seq(Requests)
  OBVIOUS
<1>4. /\ call' \in [Ranks -> [Threads -> CallRec]]
      /\ \A q \in Ranks, t \in Threads : call'[q][t] = Idle
  BY <1>2, IdleType
<1>5. Types'
  <2>1. \A q \in Ranks, t \in Threads : call'[q][t].res \in Outcomes /\ Busy(call'[q][t])
    BY <1>4, IdleType DEF CallRec
  <2>2. /\ req' \in [Ranks -> Seq(Requests)]
        /\ phase' \in [Ranks -> {"new", "ready", "final", "killed"}]
    BY <1>2, <1>3
  <2>3. \A q \in Ranks, t \in Threads :
           /\ call'[q][t].res \in Outcomes
           /\ call'[q][t].at \in {"lock", "fork", "accept", "write", "read", "body"}
                  <=> call'[q][t].todo # <<>>
    BY <1>4, IdleType, BusyCalls
  <2>4. TypeOK'
    BY <1>1, <1>2, <2>2, <2>3 DEF Types, TypeOK
  <2> QED  BY <1>1, <1>2, <1>4, <2>2, <2>4 DEF Types
<1>6. ASSUME NEW q \in Ranks  PROVE Local(q)'
  <2>1. /\ Local(q) /\ phase'[q] = "killed" /\ req'[q] = <<>>
        /\ \A t \in Threads : call'[q][t].at = "idle" /\ call'[q][t].own
    BY <1>1, <1>2, <1>4 DEF Idle
  <2>2. Unanswered(q)' <=> Unanswered(q)
    BY <1>2 DEF Unanswered
  <2>3. Locks(q)' /\ Counts(q)'
    BY <1>2, <2>1, Distinct DEF Local, Locks, Counts, InCall
  <2>4. Socket(q)'
    BY <1>2, <2>1, <2>2 DEF Local, Socket, Quiet
  <2>5. ~Alive(q)'
    BY <2>1 DEF Alive
  <2>6. q \notin mixed => Own(q)'
    BY <1>2, <2>1 DEF Local, Own
  <2> QED  BY <1>2, <2>3, <2>4, <2>5, <2>6 DEF Local
<1> QED  BY <1>5, <1>6 DEF Wire

\* A new manager.
LEMMA ManagerType ==
    ASSUME NEW up \in BOOLEAN, NEW lazy \in BOOLEAN
    PROVE  /\ Manager(up, lazy) \in Managers
           /\ Manager(up, lazy).up = up /\ Manager(up, lazy).lazy = lazy
           /\ Manager(up, lazy).mid = {} /\ Manager(up, lazy).due = {}
           /\ \A r \in Ranks : Manager(up, lazy).in[r] = None
           /\ \A k \in Keys : Manager(up, lazy).kvs[k] = 0
BY DEF Manager, Managers

\* The manager dies, and with it what it held and what was on the way to it.
LEMMA DieKeepsWire ==
    ASSUME Wire, Die, UNCHANGED <<clientVars, history, others>>
    PROVE  Wire'
<1>1. Types /\ \A q \in Ranks : Local(q)
  BY DEF Wire
<1>2. /\ UNCHANGED <<world, fd, inited, phase, mutex, stream, call, mixed, entered, left, pub>>
      /\ UNCHANGED <<ans, others>> /\ req' = [r \in Ranks |-> <<>>]
  BY DEF clientVars, history, Die
<1>3. /\ pm' \in Managers /\ pm'.up = FALSE /\ pm'.mid = {} /\ \A q \in Ranks : pm'.in[q] = None
  <2>1. pm.lazy \in BOOLEAN
    BY <1>1 DEF Types, Managers
  <2> QED  BY <2>1, ManagerType DEF Die
<1>4. Types'
  <2>1. <<>> \in Seq(Requests)
    OBVIOUS
  <2>2. req' \in [Ranks -> Seq(Requests)]
    BY <1>2, <2>1
  <2> QED  BY <1>1, <1>2, <1>3, <2>2 DEF Types, TypeOK
<1>5. ASSUME NEW q \in Ranks  PROVE Local(q)'
  <2>1. Local(q) /\ req'[q] = <<>> /\ pm'.in[q] = None
    BY <1>1, <1>2, <1>3
  <2>2. ~Unanswered(q)'
    BY <2>1 DEF Unanswered
  <2>3. Locks(q)' /\ Counts(q)'
    BY <1>2, <2>1 DEF Local, Locks, Counts, InCall
  <2>4. Socket(q)'
    BY <1>2, <2>1, <2>2 DEF Local, Socket, Quiet, InCall, InitOp
  <2>5. q \notin mixed => Own(q)'
    BY <1>2, <2>1 DEF Local, Own
  <2>6. ASSUME Exchange(q)  PROVE Exchange(q)'
    <3>1. \A u \in Threads : OnWire(q, u)' <=> OnWire(q, u)
      BY <1>2 DEF OnWire
    <3>2. fd[q] # "closed" => Pending(q)'
      <4>1. \A x : For(q, x) => For(q, x)'
        BY <1>2 DEF For, OnWire
      <4> QED  BY <1>2, <2>1, <2>2, <2>6, <4>1 DEF Exchange, Pending
    <3> QED  BY <1>2, <2>6, <3>1, <3>2 DEF Exchange
  <2>7. Alive(q)' <=> Alive(q)
    BY <1>2 DEF Alive
  <2> QED  BY <1>2, <2>1, <2>3, <2>4, <2>5, <2>6, <2>7 DEF Local
<1> QED  BY <1>4, <1>5 DEF Wire

\* Nobody is connected.
LEMMA InitWire == Init /\ ~(world.api = "pmi1" /\ world.env = "none") => Wire
<1> SUFFICES ASSUME Init, ~(world.api = "pmi1" /\ world.env = "none")  PROVE Wire
  OBVIOUS
<1>1. PICK w \in Worlds : world = w /\ ManagerInit(w.lazy)
  BY DEF Init
<1>2. /\ pm \in Managers /\ pm.up = TRUE /\ pm.mid = {} /\ \A r \in Ranks : pm.in[r] = None
  <2>1. w.lazy \in BOOLEAN
    BY DEF Worlds
  <2> QED  BY <1>1, <2>1, ManagerType DEF ManagerInit
<1>3. /\ req = [r \in Ranks |-> <<>>] /\ ans = [r \in Ranks |-> <<>>] /\ others = {}
      /\ WireInit
  BY <1>1 DEF ManagerInit, Init
<1>4. call \in [Ranks -> [Threads -> CallRec]] /\ \A r \in Ranks, t \in Threads : call[r][t] = Idle
  BY <1>3, IdleType DEF WireInit
<1>5. Types
  <2>1. \A q \in Ranks, t \in Threads : call[q][t].res \in Outcomes /\ Busy(call[q][t])
    BY <1>4, IdleType DEF CallRec
  <2>2. req \in [Ranks -> Seq(Requests)] /\ ans \in [Ranks -> Seq(Answers)]
    <3>1. <<>> \in Seq(Requests) /\ <<>> \in Seq(Answers)
      OBVIOUS
    <3> QED  BY <1>3, <3>1
  <2>3. entered \in [Ranks -> 0 .. MaxBarriers] /\ left \in [Ranks -> 0 .. MaxBarriers]
    BY <1>3, BarriersAssumption DEF WireInit
  <2>4. \A q \in Ranks, t \in Threads :
           /\ call[q][t].res \in Outcomes
           /\ call[q][t].at \in {"lock", "fork", "accept", "write", "read", "body"}
                  <=> call[q][t].todo # <<>>
    BY <1>4, IdleType, BusyCalls
  <2>5. TypeOK
    BY <1>1, <1>3, <2>3, <2>4 DEF TypeOK, WireInit
  <2> QED  BY <1>2, <1>3, <1>4, <2>2, <2>5 DEF Types, WireInit
<1>6. ASSUME NEW q \in Ranks  PROVE Local(q)
  <2>1. /\ \A t \in Threads : call[q][t].at = "idle" /\ call[q][t].own
        /\ req[q] = <<>> /\ ans[q] = <<>> /\ stream[q] = None /\ fd[q] = "none"
        /\ entered[q] = 0 /\ left[q] = 0 /\ ~Unanswered(q)
    BY <1>2, <1>3, <1>4 DEF WireInit, Idle, Unanswered
  <2>2. Locks(q) /\ Counts(q)
    BY <2>1, Distinct DEF Locks, Counts, InCall
  <2>3. Socket(q)
    BY <1>2, <2>1, Distinct DEF Socket, Quiet, InCall
  <2>4. Own(q)
    BY <2>1, Distinct DEF Own
  <2>5. Exchange(q)
    BY <2>1 DEF Exchange, OnWire, Pending
  <2> QED  BY <2>2, <2>3, <2>4, <2>5 DEF Local
<1> QED  BY <1>5, <1>6 DEF Wire

\* A step that changes nothing.
LEMMA StutterWire == Wire /\ UNCHANGED vars => Wire'
<1> SUFFICES ASSUME Wire, UNCHANGED vars PROVE Wire'
  OBVIOUS
<1>1. /\ UNCHANGED <<world, fd, inited, phase, mutex, stream, call, mixed, entered, left, pub>>
      /\ UNCHANGED <<pm, req, ans, others>>
  BY DEF vars, managerVars, clientVars, history
<1>2. Types'
  BY <1>1 DEF Wire, Types, TypeOK
<1>3. ASSUME NEW q \in Ranks  PROVE Local(q)'
  <2>1. Same(q)
    BY <1>1 DEF Same
  <2> QED  BY <1>1, <2>1, Frame DEF Wire
<1> QED  BY <1>2, <1>3 DEF Wire

\* A job with a manager starts no mpiexec.
LEMMA NoSingleton ==
    ASSUME Wire, NEW r \in Ranks
    PROVE  ~PMII_singinit(r) /\ ~MpiexecAnswers(r) /\ ~accept_one_connection(r) /\ ~MpiexecDies(r)
<1>1. call[r]["main"] \in CallRec
  BY CallType, Distinct DEF Wire
<1>2. call[r]["main"].at \notin {"fork", "accept"} /\ fd[r] \in {"none", "open", "closed"}
  BY <1>1 DEF CallRec, Wire, Types
<1> QED  BY <1>2 DEF PMII_singinit, MpiexecAnswers, accept_one_connection, MpiexecDies

\* Every step keeps the invariant.
LEMMA NextWire == Wire /\ Next => Wire'
<1> SUFFICES ASSUME Wire, Next PROVE Wire'
  OBVIOUS
<1>1. ASSUME NEW r \in Ranks, WrapperCall(r) \/ \E t \in Threads : OtherCall(r, t)
      PROVE  Wire'
  <2>1. Begins(r) /\ r \notin mixed /\ others' \subseteq Ranks \X Threads
    BY <1>1, CallsBegin DEF Wire
  <2> QED  BY <2>1, EntryKeepsWire DEF Begins
<1>2. ASSUME NEW r \in Ranks, NEW t \in Threads, Step(r, t)
      PROVE  Wire'
  <2>1. CASE world.api = "pmi1" /\ t = "main" /\ Step1(r)
    BY <1>2, <2>1, WritelineKeepsWire, SpawnKeepsWire, GetResponseKeepsWire, ReturnKeepsWire,
       NoSingleton DEF Step1, Step
  <2>2. CASE world.api = "pmi2" /\ Step2(r, t)
    BY <1>2, <2>2, LockKeepsWire, WriteKeepsWire, ReadLengthKeepsWire, ReadBodyKeepsWire,
       ReadFailsKeepsWire, ReturnKeepsWire DEF Step2, Step
  <2>3. CASE Sigpipe(r, t)
    BY <1>2, <2>3, SigpipeKeepsWire DEF Step
  <2> QED  BY <1>2, <2>1, <2>2, <2>3 DEF Step
<1>3. ASSUME NEW r \in Ranks, Manages(r)  PROVE Wire'
  BY <1>3, ServeKeepsWire, KillKeepsWire DEF Manages
<1>4. CASE ManagerDies
  BY <1>4, DieKeepsWire DEF ManagerDies
<1>5. ASSUME NEW r \in Ranks, Mpiexec(r)  PROVE FALSE
  BY <1>5, NoSingleton DEF Mpiexec
<1> QED  BY <1>1, <1>2, <1>3, <1>4, <1>5 DEF Next

-----------------------------------------------------------------------------
(***************************************************************************)
(* A singleton: a PMI1 client without a process manager, which starts an   *)
(* mpiexec of its own when it first needs one. Nothing it sends meets what *)
(* another rank or thread sends, so its part of the invariant is about its *)
(* own call alone: an exchange comes to nothing only while there is no     *)
(* mpiexec (none was started yet, or it did not connect) or after it has   *)
(* gone, for good.                                                         *)
(***************************************************************************)

\* The calls of a singleton, and the ends of its connection.
SoloRes == {"ok", "refused", "rejected", "absent", "lost", "unready"}
SoloCall == [op : Ops, key : Keys, val : Nat, todo : Seq(Cmds),
             at : {"idle", "fork", "accept", "write", "read", "done"},
             res : SoloRes,
             got : Nat, own : {TRUE}, due : {0}]
SoloFds == {"none", "own", "stuck", "left"}

\* A call is under way while it has a command to exchange.
UnderWay(c) ==
    c.at \in {"lock", "fork", "accept", "write", "read", "body"} <=> c.todo # <<>>

\* What went wrong with call c is explained by the socket.
Unheard(c, conn) ==
    /\ c.res \in {"lost", "unready"} => conn \in {"none", "left"}
    /\ c.at \in {"fork", "accept"} => c.res \notin {"lost", "unready"}

\* A singleton that has not tried to reach an mpiexec has no connection, but in
\* the call that tries.
Tries(r) ==
    LET c == call[r]["main"]
    IN  /\ c.at = "fork" => fd[r] = "none"
        /\ inited[r] = "single" /\ phase[r] # "killed"
               /\ (c.at = "idle" \/ c.op \notin Promoting) =>
              fd[r] = "none" /\ c.at \notin {"fork", "accept"}

\* Rank r's part.
Alone(r) ==
    LET c == call[r]["main"]
    IN  /\ req[r] = <<>> /\ ans[r] = <<>> /\ stream[r] = None
        /\ call[r]["helper"] = Idle
        /\ left[r] <= entered[r]
        /\ c.at # "idle" =>
              /\ \/ phase[r] = "new" /\ c.op = "PMI_Init"
                 \/ phase[r] = "ready" /\ c.op # "PMI_Init"
              /\ c.op \in Barriers => left[r] < entered[r]
              /\ c.op = "PMI_Init" => c.todo = <<>> /\ c.res = "ok"
              /\ Unheard(c, fd[r])
        /\ phase[r] = "new" => fd[r] = "none"
        /\ phase[r] = "ready" => inited[r] # "no"
        /\ fd[r] = "closed" => phase[r] = "final"
        /\ fd[r] # "open"
        /\ Tries(r)

\* The invariant of singletons.
Apart ==
    /\ TypeOK /\ world.api = "pmi1" /\ world.env = "none" /\ mixed = {}
    /\ call \in [Ranks -> [Threads -> SoloCall]]
    /\ pub \in [Ranks -> [val : {0}, at : Nat]]
    /\ \A r \in Ranks : Alone(r)

\* The parts of a call the invariant speaks of.
LEMMA SoloType ==
    ASSUME Apart, NEW r \in Ranks
    PROVE  /\ call[r]["main"] \in SoloCall /\ UnderWay(call[r]["main"])
           /\ "main" \in Threads /\ "helper" \in Threads
           /\ call[r]["main"].at # "idle" => fd[r] \in SoloFds
           /\ inited[r] \in {"no", "single", "alone", "pm"}
<1>1. "main" \in Threads /\ "helper" \in Threads
  BY DEF Threads
<1>2. call[r]["main"] \in SoloCall /\ UnderWay(call[r]["main"])
  BY <1>1 DEF Apart, TypeOK, UnderWay
<1>3. fd[r] \in {"none", "open", "closed", "own", "stuck", "left"}
  BY DEF Apart, TypeOK
<1>4. call[r]["main"].at # "idle" => fd[r] \in SoloFds
  BY <1>3 DEF Apart, Alone, SoloFds
<1>5. inited[r] \in {"no", "single", "alone", "pm"}
  BY DEF Apart, TypeOK
<1> QED  BY <1>1, <1>2, <1>4, <1>5

\* A step that sets the call of one rank.
LEMMA SoloSet ==
    ASSUME Apart, NEW r \in Ranks, NEW d \in SoloCall, UnderWay(d),
           call' = [call EXCEPT ![r]["main"] = d]
    PROVE  /\ call' \in [Ranks -> [Threads -> SoloCall]]
           /\ call'[r]["main"] = d /\ call'[r]["helper"] = call[r]["helper"]
           /\ \A q \in Ranks \ {r} : call'[q] = call[q]
           /\ \A q \in Ranks, u \in Threads : call'[q][u].res \in Outcomes /\ UnderWay(call'[q][u])
<1>1. call \in [Ranks -> [Threads -> SoloCall]] /\ "main" \in Threads /\ "helper" \in Threads
  BY DEF Apart, Threads
<1>2. \A q \in Ranks, u \in Threads : UnderWay(call[q][u])
  BY DEF Apart, TypeOK, UnderWay
<1>3. \A c \in SoloCall : c.res \in Outcomes
  BY DEF SoloCall, SoloRes, Outcomes
<1> HIDE DEF UnderWay
<1>4. /\ call' \in [Ranks -> [Threads -> SoloCall]]
      /\ call'[r]["main"] = d /\ call'[r]["helper"] = call[r]["helper"]
      /\ \A q \in Ranks \ {r} : call'[q] = call[q]
  BY <1>1
<1>5. \A q \in Ranks, u \in Threads : call'[q][u] = d \/ call'[q][u] = call[q][u]
  BY <1>1
<1> QED  BY <1>2, <1>3, <1>4, <1>5

\* A rank nothing happens to.
SoloSame(q) ==
    /\ call'[q] = call[q] /\ req'[q] = req[q] /\ ans'[q] = ans[q] /\ fd'[q] = fd[q]
    /\ phase'[q] = phase[q] /\ stream'[q] = stream[q] /\ inited'[q] = inited[q]
    /\ entered'[q] = entered[q] /\ left'[q] = left[q]

\* It is enough that the rank that makes the step keeps its part.
LEMMA SoloElsewhere ==
    ASSUME Apart, NEW r \in Ranks, TypeOK', UNCHANGED <<world, mixed>>,
           call' \in [Ranks -> [Threads -> SoloCall]], pub' \in [Ranks -> [val : {0}, at : Nat]],
           Alone(r)', \A q \in Ranks \ {r} : SoloSame(q)
    PROVE  Apart'
<1>1. ASSUME NEW q \in Ranks \ {r}  PROVE Alone(q)'
  <2>1. Alone(q) /\ SoloSame(q)
    BY DEF Apart
  <2> QED  BY <2>1 DEF Alone, SoloSame, Unheard, Tries
<1> QED  BY <1>1 DEF Apart

\* A step within a call.
LEMMA SoloStep ==
    ASSUME Apart, NEW r \in Ranks, NEW d \in SoloCall, UnderWay(d),
           call' = [call EXCEPT ![r]["main"] = d],
           call[r]["main"].at # "idle", call[r]["main"].todo # <<>>,
           d.at # "idle", d.op = call[r]["main"].op,
           NEW conn \in SoloFds, fd' = [fd EXCEPT ![r] = conn], Unheard(d, conn),
           fd[r] = conn \/ phase[r] # "new", d.at # "fork",
           inited[r] = "single" /\ call[r]["main"].op \notin Promoting =>
              conn = fd[r] /\ d.at # "accept",
           UNCHANGED <<world, inited, phase, mutex, stream, mixed, entered, left, pub,
                       req, ans, others>>
    PROVE  Apart'
<1>1. /\ call' \in [Ranks -> [Threads -> SoloCall]]
      /\ call'[r]["main"] = d /\ call'[r]["helper"] = call[r]["helper"]
      /\ \A q \in Ranks \ {r} : call'[q] = call[q]
      /\ \A q \in Ranks, u \in Threads : call'[q][u].res \in Outcomes /\ UnderWay(call'[q][u])
  BY SoloSet
<1>2. /\ fd' \in [Ranks -> {"none", "open", "closed", "own", "stuck", "left"}]
      /\ fd'[r] = conn /\ \A q \in Ranks \ {r} : fd'[q] = fd[q]
  BY DEF Apart, TypeOK, SoloFds
<1>3. TypeOK'
  BY <1>1, <1>2 DEF Apart, TypeOK, UnderWay
<1>4. Alone(r)
  BY DEF Apart
<1>5. Alone(r)'
  BY <1>1, <1>2, <1>4 DEF Alone, SoloFds, Tries
<1>6. \A q \in Ranks \ {r} : SoloSame(q)
  BY <1>1, <1>2 DEF SoloSame
<1>7. pub' \in [Ranks -> [val : {0}, at : Nat]]
  BY DEF Apart
<1> QED  BY <1>1, <1>3, <1>5, <1>6, <1>7, SoloElsewhere

\* What follows the exchange a call is in.
LEMMA SoloRest ==
    ASSUME NEW c \in SoloCall, c.todo # <<>>, NEW o
    PROVE  <<>> \in Seq(Cmds) /\ AfterWrite(c) \in Seq(Cmds) /\ AfterAnswer(c, o) \in Seq(Cmds)
<1>2. c.todo \in Seq(Cmds) /\ "abort" \in Cmds
  BY DEF SoloCall, Cmds
<1>3. Tail(c.todo) \in Seq(Cmds) /\ <<>> \in Seq(Cmds) /\ <<"abort">> \in Seq(Cmds)
  BY <1>2, CmdSeqs
<1>4. <<"abort">> \o Tail(c.todo) \in Seq(Cmds)
  BY <1>3, ConcatProperties
<1>5. SubSeq(c.todo, 3, Len(c.todo)) \in Seq(Cmds)
  BY <1>2
<1>6. AfterWrite(c) \in Seq(Cmds)
  BY <1>3, <1>5 DEF AfterWrite
<1>7. AfterAnswer(c, o) \in Seq(Cmds)
  BY <1>3, <1>4 DEF AfterAnswer
<1> QED  BY <1>3, <1>6, <1>7

\* The call after an exchange.
LEMMA SoloOver ==
    ASSUME NEW c \in SoloCall, NEW rest \in Seq(Cmds),
           NEW o \in SoloRes
    PROVE  LET d == Over(c, o, rest)
           IN  /\ d \in SoloCall /\ UnderWay(d) /\ d.op = c.op /\ d.todo = rest
               /\ d.at \in {"write", "done"} /\ (d.at = "write" => rest # <<>>)
               /\ d.res = IF c.res = "ok" THEN o ELSE c.res
BY DEF Over, SoloCall, SoloRes, UnderWay

\* The process of a singleton ends.
LEMMA SoloEnds ==
    ASSUME Apart, NEW r \in Ranks, Exits(r), call[r]["main"].at # "idle",
           UNCHANGED <<world, fd, inited, mutex, stream, mixed, entered, left, pub, req, ans, others>>
    PROVE  Apart'
<1>1. Idle \in SoloCall /\ UnderWay(Idle) /\ Idle.at = "idle" /\ Idle.res \in Outcomes
  <2>1. <<>> \in Seq(Cmds) /\ 0 \in Keys /\ None \in Ops
    BY KeyTypes DEF Ops
  <2>2. Idle.own \in {TRUE}
    BY Zenon DEF Idle
  <2> QED  BY <2>1, <2>2 DEF Idle, SoloCall, SoloRes, UnderWay, Outcomes
<1>2. \A q \in Ranks, u \in Threads : UnderWay(call[q][u]) /\ call[q][u].res \in Outcomes
  BY DEF Apart, TypeOK, UnderWay
<1>3. /\ call' \in [Ranks -> [Threads -> SoloCall]]
      /\ call'[r]["main"] = Idle /\ call'[r]["helper"] = Idle
      /\ \A q \in Ranks \ {r} : call'[q] = call[q]
      /\ \A q \in Ranks, u \in Threads : call'[q][u] = Idle \/ call'[q][u] = call[q][u]
  <2> HIDE DEF Idle
  <2>1. call \in [Ranks -> [Threads -> SoloCall]]
    BY DEF Apart
  <2> QED  BY <1>1, <2>1 DEF Exits, Threads
<1>4. /\ phase' \in [Ranks -> {"new", "ready", "final", "killed"}]
      /\ phase'[r] = "killed" /\ \A q \in Ranks \ {r} : phase'[q] = phase[q]
  BY DEF Exits, Apart, TypeOK
<1>5. \A q \in Ranks, u \in Threads : UnderWay(call'[q][u]) /\ call'[q][u].res \in Outcomes
  <2> HIDE DEF Idle, UnderWay
  <2> QED  BY <1>1, <1>2, <1>3
<1>6. TypeOK'
  BY <1>4, <1>5 DEF Apart, TypeOK, UnderWay
<1>7. Alone(r)'
  <2>1. Alone(r) /\ fd[r] # "closed"
    BY DEF Apart, Alone
  <2> HIDE DEF Idle
  <2> QED  BY <1>1, <1>3, <1>4, <2>1 DEF Alone, Tries
<1>8. \A q \in Ranks \ {r} : SoloSame(q)
  BY <1>3, <1>4 DEF SoloSame
<1>9. pub' \in [Ranks -> [val : {0}, at : Nat]]
  BY DEF Apart
<1> QED  BY <1>3, <1>6, <1>7, <1>8, <1>9, SoloElsewhere

\* PMIU_writeline of a singleton: it has no connection to a manager of a job.
LEMMA SoloWriteline ==
    ASSUME Apart, NEW r \in Ranks, PMIU_writeline(r), UNCHANGED others
    PROVE  Apart'
<1> DEFINE c == call[r]["main"]
<1>1. /\ c.at = "write"
      /\ UNCHANGED <<world, fd, inited, phase, mutex, stream, mixed, entered, left, pub, ans>>
  BY DEF PMIU_writeline, history
<1>2. c \in SoloCall /\ UnderWay(c) /\ fd[r] \in SoloFds /\ c.todo # <<>>
  BY <1>1, SoloType DEF UnderWay
<1>3. fd' = [fd EXCEPT ![r] = fd[r]]
  BY <1>1 DEF Apart, TypeOK
<1>4. Unheard(c, fd[r])
  BY <1>1 DEF Apart, Alone
<1>5. CASE /\ IF Unwritten(c) THEN UNCHANGED req ELSE Sent(r, "main")
           /\ call' = [call EXCEPT ![r]["main"].at = "read"]
  <2> DEFINE d == [c EXCEPT !.at = "read"]
  <2>1. call' = [call EXCEPT ![r]["main"] = d]
    BY <1>5
  <2>2. d \in SoloCall /\ UnderWay(d) /\ d.at = "read" /\ d.op = c.op /\ Unheard(d, fd[r])
    BY <1>2, <1>4 DEF SoloCall, UnderWay, Unheard
  <2>3. UNCHANGED req
    BY <1>2, <1>5 DEF Sent, SoloFds
  <2> HIDE DEF d
  <2> QED  BY <1>1, <1>2, <1>3, <2>1, <2>2, <2>3, SoloStep
<1>6. CASE /\ SendFails(r) /\ UNCHANGED req
           /\ call' = [call EXCEPT ![r]["main"] = Over(c, Noticed(c, "lost"), AfterWrite(c))]
  <2>1. Noticed(c, "lost") \in {"ok", "lost", "unready"}
    BY DEF Noticed
  <2>2. PICK o \in {"ok", "lost", "unready"} : o = Noticed(c, "lost")
    BY <2>1
  <2>3. PICK rest \in Seq(Cmds) : rest = AfterWrite(c)
    BY <1>2, SoloRest
  <2>o. o \in SoloRes
    BY DEF SoloRes
  <2>4. LET e == Over(c, o, rest)
        IN  /\ e \in SoloCall /\ UnderWay(e) /\ e.op = c.op /\ e.todo = rest
            /\ e.at \in {"write", "done"} /\ (e.at = "write" => rest # <<>>)
            /\ e.res = IF c.res = "ok" THEN o ELSE c.res
    <3>1. c \in SoloCall
      BY <1>2
    <3> HIDE DEF c
    <3> QED  BY <3>1, <2>o, SoloOver
  <2>5. PICK d : d = Over(c, o, rest)
    OBVIOUS
  <2>6. /\ d \in SoloCall /\ UnderWay(d) /\ d.op = c.op /\ d.at \in {"write", "done"}
    BY <2>4, <2>5
  <2>7. call' = [call EXCEPT ![r]["main"] = d]
    BY <1>6, <2>2, <2>3, <2>5
  <2>8. Unheard(d, fd[r])
    BY <1>2, <1>6, <2>6 DEF Unheard, SendFails, SoloFds
  <2> QED  BY <1>1, <1>2, <1>3, <1>6, <2>6, <2>7, <2>8, SoloStep
<1> QED  BY <1>5, <1>6 DEF PMIU_writeline

\* GetResponse of a singleton reads the end of the stream: what comes from its
\* mpiexec is MpiexecAnswers.
LEMMA SoloGetResponse ==
    ASSUME Apart, NEW r \in Ranks, GetResponse(r), UNCHANGED others
    PROVE  Apart'
<1> DEFINE c == call[r]["main"]
<1>1. /\ c.at = "read"
      /\ UNCHANGED <<world, fd, inited, phase, mutex, stream, mixed, entered, left, pub, req>>
  BY DEF GetResponse, history
<1>2. c \in SoloCall /\ UnderWay(c) /\ fd[r] \in SoloFds /\ c.todo # <<>>
  BY <1>1, SoloType DEF UnderWay
<1>3. fd' = [fd EXCEPT ![r] = fd[r]]
  BY <1>1 DEF Apart, TypeOK
<1>4. /\ Eof(r) /\ UNCHANGED ans
      /\ call' = [call EXCEPT ![r]["main"] = Over(c, Noticed(c, "lost"), AfterAnswer(c, "lost"))]
  BY <1>2 DEF GetResponse, SoloFds
<1>5. PICK o \in {"ok", "lost", "unready"} : o = Noticed(c, "lost")
  BY DEF Noticed
<1>6. PICK rest \in Seq(Cmds) : rest = AfterAnswer(c, "lost")
  BY <1>2, SoloRest
<1>o. o \in SoloRes
  BY DEF SoloRes
<1>7. LET e == Over(c, o, rest)
      IN  /\ e \in SoloCall /\ UnderWay(e) /\ e.op = c.op /\ e.todo = rest
          /\ e.at \in {"write", "done"} /\ (e.at = "write" => rest # <<>>)
          /\ e.res = IF c.res = "ok" THEN o ELSE c.res
  <2>1. c \in SoloCall
    BY <1>2
  <2> HIDE DEF c
  <2> QED  BY <2>1, <1>o, SoloOver
<1>8. PICK d : d = Over(c, o, rest)
  OBVIOUS
<1>9. d \in SoloCall /\ UnderWay(d) /\ d.op = c.op /\ d.at \in {"write", "done"}
  BY <1>7, <1>8
<1>10. call' = [call EXCEPT ![r]["main"] = d]
  BY <1>4, <1>5, <1>6, <1>8
<1>11. Unheard(d, fd[r])
  BY <1>2, <1>4, <1>9 DEF Unheard, Eof, SoloFds
<1> QED  BY <1>1, <1>2, <1>3, <1>4, <1>9, <1>10, <1>11, SoloStep

\* SpawnGivesUp of a singleton: its mpiexec waits for the rest.
LEMMA SoloSpawn ==
    ASSUME Apart, NEW r \in Ranks, SpawnGivesUp(r), UNCHANGED others
    PROVE  Apart'
<1> DEFINE c == call[r]["main"]
<1>1. /\ c.at = "write" /\ (Sent(r, "main") \/ UNCHANGED req)
      /\ call' = [call EXCEPT ![r]["main"] = Over(c, "ok", <<>>)]
      /\ UNCHANGED <<world, inited, phase, mutex, stream, mixed, entered, left, pub, ans>>
  BY DEF SpawnGivesUp, history
<1>2. c \in SoloCall /\ UnderWay(c) /\ fd[r] \in SoloFds /\ c.todo # <<>> /\ phase[r] # "new"
  <2>1. c \in SoloCall /\ UnderWay(c) /\ fd[r] \in SoloFds /\ c.todo # <<>>
    BY SoloType DEF UnderWay, SpawnGivesUp
  <2> QED  BY <2>1 DEF Apart, Alone, SpawnGivesUp
<1>3. PICK conn \in SoloFds : conn = IF fd[r] = "own" THEN "stuck" ELSE fd[r]
  BY <1>2 DEF SoloFds
<1>4. fd' = [fd EXCEPT ![r] = conn]
  BY <1>3 DEF SpawnGivesUp, Apart, TypeOK
<1>5. Unheard(c, fd[r])
  BY <1>2 DEF Apart, Alone, SpawnGivesUp
<1>6. <<>> \in Seq(Cmds) /\ "ok" \in SoloRes
  BY CmdSeqs DEF SoloRes
<1>7. LET e == Over(c, "ok", <<>>)
      IN  /\ e \in SoloCall /\ UnderWay(e) /\ e.op = c.op /\ e.todo = <<>>
          /\ e.at \in {"write", "done"} /\ (e.at = "write" => <<>> # <<>>)
          /\ e.res = IF c.res = "ok" THEN "ok" ELSE c.res
  <2>1. c \in SoloCall
    BY <1>2
  <2> HIDE DEF c
  <2> QED  BY <2>1, <1>6, SoloOver
<1>8. PICK d : d = Over(c, "ok", <<>>)
  OBVIOUS
<1>9. d \in SoloCall /\ UnderWay(d) /\ d.op = c.op /\ d.at \in {"write", "done"} /\ d.res = c.res
  BY <1>7, <1>8
<1>10. call' = [call EXCEPT ![r]["main"] = d]
  BY <1>1, <1>8
<1>11. Unheard(d, conn)
  BY <1>3, <1>5, <1>9 DEF Unheard
<1>12. UNCHANGED req
  BY <1>1, <1>2 DEF Sent, SoloFds, SpawnGivesUp
<1>13. c.at # "idle" /\ d.at # "idle"
  BY <1>9 DEF SpawnGivesUp
<1>14. inited[r] = "single" /\ c.op \notin Promoting => conn = fd[r]
  BY <1>3, <1>13 DEF Apart, Alone, Tries, SpawnGivesUp, Alive
<1> QED  BY <1>1, <1>2, <1>4, <1>9, <1>10, <1>11, <1>12, <1>13, <1>14, SoloStep

\* PMII_singinit
LEMMA SoloSinginit ==
    ASSUME Apart, NEW r \in Ranks, PMII_singinit(r), UNCHANGED others
    PROVE  Apart'
<1> DEFINE c == call[r]["main"]
<1>1. /\ c.at = "fork"
      /\ UNCHANGED <<world, fd, inited, mutex, stream, mixed, entered, left, pub, req, ans>>
  BY DEF PMII_singinit, history, managerVars
<1>2. c \in SoloCall /\ UnderWay(c) /\ fd[r] \in SoloFds /\ c.todo # <<>>
  BY <1>1, SoloType DEF UnderWay
<1>3. fd' = [fd EXCEPT ![r] = fd[r]]
  BY <1>1 DEF Apart, TypeOK
<1>4. Unheard(c, fd[r]) /\ fd[r] \in {"none", "left"}
  BY <1>1, <1>2 DEF Apart, Alone, Tries
<1>t. inited[r] = "single" => c.op \in Promoting
  BY <1>1 DEF Apart, Alone, Tries
<1>5. CASE call' = [call EXCEPT ![r]["main"].at = "accept"] /\ UNCHANGED phase
  <2> DEFINE d == [c EXCEPT !.at = "accept"]
  <2>1. call' = [call EXCEPT ![r]["main"] = d]
    BY <1>5
  <2>2. d \in SoloCall /\ UnderWay(d) /\ d.at = "accept" /\ d.op = c.op /\ Unheard(d, fd[r])
    BY <1>1, <1>2, <1>4 DEF SoloCall, UnderWay, Unheard
  <2> HIDE DEF d
  <2> QED  BY <1>1, <1>2, <1>3, <1>5, <1>t, <2>1, <2>2, SoloStep
<1>6. CASE call' = [call EXCEPT ![r]["main"] = Over(c, "unready", <<>>)] /\ UNCHANGED phase
  <2>1. <<>> \in Seq(Cmds) /\ "unready" \in SoloRes
    BY CmdSeqs DEF SoloRes
  <2>2. LET e == Over(c, "unready", <<>>)
        IN  /\ e \in SoloCall /\ UnderWay(e) /\ e.op = c.op /\ e.todo = <<>>
            /\ e.at \in {"write", "done"} /\ (e.at = "write" => <<>> # <<>>)
            /\ e.res = IF c.res = "ok" THEN "unready" ELSE c.res
    <3>1. c \in SoloCall
      BY <1>2
    <3> HIDE DEF c
    <3> QED  BY <3>1, <2>1, SoloOver
  <2>3. PICK d : d = Over(c, "unready", <<>>)
    OBVIOUS
  <2>4. d \in SoloCall /\ UnderWay(d) /\ d.op = c.op /\ d.at \in {"write", "done"}
    BY <2>2, <2>3
  <2>5. call' = [call EXCEPT ![r]["main"] = d]
    BY <1>6, <2>3
  <2>6. Unheard(d, fd[r])
    BY <1>4, <2>4 DEF Unheard
  <2> QED  BY <1>1, <1>2, <1>3, <1>6, <2>4, <2>5, <2>6, SoloStep
<1>7. CASE Exits(r)
  BY <1>1, <1>7, SoloEnds
<1> QED  BY <1>5, <1>6, <1>7 DEF PMII_singinit

\* accept_one_connection
LEMMA SoloAccept ==
    ASSUME Apart, NEW r \in Ranks, accept_one_connection(r), UNCHANGED others
    PROVE  Apart'
<1> DEFINE c == call[r]["main"]
<1>1. /\ c.at = "accept"
      /\ UNCHANGED <<world, inited, mutex, stream, mixed, entered, left, pub, req, ans>>
  BY DEF accept_one_connection, history, managerVars
<1>2. c \in SoloCall /\ UnderWay(c) /\ fd[r] \in SoloFds /\ c.todo # <<>>
  BY <1>1, SoloType DEF UnderWay
<1>3. CASE /\ fd' = [fd EXCEPT ![r] = "own"]
           /\ call' = [call EXCEPT ![r]["main"].at =
                         IF Head(c.todo) = "greeting" THEN "read" ELSE "write"]
           /\ UNCHANGED phase
  <2>1. PICK at \in {"read", "write"} : at = IF Head(c.todo) = "greeting" THEN "read" ELSE "write"
    OBVIOUS
  <2> DEFINE d == [c EXCEPT !.at = at]
  <2>2. call' = [call EXCEPT ![r]["main"] = d]
    BY <1>3, <2>1
  <2>3. Unheard(c, fd[r]) /\ phase[r] # "new"
    BY <1>1, <1>2 DEF Apart, Alone
  <2>t. inited[r] = "single" => c.op \in Promoting
    BY <1>1 DEF Apart, Alone, Tries
  <2>4. /\ d \in SoloCall /\ UnderWay(d) /\ d.at \in {"read", "write"} /\ d.op = c.op
        /\ Unheard(d, "own")
    BY <1>1, <1>2, <2>3 DEF SoloCall, UnderWay, Unheard
  <2>5. "own" \in SoloFds
    BY DEF SoloFds
  <2> HIDE DEF d
  <2> QED  BY <1>1, <1>2, <1>3, <2>2, <2>3, <2>4, <2>5, <2>t, SoloStep
<1>4. CASE Exits(r) /\ UNCHANGED fd
  BY <1>1, <1>4, SoloEnds
<1> QED  BY <1>3, <1>4 DEF accept_one_connection

\* MpiexecAnswers
LEMMA SoloAnswers ==
    ASSUME Apart, NEW r \in Ranks, MpiexecAnswers(r), UNCHANGED others
    PROVE  Apart'
<1> DEFINE c == call[r]["main"]
<1>1. /\ c.at = "read" /\ fd[r] = "own"
      /\ UNCHANGED <<world, fd, inited, mutex, stream, mixed, entered, left, pub, req, ans>>
  BY DEF MpiexecAnswers, history, managerVars
<1>2. c \in SoloCall /\ UnderWay(c) /\ fd[r] \in SoloFds /\ c.todo # <<>>
  BY <1>1, SoloType DEF UnderWay
<1>3. fd' = [fd EXCEPT ![r] = fd[r]]
  BY <1>1 DEF Apart, TypeOK
<1>4. c.res \notin {"lost", "unready"} /\ (inited[r] = "single" => c.op \in Promoting)
  BY <1>1 DEF Apart, Alone, Unheard, Tries
<1>5. ASSUME NEW says \in MpiexecSays(Head(c.todo)), UNCHANGED phase,
             LET d == Over(c, Noticed(c, says), AfterAnswer(c, says))
             IN  \E at \in IF Head(c.todo) = "singinit" /\ d.at = "write"
                           THEN {"accept", "write"} ELSE {d.at} :
                     call' = [call EXCEPT ![r]["main"] = [d EXCEPT !.at = at]]
      PROVE  Apart'
  <2>1. says \in {"ok", "rejected", "refused", "absent"}
    BY DEF MpiexecSays
  <2>2. PICK o \in {"ok", "rejected", "refused", "absent"} : o = Noticed(c, says)
    BY <2>1 DEF Noticed
  <2>3. PICK rest \in Seq(Cmds) : rest = AfterAnswer(c, says)
    BY <1>2, SoloRest
  <2>o. o \in SoloRes
    BY DEF SoloRes
  <2>4. LET e == Over(c, o, rest)
        IN  /\ e \in SoloCall /\ UnderWay(e) /\ e.op = c.op /\ e.todo = rest
            /\ e.at \in {"write", "done"} /\ (e.at = "write" => rest # <<>>)
            /\ e.res = IF c.res = "ok" THEN o ELSE c.res
    <3>1. c \in SoloCall
      BY <1>2
    <3> HIDE DEF c
    <3> QED  BY <3>1, <2>o, SoloOver
  <2>5. PICK d : d = Over(c, o, rest)
    OBVIOUS
  <2>6. /\ d \in SoloCall /\ UnderWay(d) /\ d.op = c.op /\ d.at \in {"write", "done"}
        /\ d.todo = rest /\ (d.at = "write" => rest # <<>>)
        /\ d.res = IF c.res = "ok" THEN o ELSE c.res
    BY <2>4, <2>5
  <2>7. PICK at : /\ at = d.at \/ (d.at = "write" /\ at = "accept")
                  /\ call' = [call EXCEPT ![r]["main"] = [d EXCEPT !.at = at]]
    <3>1. \E at \in IF Head(c.todo) = "singinit" /\ d.at = "write"
                    THEN {"accept", "write"} ELSE {d.at} :
             call' = [call EXCEPT ![r]["main"] = [d EXCEPT !.at = at]]
      BY <1>5, <2>2, <2>3, <2>5
    <3> HIDE DEF c
    <3> QED  BY <3>1
  <2> DEFINE f == [d EXCEPT !.at = at]
  <2>8. /\ f \in SoloCall /\ UnderWay(f) /\ f.at \in {"accept", "write", "done"}
        /\ f.op = c.op /\ f.res = d.res
    BY <2>6, <2>7 DEF SoloCall, UnderWay
  <2>9. Unheard(f, fd[r])
    BY <1>4, <2>6, <2>8 DEF Unheard
  <2>10. call' = [call EXCEPT ![r]["main"] = f]
    BY <2>7
  <2> HIDE DEF f
  <2> QED  BY <1>1, <1>2, <1>3, <1>4, <1>5, <2>8, <2>9, <2>10, SoloStep
<1>6. CASE Exits(r)
  BY <1>1, <1>6, SoloEnds
<1> QED  BY <1>5, <1>6 DEF MpiexecAnswers

\* MpiexecDies
LEMMA SoloDies ==
    ASSUME Apart, NEW r \in Ranks, MpiexecDies(r), UNCHANGED others
    PROVE  Apart'
<1>1. /\ fd[r] \in {"own", "stuck"} /\ fd' = [fd EXCEPT ![r] = "left"]
      /\ UNCHANGED <<world, inited, phase, mutex, stream, call, mixed, entered, left, pub, req, ans>>
  BY DEF MpiexecDies, history, managerVars
<1>2. /\ fd' \in [Ranks -> {"none", "open", "closed", "own", "stuck", "left"}]
      /\ fd'[r] = "left" /\ \A q \in Ranks \ {r} : fd'[q] = fd[q]
  BY <1>1 DEF Apart, TypeOK
<1>3. TypeOK'
  BY <1>1, <1>2 DEF Apart, TypeOK
<1>4. Alone(r)'
  <2>1. Alone(r)
    BY DEF Apart
  <2> QED  BY <1>1, <1>2, <2>1 DEF Alone, Unheard, Tries
<1>5. \A q \in Ranks \ {r} : SoloSame(q)
  BY <1>1, <1>2 DEF SoloSame
<1>6. /\ pub' \in [Ranks -> [val : {0}, at : Nat]]
      /\ call' \in [Ranks -> [Threads -> SoloCall]]
  BY <1>1 DEF Apart
<1> QED  BY <1>1, <1>3, <1>4, <1>5, <1>6, SoloElsewhere

\* A singleton enters a function.
SoloEntry(r, op, todo, key, val, first) ==
    /\ first = "fork" => inited[r] = "single" /\ op \in Promoting
    /\ \/ phase[r] = "new" /\ op = "PMI_Init" /\ todo = <<>>
       \/ phase[r] = "ready" /\ op # "PMI_Init"
    /\ Enter(r, "main", op, todo, key, val, first, fd[r])

\* Some function is entered.
SoloBegins(r) ==
    \E op \in Ops, todo \in Seq(Cmds), key \in Keys, val \in Nat, first \in {"fork", "write"} :
        SoloEntry(r, op, todo, key, val, first)

\* A singleton's call begins.
LEMMA SoloEnter ==
    ASSUME Apart, NEW r \in Ranks, SoloBegins(r), others' \subseteq Ranks \X Threads
    PROVE  Apart'
<1>1. PICK op \in Ops, todo \in Seq(Cmds), key \in Keys, val \in Nat,
           first \in {"fork", "write"} : SoloEntry(r, op, todo, key, val, first)
  BY DEF SoloBegins
<1> DEFINE c == call[r]["main"]
<1>2. DueFor(r, key) = 0
  BY DEF DueFor, Apart
<1>3. PICK d : d = [Idle EXCEPT !.op = op, !.todo = todo, !.key = key, !.val = val,
                                !.at = IF todo = <<>> THEN "done" ELSE first,
                                !.due = DueFor(r, key)]
  OBVIOUS
<1>4. /\ d \in SoloCall /\ UnderWay(d) /\ d.op = op /\ d.todo = todo /\ d.res = "ok"
      /\ d.at = IF todo = <<>> THEN "done" ELSE first
  <2>1. d.own \in {TRUE}
    BY <1>3, Zenon DEF Idle
  <2> QED  BY <1>2, <1>3, <2>1 DEF Idle, SoloCall, SoloRes, UnderWay
<1>5. /\ c.at = "idle" /\ phase[r] # "killed" /\ fd' = [fd EXCEPT ![r] = fd[r]]
      /\ call' = [call EXCEPT ![r]["main"] = d]
      /\ op \in Barriers => entered[r] < MaxBarriers
      /\ entered' = [entered EXCEPT ![r] = IF op \in Barriers THEN @ + 1 ELSE @]
      /\ UNCHANGED <<world, inited, phase, mutex, stream, mixed, left, pub, req, ans>>
  BY <1>1, <1>3 DEF SoloEntry, Enter, Alive, InCall, managerVars
<1>7. fd' = fd
  BY <1>5 DEF Apart, TypeOK
<1>8. /\ call' \in [Ranks -> [Threads -> SoloCall]]
      /\ call'[r]["main"] = d /\ call'[r]["helper"] = call[r]["helper"]
      /\ \A q \in Ranks \ {r} : call'[q] = call[q]
      /\ \A q \in Ranks, u \in Threads : call'[q][u].res \in Outcomes /\ UnderWay(call'[q][u])
  BY <1>4, <1>5, SoloSet
<1>9. entered[r] \in 0 .. MaxBarriers /\ left[r] \in 0 .. MaxBarriers
  BY DEF Apart, TypeOK
<1>10. /\ entered' \in [Ranks -> 0 .. MaxBarriers]
       /\ entered'[r] = IF op \in Barriers THEN entered[r] + 1 ELSE entered[r]
       /\ \A q \in Ranks \ {r} : entered'[q] = entered[q]
  BY <1>5, <1>9, BarriersAssumption DEF Apart, TypeOK
<1>11. TypeOK'
  BY <1>5, <1>7, <1>8, <1>10 DEF Apart, TypeOK, UnderWay
<1>12. Alone(r)'
  <2>1. Alone(r)
    BY DEF Apart
  <2>2. Unheard(d, fd[r])
    BY <1>4 DEF Unheard
  <2>3. \/ phase[r] = "new" /\ op = "PMI_Init" /\ todo = <<>>
        \/ phase[r] = "ready" /\ op # "PMI_Init"
    BY <1>1 DEF SoloEntry
  <2>4. Tries(r)'
    <3>1. d.at = "fork" => inited[r] = "single" /\ op \in Promoting
      BY <1>1, <1>4 DEF SoloEntry
    <3>2. d.at # "accept" /\ d.at # "idle"
      BY <1>4
    <3>3. Tries(r)
      BY <2>1 DEF Alone
    <3> QED  BY <1>4, <1>5, <1>7, <1>8, <3>1, <3>2, <3>3 DEF Tries
  <2>5. op \in Barriers => left[r] < entered'[r]
    BY <1>9, <1>10, <2>1, BarriersAssumption DEF Alone
  <2>6. left[r] <= entered'[r]
    BY <1>9, <1>10, <2>1, BarriersAssumption DEF Alone
  <2>7. op = "PMI_Init" => todo = <<>>
    BY <2>3
  <2> QED  BY <1>4, <1>5, <1>7, <1>8, <2>1, <2>2, <2>3, <2>4, <2>5, <2>6, <2>7 DEF Alone
<1>13. \A q \in Ranks \ {r} : SoloSame(q)
  BY <1>5, <1>7, <1>8, <1>10 DEF SoloSame
<1>14. pub' \in [Ranks -> [val : {0}, at : Nat]]
  BY <1>5 DEF Apart
<1> QED  BY <1>5, <1>8, <1>11, <1>12, <1>13, <1>14, SoloElsewhere

\* A singleton's call returns.
LEMMA SoloReturn ==
    ASSUME Apart, NEW r \in Ranks, Return1(r), UNCHANGED others
    PROVE  Apart'
<1> DEFINE c == call[r]["main"]
           conn == IF c.op = "PMI_Finalize" /\ WithManager(r) THEN "closed" ELSE fd[r]
           stage == CASE c.op = "PMI_Init"     -> "ready"
                      [] c.op = "PMI_Finalize" -> "final"
                      [] OTHER                 -> phase[r]
<1>1. /\ c.at = "done" /\ phase[r] # "killed"
      /\ call' = [call EXCEPT ![r]["main"] = Idle]
      /\ fd' = [fd EXCEPT ![r] = conn]
      /\ inited' = [inited EXCEPT ![r] = Initialized1(r, c)]
      /\ phase' = [phase EXCEPT ![r] = stage]
      /\ mutex' = Release(r, "main")
      /\ left' = [left EXCEPT ![r] = IF c.op \in Barriers THEN @ + 1 ELSE @]
      /\ pub' = [pub EXCEPT ![r] =
                    IF c.op \notin Publications THEN @
                    ELSE [val |-> IF c.res = "ok" /\ fd[r] = "open" THEN c.val ELSE 0,
                          at |-> entered[r] + 1]]
      /\ UNCHANGED <<world, stream, mixed, entered, req, ans>>
  BY DEF Return1, Leave, Alive, managerVars
<1>2. c \in SoloCall /\ fd[r] \in SoloFds /\ inited[r] \in {"no", "single", "alone", "pm"}
  BY <1>1, SoloType
<1>a. Alone(r)
  BY DEF Apart
<1>3. \/ phase[r] = "new" /\ c.op = "PMI_Init"
      \/ phase[r] = "ready" /\ c.op # "PMI_Init"
  BY <1>1, <1>a DEF Alone
<1>4. conn \in {"none", "own", "stuck", "left", "closed"} /\ stage \in {"ready", "final"}
  BY <1>2, <1>3 DEF SoloFds
<1>5. PICK state \in {"no", "single", "alone", "pm"} : state = Initialized1(r, c)
  BY <1>2 DEF Initialized1
<1>6. /\ c.op = "PMI_Init" => state = "single"
      /\ c.op # "PMI_Init" => \/ c.op \in Promoting /\ inited[r] = "single" /\ state \in {"alone", "pm"}
                              \/ ~(c.op \in Promoting /\ inited[r] = "single") /\ state = inited[r]
  <2>1. c.op = "PMI_Init" => Succeeds1(r, c) /\ fd[r] = "none"
    <3>1. c.op = "PMI_Init" => fd[r] = "none" /\ c.res = "ok" /\ world.env = "none"
      BY <1>1, <1>3, <1>a DEF Alone, Apart
    <3> QED  BY <3>1 DEF Succeeds1, NameService
  <2>2. c.op = "PMI_Init" => state = "single"
    <3>1. CASE c.op = "PMI_Init"
      BY <1>5, <2>1, <3>1 DEF Initialized1, Promoting
    <3> QED  BY <3>1
  <2>3. "PMI_Init" \notin Promoting
    BY DEF Promoting
  <2>4. c.op # "PMI_Init" /\ c.op \in Promoting /\ inited[r] = "single" => state \in {"alone", "pm"}
    BY <1>5 DEF Initialized1
  <2>5. c.op # "PMI_Init" /\ ~(c.op \in Promoting /\ inited[r] = "single") => state = inited[r]
    BY <1>5 DEF Initialized1
  <2> QED  BY <2>2, <2>4, <2>5
<1>7. Idle \in SoloCall /\ UnderWay(Idle) /\ Idle.at = "idle"
  <2>1. <<>> \in Seq(Cmds) /\ 0 \in Keys /\ None \in Ops
    BY KeyTypes DEF Ops
  <2>2. Idle.own \in {TRUE}
    BY Zenon DEF Idle
  <2> QED  BY <2>1, <2>2 DEF Idle, SoloCall, SoloRes, UnderWay
<1> HIDE DEF conn, stage, Idle
<1>8. /\ call' \in [Ranks -> [Threads -> SoloCall]]
      /\ call'[r]["main"] = Idle /\ call'[r]["helper"] = call[r]["helper"]
      /\ \A q \in Ranks \ {r} : call'[q] = call[q]
      /\ \A q \in Ranks, u \in Threads : call'[q][u].res \in Outcomes /\ UnderWay(call'[q][u])
  BY <1>1, <1>7, SoloSet
<1>9. /\ fd' \in [Ranks -> {"none", "open", "closed", "own", "stuck", "left"}]
      /\ fd'[r] = conn /\ \A q \in Ranks \ {r} : fd'[q] = fd[q]
  BY <1>1, <1>4 DEF Apart, TypeOK
<1>10. /\ inited' \in [Ranks -> {"no", "single", "alone", "pm"}]
       /\ inited'[r] = state /\ \A q \in Ranks \ {r} : inited'[q] = inited[q]
  BY <1>1, <1>5 DEF Apart, TypeOK
<1>11. /\ phase' \in [Ranks -> {"new", "ready", "final", "killed"}]
       /\ phase'[r] = stage /\ \A q \in Ranks \ {r} : phase'[q] = phase[q]
  BY <1>1, <1>4 DEF Apart, TypeOK
<1>12. mutex' \in [Ranks -> Threads \cup {None}]
  BY <1>1 DEF Apart, TypeOK, Release
<1>13. entered[r] \in 0 .. MaxBarriers /\ left[r] \in 0 .. MaxBarriers
  BY DEF Apart, TypeOK
<1>14. left[r] <= entered[r] /\ (c.op \in Barriers => left[r] < entered[r])
  BY <1>1, <1>a DEF Alone
<1>15. /\ left' \in [Ranks -> 0 .. MaxBarriers] /\ left'[r] <= entered[r]
       /\ \A q \in Ranks \ {r} : left'[q] = left[q]
  BY <1>1, <1>13, <1>14, BarriersAssumption DEF Apart, TypeOK
<1>16. pub' \in [Ranks -> [val : {0}, at : Nat]]
  <2>1. pub \in [Ranks -> [val : {0}, at : Nat]] /\ fd[r] # "open" /\ entered[r] + 1 \in Nat
    BY <1>2, <1>13, BarriersAssumption DEF Apart, SoloFds
  <2>2. pub' = [pub EXCEPT ![r] = IF c.op \notin Publications THEN pub[r]
                                  ELSE [val |-> 0, at |-> entered[r] + 1]]
    BY <1>1, <2>1
  <2> QED  BY <2>1, <2>2
<1>17. TypeOK'
  BY <1>1, <1>8, <1>9, <1>10, <1>11, <1>12, <1>15 DEF Apart, TypeOK, UnderWay
<1>18. Alone(r)'
  <2>1. stage = "ready" => state # "no"
    BY <1>3, <1>6, <1>a DEF stage, Alone
  <2>2. conn = "closed" => stage = "final"
    BY <1>2 DEF conn, stage, SoloFds
  <2>3. Tries(r)'
    <3>1. state = "single" => conn = "none"
      <4>1. CASE c.op = "PMI_Init"
        BY <4>1, <1>3, <1>a DEF conn, Alone
      <4>2. CASE c.op # "PMI_Init" /\ state = "single"
        <5>1. inited[r] = "single" /\ c.op \notin Promoting
          BY <1>6, <4>2
        <5>2. fd[r] = "none"
          BY <5>1, <1>1, <1>a DEF Alone, Tries
        <5> QED  BY <5>1, <5>2 DEF conn, WithManager
      <4> QED  BY <4>1, <4>2
    <3> QED  BY <1>7, <1>8, <1>9, <1>10, <3>1 DEF Tries
  <2>4. conn # "open" /\ stage # "new"
    BY <1>4
  <2> QED  BY <1>1, <1>7, <1>8, <1>9, <1>10, <1>11, <1>15, <1>a, <2>1, <2>2, <2>3, <2>4 DEF Alone
<1>19. \A q \in Ranks \ {r} : SoloSame(q)
  BY <1>1, <1>8, <1>9, <1>10, <1>11, <1>15 DEF SoloSame
<1> QED  BY <1>1, <1>8, <1>16, <1>17, <1>18, <1>19, SoloElsewhere

\* A call of a singleton that is ready.
LEMMA SoloCallBegins ==
    ASSUME NEW r \in Ranks, NEW op \in Ops \ {"PMI_Init"}, NEW todo \in Seq(Cmds),
           NEW key \in Keys, NEW val \in Nat, NEW first \in {"fork", "write"},
           first = "fork" => inited[r] = "single" /\ op \in Promoting,
           Call(r, "main", op, todo, key, val, first)
    PROVE  SoloBegins(r)
<1>1. SoloEntry(r, op, todo, key, val, first)
  BY DEF SoloEntry, Call
<1> QED  BY <1>1 DEF SoloBegins

\* One exchange, or none.
LEMMA SoloAsk ==
    ASSUME NEW r \in Ranks, NEW op \in Ops \ {"PMI_Init"}, NEW cmd \in Cmds, Ask(r, op, cmd)
    PROVE  SoloBegins(r)
<1>1. PICK todo \in Seq(Cmds) : todo = IF WithManager(r) THEN <<cmd>> ELSE <<>>
  BY CmdSeqs
<1>2. Call(r, "main", op, todo, 0, 0, "write")
  BY <1>1 DEF Ask
<1> QED  BY <1>1, <1>2, SoloCallBegins, KeyTypes

\* A function that starts an mpiexec.
LEMMA SoloPromote ==
    ASSUME NEW r \in Ranks, NEW op \in Promoting, NEW todo \in Seq(Cmds), NEW key \in Keys,
           NEW val \in Nat, Promote(r, op, todo, key, val)
    PROVE  SoloBegins(r)
<1>1. op \in Ops \ {"PMI_Init"}
  BY DEF Promoting, Ops
<1>2. PMIi_InitIfSingleton(r) \in Seq(Cmds)
  <2>1. {"greeting", "singinit", "init", "get_maxes", "cached-put"} \subseteq Cmds
    BY DEF Cmds, Queries
  <2>2. /\ <<"greeting", "singinit">> \in Seq(Cmds) /\ <<"init", "get_maxes">> \in Seq(Cmds)
        /\ <<"cached-put">> \in Seq(Cmds) /\ <<>> \in Seq(Cmds)
    BY <2>1
  <2>3. <<"greeting", "singinit">> \o <<"init", "get_maxes">> \o <<"cached-put">> \in Seq(Cmds)
    BY <2>2, ConcatProperties
  <2> QED  BY <2>2, <2>3 DEF PMIi_InitIfSingleton, PMII_getmaxes
<1>3. PICK all \in Seq(Cmds) : all = PMIi_InitIfSingleton(r) \o todo
  BY <1>2, ConcatProperties
<1>4. PICK first \in {"fork", "write"} : first = IF inited[r] = "single" THEN "fork" ELSE "write"
  OBVIOUS
<1>5. Call(r, "main", op, all, key, val, first)
  BY <1>3, <1>4 DEF Promote
<1> QED  BY <1>1, <1>4, <1>5, SoloCallBegins

\* The name of the key value space, and a function on it.
LEMMA SoloNames ==
    ASSUME NEW r \in Ranks
    PROVE  /\ PMI_KVS_Get_my_name(r) \o PMI_KVS_Put(r) \in Seq(Cmds)
           /\ PMI_KVS_Get_my_name(r) \o PMI_KVS_Get \in Seq(Cmds)
<1>1. {"my_kvsname", "put", "get"} \subseteq Cmds
  BY DEF Cmds, Queries
<1>2. /\ <<"my_kvsname">> \in Seq(Cmds) /\ <<"put">> \in Seq(Cmds) /\ <<"get">> \in Seq(Cmds)
      /\ <<>> \in Seq(Cmds)
  BY <1>1
<1>3. PMI_KVS_Get_my_name(r) \in Seq(Cmds) /\ PMI_KVS_Put(r) \in Seq(Cmds) /\ PMI_KVS_Get \in Seq(Cmds)
  BY <1>2 DEF PMI_KVS_Get_my_name, PMI_KVS_Put, PMI_KVS_Get
<1> QED  BY <1>3, ConcatProperties

\* Every call of a singleton's program is an entry.
LEMMA SoloWrapper ==
    ASSUME Apart, NEW r \in Ranks, WrapperCall(r)
    PROVE  SoloBegins(r)
<1>0. world.api = "pmi1" /\ world.env = "none"
  BY DEF Apart
<1>1. CASE lcm_pm_initialize(r)
  <2>1. PICK conn \in getPMIFD :
           /\ phase[r] = "new"
           /\ Enter(r, "main", "PMI_Init",
                    IF conn = "open" THEN world.hello \o PMII_getmaxes ELSE <<>>,
                    0, 0, "write", conn)
    BY <1>0, <1>1 DEF lcm_pm_initialize, PMI_Init
  <2>2. conn = "none" /\ fd[r] = "none"
    BY <1>0, <2>1 DEF getPMIFD, Apart, Alone
  <2>3. Enter(r, "main", "PMI_Init", <<>>, 0, 0, "write", fd[r])
    BY <2>1, <2>2
  <2>4. "PMI_Init" \in Ops /\ <<>> \in Seq(Cmds) /\ 0 \in Keys
    BY KeyTypes, CmdSeqs DEF Ops
  <2>5. SoloEntry(r, "PMI_Init", <<>>, 0, 0, "write")
    BY <2>1, <2>3 DEF SoloEntry
  <2> QED  BY <2>4, <2>5 DEF SoloBegins
<1>2. ASSUME NEW val \in Lengths, Publish(r, val)  PROVE SoloBegins(r)
  <2>1. PICK me \in lcm_pm_get_rank(r) : lcm_pm_publish(r, me, val)
    BY <1>0, <1>2 DEF Publish
  <2>2. me \in Keys /\ val \in Nat
    BY <1>0, KeyTypes, LengthsAssumption DEF lcm_pm_get_rank
  <2>3. "lcm_pm_publish" \in Ops \ {"PMI_Init"}
    BY DEF Ops, Publications
  <2>4. PICK todo \in Seq(Cmds) : todo = PMI_KVS_Get_my_name(r) \o PMI_KVS_Put(r)
    BY SoloNames
  <2>5. Call(r, "main", "lcm_pm_publish", todo, me, val, "write")
    BY <2>1, <2>4 DEF lcm_pm_publish
  <2> QED  BY <2>2, <2>3, <2>5, SoloCallBegins
<1>3. ASSUME NEW key \in Keys, GetName(r, key)  PROVE SoloBegins(r)
  <2>1. PICK todo \in Seq(Cmds) : todo = PMI_KVS_Get_my_name(r) \o PMI_KVS_Get
    BY SoloNames
  <2>2. Promote(r, "lcm_pm_getname", todo, key, 0)
    BY <1>0, <1>3, <2>1 DEF GetName, lcm_pm_getname
  <2>3. "lcm_pm_getname" \in Promoting
    BY DEF Promoting
  <2> QED  BY <2>2, <2>3, SoloPromote
<1>4. CASE lcm_pm_get_size(r)
  <2>1. PICK todo \in Seq(Cmds) :
           todo = IF inited[r] \in {"single", "pm"} THEN <<"universe_size">> ELSE <<>>
    <3>1. "universe_size" \in Cmds
      BY DEF Cmds, Queries
    <3> QED  BY <3>1, CmdSeqs
  <2>2. Promote(r, "PMI_Get_universe_size", todo, 0, 0)
    BY <1>4, <2>1 DEF lcm_pm_get_size, PMI_Get_universe_size
  <2>3. "PMI_Get_universe_size" \in Promoting
    BY DEF Promoting
  <2> QED  BY <2>2, <2>3, SoloPromote, KeyTypes
<1>5. CASE lcm_pm_barrier(r)
  <2>1. "PMI_Barrier" \in Ops \ {"PMI_Init"} /\ "barrier" \in Cmds
    BY DEF Ops, Barriers, Cmds, Collective
  <2> QED  BY <1>0, <1>5, <2>1, SoloAsk DEF lcm_pm_barrier, PMI_Barrier
<1>6. CASE lcm_pm_finalize(r)
  <2>1. "PMI_Finalize" \in Ops \ {"PMI_Init"} /\ "finalize" \in Cmds
    BY DEF Ops, Cmds, Queries
  <2> QED  BY <1>0, <1>6, <2>1, SoloAsk DEF lcm_pm_finalize, PMI_Finalize
<1> QED  BY <1>1, <1>2, <1>3, <1>4, <1>5, <1>6 DEF WrapperCall

\* The calls beyond the wrapper's.
LEMMA SoloOther ==
    ASSUME Apart, NEW r \in Ranks, NEW t \in Threads, OtherCall(r, t)
    PROVE  SoloBegins(r) /\ others' \subseteq Ranks \X Threads
<1>1. world.api = "pmi1" /\ others \subseteq Ranks \X Threads
  BY DEF Apart, TypeOK
<1>2. r = 0 /\ Other1 /\ others' \subseteq Ranks \X Threads
  BY <1>1 DEF OtherCall
<1>3. {"PMI_Get_appnum", "PMI_Abort", "PMI_Publish_name", "PMI_Unpublish_name",
       "PMI_Lookup_name"} \subseteq Ops \ {"PMI_Init"}
  BY DEF Ops
<1>4. {"appnum", "abort", "publish", "unpublish", "lookup", "spawn", "spawn-part"} \subseteq Cmds
  BY DEF Cmds, Queries
<1>5. CASE PMI_Get_appnum(0)
  BY <1>2, <1>3, <1>4, <1>5, SoloAsk DEF PMI_Get_appnum
<1>6. CASE PMI_Abort(0)
  <2>1. <<"abort">> \in Seq(Cmds)
    BY <1>4, CmdSeqs
  <2> QED  BY <1>2, <1>3, <1>6, <2>1, KeyTypes, SoloCallBegins DEF PMI_Abort
<1>7. CASE PMI_Publish_name(0)
  BY <1>2, <1>3, <1>4, <1>7, SoloAsk DEF PMI_Publish_name
<1>8. CASE PMI_Unpublish_name(0)
  BY <1>2, <1>3, <1>4, <1>8, SoloAsk DEF PMI_Unpublish_name
<1>9. CASE PMI_Lookup_name(0)
  BY <1>2, <1>3, <1>4, <1>9, SoloAsk DEF PMI_Lookup_name
<1>10. ASSUME NEW fits \in {SpawnFits, SpawnFirstPieceTooLong, SpawnLaterPieceTooLong},
              PMI_Spawn_multiple(0, fits)
       PROVE  SoloBegins(r)
  <2>1. fits \in {0, 1, 2}
    BY DEF SpawnFits, SpawnFirstPieceTooLong, SpawnLaterPieceTooLong
  <2>2. <<"spawn">> \in Seq(Cmds) /\ <<>> \in Seq(Cmds) /\ <<"spawn-part">> \in Seq(Cmds)
    BY <1>4, CmdSeqs
  <2>3. PICK todo \in Seq(Cmds) :
           todo = CASE fits = SpawnFits -> <<"spawn">>
                    [] fits = SpawnFirstPieceTooLong -> <<>>
                    [] fits = SpawnLaterPieceTooLong -> <<"spawn-part">>
    BY <2>1, <2>2 DEF SpawnFits, SpawnFirstPieceTooLong, SpawnLaterPieceTooLong
  <2>4. Promote(r, "PMI_Spawn_multiple", todo, 0, fits)
    BY <1>2, <1>10, <2>3 DEF PMI_Spawn_multiple
  <2>5. "PMI_Spawn_multiple" \in Promoting /\ fits \in Nat
    BY <2>1 DEF Promoting
  <2> QED  BY <2>4, <2>5, SoloPromote, KeyTypes
<1> QED  BY <1>2, <1>5, <1>6, <1>7, <1>8, <1>9, <1>10 DEF Other1

\* Apart holds at the start of a singleton.
LEMMA InitApart == Init /\ world.api = "pmi1" /\ world.env = "none" => Apart
<1> SUFFICES ASSUME Init, world.api = "pmi1", world.env = "none"  PROVE Apart
  OBVIOUS
<1>1. /\ WireInit /\ others = {} /\ world \in Worlds
      /\ req = [r \in Ranks |-> <<>>] /\ ans = [r \in Ranks |-> <<>>]
  BY DEF Init, ManagerInit
<1>2. Idle \in SoloCall /\ UnderWay(Idle) /\ Idle.at = "idle" /\ Idle.res \in Outcomes
  <2>1. <<>> \in Seq(Cmds) /\ 0 \in Keys /\ None \in Ops
    BY KeyTypes DEF Ops
  <2>2. Idle.own \in {TRUE}
    BY Zenon DEF Idle
  <2> QED  BY <2>1, <2>2 DEF Idle, SoloCall, SoloRes, UnderWay, Outcomes
<1> HIDE DEF Idle
<1>3. /\ call \in [Ranks -> [Threads -> SoloCall]]
      /\ \A r \in Ranks, t \in Threads : call[r][t] = Idle
      /\ "main" \in Threads /\ "helper" \in Threads
  BY <1>1, <1>2 DEF WireInit, Threads
<1>4. TypeOK
  BY <1>1, <1>2, <1>3, BarriersAssumption DEF TypeOK, WireInit, UnderWay
<1>5. ASSUME NEW r \in Ranks  PROVE Alone(r)
  BY <1>1, <1>2, <1>3 DEF WireInit, Alone, Tries
<1>6. pub \in [Ranks -> [val : {0}, at : Nat]] /\ mixed = {}
  BY <1>1 DEF WireInit
<1> QED  BY <1>3, <1>4, <1>5, <1>6 DEF Apart

\* Every step of a singleton keeps Apart.
LEMMA NextApart == Apart /\ [Next]_vars => Apart'
<1> SUFFICES ASSUME Apart, [Next]_vars  PROVE Apart'
  OBVIOUS
<1>0. world.api = "pmi1" /\ world.env = "none"
  BY DEF Apart
<1>1. ASSUME NEW r \in Ranks, WrapperCall(r)  PROVE Apart'
  <2>1. others' \subseteq Ranks \X Threads
    BY <1>1 DEF WrapperCall, Apart, TypeOK
  <2> QED  BY <1>1, <2>1, SoloWrapper, SoloEnter
<1>2. ASSUME NEW r \in Ranks, NEW t \in Threads, OtherCall(r, t)  PROVE Apart'
  BY <1>2, SoloOther, SoloEnter
<1>3. ASSUME NEW r \in Ranks, NEW t \in Threads, Step(r, t)  PROVE Apart'
  <2>1. CASE Step1(r)
    BY <1>3, <2>1, SoloWriteline, SoloSpawn, SoloGetResponse, SoloReturn, SoloSinginit, SoloAnswers
       DEF Step1, Step
  <2>2. CASE Sigpipe(r, t)
    <3>1. /\ call[r][t].at = "write" /\ Exits(r)
          /\ UNCHANGED <<world, fd, inited, mutex, stream, mixed, entered, left, pub, req, ans>>
      BY <2>2 DEF Sigpipe, history, managerVars
    <3>2. call[r]["helper"].at = "idle"
      BY DEF Apart, Alone, Idle
    <3>3. t = "main"
      BY <3>1, <3>2 DEF Threads
    <3>4. UNCHANGED others
      BY <1>3 DEF Step
    <3> QED  BY <3>1, <3>3, <3>4, SoloEnds
  <2> QED  BY <1>0, <1>3, <2>1, <2>2 DEF Step
<1>4. ASSUME NEW r \in Ranks, Mpiexec(r)  PROVE Apart'
  BY <1>4, SoloAccept, SoloDies DEF Mpiexec
<1>5. ASSUME NEW r \in Ranks, Manages(r)  PROVE FALSE
  <2>1. req[r] = <<>>
    BY DEF Apart, Alone
  <2> QED  BY <1>5, <2>1 DEF Manages, Serve, Kill
<1>6. CASE UNCHANGED vars
  <2>1. UNCHANGED <<world, fd, inited, phase, mutex, stream, call, mixed, entered, left, pub, req, ans, others>>
    BY <1>6 DEF vars, clientVars, history, managerVars
  <2>2. TypeOK'
    BY <2>1 DEF Apart, TypeOK
  <2>3. ASSUME NEW r \in Ranks  PROVE Alone(r)'
    <3>1. Alone(r)
      BY DEF Apart
    <3> QED  BY <2>1, <3>1 DEF Alone, Tries, Unheard
  <2> QED  BY <2>1, <2>2, <2>3 DEF Apart
<1>7. CASE ManagerDies
  BY <1>0, <1>7 DEF ManagerDies
<1> QED  BY <1>1, <1>2, <1>3, <1>4, <1>5, <1>6, <1>7 DEF Next

\* What Apart says of a singleton: a call of it fails because there is no mpiexec,
\* because mpiexec says so, or because of what it was called with.
LEMMA ApartHolds ==
    Apart => TypeOK /\ OwnAnswers /\ BarrierHolds /\ NamesVisible /\ CallFailuresExplained
<1> SUFFICES ASSUME Apart
             PROVE  TypeOK /\ OwnAnswers /\ BarrierHolds /\ NamesVisible /\ CallFailuresExplained
  OBVIOUS
<1>1. TypeOK /\ world.api = "pmi1" /\ world.env = "none"
  BY DEF Apart
<1>2. ASSUME NEW r \in Ranks, NEW t \in Threads
      PROVE  call[r][t].own /\ call[r][t].due = 0 /\ call[r][t] \in SoloCall
  <2>1. call[r][t] \in SoloCall
    BY DEF Apart
  <2> QED  BY <2>1 DEF SoloCall, SoloRes
<1>3. OwnAnswers
  <2>1. ASSUME NEW r \in Ranks  PROVE stream[r] # "broken"
    BY NoneAssumption DEF Apart, Alone
  <2> QED  BY <1>2, <2>1 DEF OwnAnswers
<1>4. BarrierHolds
  BY DEF BarrierHolds, Apart, Alone
<1>5. NamesVisible
  BY <1>2 DEF NamesVisible
<1>6. ASSUME NEW r \in Ranks, NEW t \in Threads, Finished(r, t), ~Succeeds(r, call[r][t])
      PROVE  LET c == call[r][t]
             IN  \/ fd[r] \in {"none", "left"}
                 \/ c.op = "PMI_Abort"
                 \/ c.res \in {"refused", "rejected", "notimpl", "toolong"}
                 \/ c.op = "PMI_Spawn_multiple" /\ c.val # SpawnFits
                 \/ /\ Singleton(r)
                    /\ \/ c.op \in NameService
                       \/ c.op = "lcm_pm_publish" /\ c.val >= SingletonMax
                 \/ c.res = "absent" /\ (c.due = 0 \/ world.rankless)
  <2>1. call[r]["helper"].at = "idle"
    BY DEF Apart, Alone, Idle
  <2>2. t = "main"
    BY <1>6, <2>1 DEF Finished, Threads
  <2> DEFINE c == call[r]["main"]
  <2>3. c.at = "done" /\ ~Succeeds1(r, c)
    BY <1>1, <1>6, <2>2 DEF Finished, Succeeds
  <2>4. /\ c \in SoloCall /\ inited[r] \in {"no", "single", "alone", "pm"}
        /\ c.due = 0 /\ "main" \in Threads
    BY <1>2, SoloType
  <2>5. Alone(r)
    BY DEF Apart
  <2>6. /\ c.res \in {"lost", "unready"} => fd[r] \in {"none", "left"}
        /\ c.op = "PMI_Init" => c.res = "ok"
        /\ c.op # "PMI_Init" => inited[r] # "no"
    BY <2>3, <2>5 DEF Alone, Unheard
  <2>7. c.res \in {"ok", "refused", "rejected", "absent", "lost", "unready"} /\ c.val \in Nat
    BY <2>4 DEF SoloCall, SoloRes
  <2>8. CASE c.res # "ok"
    BY <2>2, <2>4, <2>6, <2>7, <2>8
  <2>9. CASE c.res = "ok"
    <3>1. c.op # "PMI_Init"
      BY <1>1, <2>3, <2>9 DEF Succeeds1, NameService
    <3>2. CASE c.op \in NameService
      <4>1. ~WithManager(r)
        BY <2>3, <2>9, <3>2 DEF Succeeds1, NameService
      <4>2. Singleton(r)
        BY <2>4, <2>6, <3>1, <4>1 DEF WithManager, Singleton
      <4> QED  BY <2>2, <3>2, <4>2
    <3>3. CASE c.op = "lcm_pm_publish"
      <4>1. Singleton(r) /\ ~(c.val < SingletonMax)
        BY <2>3, <2>9, <3>3 DEF Succeeds1, NameService
      <4>2. c.val >= SingletonMax
        BY <2>7, <4>1 DEF SingletonMax
      <4> QED  BY <2>2, <3>3, <4>1, <4>2
    <3>4. CASE c.op = "PMI_Spawn_multiple"
      <4>1. c.val # SpawnFits
        BY <2>3, <2>9, <3>4 DEF Succeeds1, NameService
      <4> QED  BY <2>2, <3>4, <4>1
    <3>5. CASE c.op = "PMI_Abort"
      BY <2>2, <3>5
    <3>6. CASE c.op \notin NameService \cup {"lcm_pm_publish", "PMI_Spawn_multiple", "PMI_Abort"}
      BY <2>3, <2>9, <3>1, <3>6 DEF Succeeds1, NameService
    <3> QED  BY <3>2, <3>3, <3>4, <3>5, <3>6
  <2> QED  BY <2>8, <2>9
<1>7. CallFailuresExplained
  BY <1>6 DEF CallFailuresExplained
<1> QED  BY <1>1, <1>3, <1>4, <1>5, <1>7

\* Wire or, for a singleton, Apart holds in every state: see the head of this
\* module.
THEOREM WireInvariant == Spec => [](Wire \/ Apart)
<1>1. Init => Wire \/ Apart
  BY InitWire, InitApart
<1>2. (Wire \/ Apart) /\ [Next]_vars => (Wire \/ Apart)'
  BY NextWire, StutterWire, NextApart
<1> QED  BY <1>1, <1>2, PTL DEF Spec

\* In every behaviour the variables hold what their comments say, and a call is
\* under way exactly while it has a command left to exchange.
THEOREM TypeCorrect == Spec => []TypeOK
<1>1. Wire \/ Apart => TypeOK
  BY ApartHolds DEF Wire, Types
<1> QED  BY <1>1, WireInvariant, PTL

\* A thread reads only the answers to its own requests, whole, on every rank where
\* no function without the lock (PMI2_Job_*, PMIX_Ring, PMI2_Finalize) met
\* another thread's exchange: the lock of the other functions is enough.
THEOREM AnswersAreOwn == Spec => []OwnAnswers
<1>1. Wire \/ Apart => OwnAnswers
  BY ApartHolds DEF Wire, Local, Own, OwnAnswers
<1> QED  BY <1>1, WireInvariant, PTL

-----------------------------------------------------------------------------
(***************************************************************************)
(* The barriers of the PMI1 and the PMI2 client: for every number of ranks *)
(* and barriers, no rank leaves a barrier that another has not entered,    *)
(* while the manager lives and is reached and no thread took another's     *)
(* answer.                                                                 *)
(*                                                                         *)
(* The property compares what a rank has left with what another has        *)
(* entered, and between the two lies the whole path of a barrier: the      *)
(* call, its request on the socket, the manager's round, the answers, the  *)
(* read. The invariant Fence counts on that path. A rank has completed a   *)
(* barrier when its answer is on the way, and it has entered one for       *)
(* certain when its request is neither still to be written, nor on the     *)
(* socket, nor waiting in the round. What every rank has completed is at   *)
(* most what every other has entered for certain; a round that closes      *)
(* raises both sides by one. That a rank has at most one barrier out, and  *)
(* that the answer it waits for is its own, is the invariant Wire.         *)
(***************************************************************************)

\* A barrier of rank q on its way to the manager, with the manager, or not yet
\* requested by the call that is in it.
InReq(q) == \E i \in 1 .. Len(req[q]) : req[q][i].cmd = "barrier"
InPm(q) == pm.in[q] # None /\ pm.in[q].cmd = "barrier"
Before(q) == call[q]["main"].op \in Barriers /\ call[q]["main"].at \in {"lock", "write"}
Out(q) == InReq(q) \/ InPm(q) \/ Before(q)

\* The call in a barrier has its answer.
Answered(r) ==
    /\ call[r]["main"].op \in Barriers
    /\ call[r]["main"].at = "done" \/ (OnWire(r, "main") /\ ans[r] # <<>>)

\* The manager can still answer rank r, and only r's own threads read the
\* answers; the barriers r has completed, counting the one whose answer is
\* there; the barriers q has entered for certain, not counting the one that
\* is still out.
Good(r) == pm.up /\ fd[r] = "open" /\ r \notin mixed
Completed(r) == left[r] + (IF Answered(r) THEN 1 ELSE 0)
Slack(q) == entered[q] - (IF Out(q) THEN 1 ELSE 0)

\* A barrier function asks the manager for one barrier, no other function
\* does.
BarrierTodo(c) ==
    IF c.op \in Barriers THEN c.todo \in {<<>>, <<"barrier">>}
                         ELSE c.todo \in Seq(Cmds \ {"barrier"})

\* A rank has at most one barrier out, in one place.
Once(q) ==
    /\ \A i, j \in 1 .. Len(req[q]) :
          req[q][i].cmd = "barrier" /\ req[q][j].cmd = "barrier" => i = j
    /\ ~(InReq(q) /\ InPm(q)) /\ ~(Before(q) /\ (InReq(q) \/ InPm(q)))

\* A barrier that is out belongs to a call that waits for it, as long as
\* nobody took its answer.
Held(q) ==
    q \notin mixed /\ phase[q] \in {"new", "ready"} /\ (InReq(q) \/ InPm(q)) =>
        OnWire(q, "main") /\ call[q]["main"].op \in Barriers

\* What a rank can have done in each phase of its life.
Stage(q) ==
    /\ phase[q] = "new" => entered[q] = 0
    /\ phase[q] \in {"new", "ready"} => fd[q] # "closed"
    /\ world.api = "pmi1" /\ pm.up /\ fd[q] = "open" =>
          /\ phase[q] = "ready" => inited[q] = "pm"
          /\ call[q]["main"].res # "unready"
    /\ ~Alive(q) => \A t \in Threads : call[q][t].at = "idle"
    /\ \A t \in Threads : InCall(q, t) /\ call[q][t].op = InitOp => phase[q] = "new"

\* Rank q's part of the invariant.
Fenced(q) ==
    /\ \A t \in Threads : BarrierTodo(call[q][t])
    /\ Once(q) /\ Held(q) /\ Stage(q) /\ Slack(q) >= 0

\* No rank has completed more barriers than any other has entered for
\* certain.
Fence ==
    /\ pm.lazy = world.lazy
    /\ ~world.lazy =>
          /\ \A q \in Ranks : Fenced(q)
          /\ \A r, q \in Ranks : Good(r) => Completed(r) <= Slack(q)

-----------------------------------------------------------------------------
\* What a step does for rank q: it keeps q's part of the invariant, brings no new
\* request for a barrier without a call that has entered one, and completes at
\* most k barriers more, no more than every other rank has entered by then.
Keeps(q, k) ==
    /\ Fenced(q)'
    /\ Slack(q)' >= Slack(q) + k
    /\ Good(q)' => \/ Good(q) /\ Completed(q)' <= Completed(q) + k
                   \/ Completed(q)' = 0

\* The counts are integers.
LEMMA CountTypes ==
    ASSUME Types, NEW q \in Ranks
    PROVE  /\ entered[q] \in Nat /\ left[q] \in Nat
           /\ Slack(q) \in Int /\ Completed(q) \in Nat
<1>1. entered[q] \in 0 .. MaxBarriers /\ left[q] \in 0 .. MaxBarriers
  BY DEF Types, TypeOK
<1>2. entered[q] \in Nat /\ left[q] \in Nat
  BY <1>1, BarriersAssumption
<1> QED  BY <1>2 DEF Slack, Completed

\* A step that keeps every rank's part keeps the invariant.
LEMMA KeepsFence ==
    ASSUME Fence, Types, Types', ~world.lazy, UNCHANGED world, pm'.lazy = pm.lazy,
           NEW k \in {0, 1}, \A q \in Ranks : Keeps(q, k)
    PROVE  Fence'
<1>1. \A q \in Ranks : /\ Slack(q) \in Int /\ Slack(q)' \in Int
                       /\ Completed(q) \in Nat /\ Completed(q)' \in Nat
                       /\ Slack(q) >= 0
  <2>1. \A q \in Ranks : entered'[q] \in 0 .. MaxBarriers /\ left'[q] \in 0 .. MaxBarriers
    BY DEF Types, TypeOK
  <2>2. \A q \in Ranks : Slack(q)' \in Int /\ Completed(q)' \in Nat
    BY <2>1, BarriersAssumption DEF Slack, Completed
  <2> QED  BY <2>2, CountTypes DEF Fence, Fenced
<1>2. ASSUME NEW r \in Ranks, NEW q \in Ranks, Good(r)'
      PROVE  Completed(r)' <= Slack(q)'
  <2>1. Slack(q)' >= Slack(q) + k
    BY DEF Keeps
  <2>2. CASE Good(r) /\ Completed(r)' <= Completed(r) + k
    <3>1. Completed(r) <= Slack(q)
      BY <2>2 DEF Fence
    <3> QED  BY <1>1, <2>1, <2>2, <3>1
  <2>3. CASE Completed(r)' = 0
    BY <1>1, <2>1, <2>3
  <2> QED  BY <1>2, <2>2, <2>3 DEF Keeps
<1> QED  BY <1>2 DEF Fence, Keeps

\* A rank nothing happens to.
LEMMA SameKeeps ==
    ASSUME Fence, Types, ~world.lazy, NEW q \in Ranks, Same(q), inited'[q] = inited[q],
           UNCHANGED world, pm'.up = pm.up
    PROVE  Keeps(q, 0)
<1>1. Fenced(q)
  BY DEF Fence
<1>2. /\ InReq(q)' <=> InReq(q)
      /\ InPm(q)' <=> InPm(q)
      /\ Before(q)' <=> Before(q)
      /\ Answered(q)' <=> Answered(q)
      /\ Good(q)' <=> Good(q)
  BY DEF Same, InReq, InPm, Before, Answered, Good, OnWire
<1>3. Slack(q)' = Slack(q) /\ Completed(q)' = Completed(q)
  BY <1>2 DEF Same, Slack, Completed, Out
<1>4. Once(q)'
  BY <1>1, <1>2 DEF Fenced, Once, Same
<1>5. Held(q)' /\ Stage(q)'
  BY <1>1, <1>2 DEF Fenced, Held, Stage, OnWire, Alive, Same, InCall, InitOp
<1>6. \A t \in Threads : BarrierTodo(call[q][t])'
  BY <1>1 DEF Fenced, BarrierTodo, Same
<1>7. Slack(q) \in Int /\ Completed(q) \in Nat
  BY CountTypes
<1> QED  BY <1>1, <1>2, <1>3, <1>4, <1>5, <1>6, <1>7 DEF Keeps, Fenced

\* A step of one rank's client.
LEMMA FenceElsewhere ==
    ASSUME Fence, Types, Types', ~world.lazy, NEW r \in Ranks, Keeps(r, 0),
           \A q \in Ranks \ {r} : Same(q) /\ inited'[q] = inited[q],
           UNCHANGED world, pm'.up = pm.up, pm'.lazy = pm.lazy
    PROVE  Fence'
<1>1. \A q \in Ranks : Keeps(q, 0)
  BY SameKeeps
<1> QED  BY <1>1, KeepsFence

-----------------------------------------------------------------------------
\* The commands of a call that is not a barrier.
LEMMA BarrierTodos ==
    /\ <<>> \in Seq(Cmds \ {"barrier"})
    /\ <<"put">> \in Seq(Cmds \ {"barrier"}) /\ <<"get">> \in Seq(Cmds \ {"barrier"})
    /\ <<"my_kvsname", "put">> \in Seq(Cmds \ {"barrier"})
    /\ <<"my_kvsname", "get">> \in Seq(Cmds \ {"barrier"})
    /\ Barriers \cap (Publications \cup Gets \cup {"PMI_Init", "PMI2_Init"}) = {}
    /\ \A s \in Seq(PlainCmds) : s \in Seq(Cmds \ {"barrier"})
<1>1. {"put", "get", "my_kvsname"} \subseteq Cmds \ {"barrier"}
  BY DEF Cmds, Queries
<1>2. \A s \in Seq(PlainCmds) : s \in Seq(Cmds \ {"barrier"})
  <2>1. PlainCmds \subseteq Cmds \ {"barrier"}
    BY DEF PlainCmds
  <2> QED  BY <2>1
<1> QED  BY <1>1, <1>2 DEF Barriers, Publications, Gets

\* A rank without a call in its main thread has nothing outstanding.
LEMMA NothingOut ==
    ASSUME Fence, ~world.lazy, NEW r \in Ranks, r \notin mixed, phase[r] \in {"new", "ready"},
           ~OnWire(r, "main") \/ call[r]["main"].op \notin Barriers
    PROVE  ~InReq(r) /\ ~InPm(r)
BY DEF Fence, Fenced, Held

\* Entering a function.
LEMMA EntryKeepsFence ==
    ASSUME Wire, Types', Fence, ~world.lazy, NEW r \in Ranks, NEW t, NEW op, NEW todo, NEW key,
           NEW val, NEW first, NEW conn, Entry(r, t, op, todo, key, val, first, conn),
           r \notin mixed
    PROVE  Fence'
<1> DEFINE c == [Idle EXCEPT !.op = op, !.todo = todo, !.key = key, !.val = val,
                             !.at = IF todo = <<>> THEN "done" ELSE first,
                             !.due = DueFor(r, key)]
<1>1. /\ Types /\ Local(r) /\ Fenced(r) /\ entered[r] \in Nat /\ left[r] \in Nat
      /\ t \in Threads /\ todo \in Seq(Cmds) /\ first \in {"lock", "write"}
      /\ Alive(r) /\ ~InCall(r, t)
      /\ call' = [call EXCEPT ![r][t] = c]
      /\ fd' = [fd EXCEPT ![r] = conn]
      /\ entered' = [entered EXCEPT ![r] = IF op \in Barriers THEN @ + 1 ELSE @]
      /\ UNCHANGED <<world, inited, phase, mutex, stream, mixed, left, pub, pm, req, ans>>
      /\ Exchanges(r, t, op, todo, key)
      /\ \/ phase[r] = "new" /\ t = "main" /\ op = InitOp /\ conn \in {"none", "open"}
         \/ phase[r] = "ready" /\ conn = fd[r] /\ op # InitOp
  BY CountTypes DEF Wire, Entry, Enter, managerVars, Fence
<1>2. /\ c.op = op /\ c.todo = todo /\ c.res = "ok" /\ c.at = IF todo = <<>> THEN "done" ELSE first
  BY DEF Idle
<1> HIDE DEF c
<1>3. /\ call \in [Ranks -> [Threads -> CallRec]] /\ fd \in [Ranks -> {"none", "open", "closed"}]
      /\ entered \in [Ranks -> 0 .. MaxBarriers]
  BY <1>1 DEF Types, TypeOK
<1>4. /\ call'[r][t] = c /\ \A u \in Threads \ {t} : call'[r][u] = call[r][u]
      /\ \A q \in Ranks \ {r} : call'[q] = call[q]
      /\ fd'[r] = conn /\ \A q \in Ranks \ {r} : fd'[q] = fd[q]
      /\ entered'[r] = IF op \in Barriers THEN entered[r] + 1 ELSE entered[r]
      /\ \A q \in Ranks \ {r} : entered'[q] = entered[q]
  BY <1>1, <1>3
<1>5. \A q \in Ranks \ {r} : Same(q) /\ inited'[q] = inited[q]
  BY <1>1, <1>4 DEF Same
<1>6. BarrierTodo(c)
  BY <1>1, <1>2, BarrierTodos DEF Exchanges, BarrierTodo
<1>7. \A u \in Threads : BarrierTodo(call[r][u])'
  BY <1>1, <1>4, <1>6 DEF Fenced, BarrierTodo
<1>8. (InReq(r)' <=> InReq(r)) /\ (InPm(r)' <=> InPm(r))
  BY <1>1 DEF InReq, InPm
<1>9. op \in Barriers => t = "main" /\ phase[r] = "ready"
  BY <1>1, BarrierTodos DEF Exchanges, InitOp
<1>10. Stage(r)'
  <2>1. call'[r]["main"].res = "ok" \/ call'[r]["main"] = call[r]["main"]
    BY <1>1, <1>2, <1>4
  <2>2. phase[r] = "ready" => fd'[r] = fd[r]
    BY <1>1, <1>4
  <2>3. phase[r] = "new" => call'[r]["main"] = c
    BY <1>1, <1>4
  <2>4. (world.api = "pmi1" /\ pm.up /\ fd[r] = "open" =>
           /\ phase[r] = "ready" => inited[r] = "pm"
           /\ call[r]["main"].res # "unready")'
    BY <1>1, <1>2, <2>1, <2>2, <2>3 DEF Fenced, Stage
  <2> QED  BY <1>1, <1>2, <1>4, <1>9, <2>4 DEF Fenced, Stage, Alive, InCall, InitOp
<1>11. t = "main" => ~InReq(r) /\ ~InPm(r) /\ ~Before(r) /\ ~Answered(r)
  <2>1. t = "main" => ~OnWire(r, "main") /\ ~Before(r) /\ ~Answered(r)
    BY <1>1 DEF InCall, OnWire, Before, Answered
  <2> QED  BY <1>1, <2>1, NothingOut
<1>12. t # "main" => /\ Before(r)' <=> Before(r)
                     /\ Answered(r)' <=> Answered(r)
                     /\ OnWire(r, "main")' <=> OnWire(r, "main")
                     /\ call'[r]["main"] = call[r]["main"]
  BY <1>1, <1>4, Distinct DEF Before, Answered, OnWire
<1>13. t = "main" => /\ Before(r)' <=> op \in Barriers /\ todo # <<>>
                     /\ Answered(r)' <=> op \in Barriers /\ todo = <<>>
  BY <1>1, <1>2, <1>4 DEF Before, Answered, OnWire
<1>14. Once(r)'
  BY <1>1, <1>8, <1>11, <1>12 DEF Fenced, Once
<1>15. Held(r)'
  BY <1>1, <1>8, <1>11, <1>12 DEF Fenced, Held
<1>16. Slack(r)' >= Slack(r)
  BY <1>1, <1>4, <1>8, <1>9, <1>11, <1>12, <1>13 DEF Slack, Out
<1>17. Good(r)' => \/ Good(r) /\ Completed(r)' <= Completed(r)
                   \/ Completed(r)' = 0
  <2>1. CASE phase[r] = "new"
    <3>1. entered[r] = 0 /\ left[r] = 0 /\ op \notin Barriers
      BY <1>1, <1>9, <2>1 DEF Fenced, Stage, Local, Counts
    <3>2. ~Answered(r)'
      BY <1>1, <1>13, <2>1, <3>1
    <3> QED  BY <1>1, <3>1, <3>2 DEF Completed
  <2>2. CASE phase[r] = "ready"
    <3>1. Good(r)' => Good(r)
      BY <1>1, <1>4, <2>2 DEF Good
    <3>2. Good(r)' /\ t = "main" => ~Answered(r)'
      <4>1. op \in Barriers /\ todo = <<>> => world.api = "pmi1" /\ inited[r] # "pm"
        BY <1>1, BarrierTodos DEF Exchanges
      <4>2. world.api = "pmi1" /\ pm.up /\ fd[r] = "open" => inited[r] = "pm"
        BY <1>1, <2>2 DEF Fenced, Stage
      <4> QED  BY <1>13, <3>1, <4>1, <4>2 DEF Good
    <3> QED  BY <1>1, <1>12, <3>1, <3>2 DEF Completed
  <2> QED  BY <1>1, <2>1, <2>2
<1>18. Slack(r) \in Int /\ Slack(r) >= 0 /\ Slack(r)' \in Int /\ Completed(r) \in Nat
       /\ Completed(r)' \in Nat
  <2>1. entered'[r] \in Nat /\ left'[r] \in Nat
    BY <1>1, <1>4
  <2> QED  BY <1>1, <2>1 DEF Slack, Completed, Fenced
<1>19. Keeps(r, 0)
  BY <1>7, <1>10, <1>14, <1>15, <1>16, <1>17, <1>18 DEF Keeps, Fenced
<1> QED  BY <1>1, <1>5, <1>19, FenceElsewhere

-----------------------------------------------------------------------------
\* A barrier's call has its answer, and so has nothing outstanding.
LEMMA AnsweredIsAll ==
    ASSUME Wire, Fence, ~world.lazy, NEW r \in Ranks, r \notin mixed,
           phase[r] \in {"new", "ready"}, ans[r] # <<>> \/ Eof(r)
    PROVE  ~InReq(r) /\ ~InPm(r)
<1>1. /\ Local(r) /\ Alive(r) /\ Fenced(r) /\ ~pm.lazy
  BY DEF Wire, Alive, Fence
<1>2. fd[r] # "closed"
  BY <1>1 DEF Fenced, Stage
<1>3. req[r] = <<>> /\ pm.in[r] = None
  <2>1. CASE ans[r] # <<>>
    <3>1. Pending(r)
      BY <1>1, <1>2, <2>1 DEF Local, Exchange
    <3>2. req[r] = <<>> /\ ~Unanswered(r)
      BY <2>1, <3>1 DEF Pending
    <3> QED  BY <1>1, <3>2 DEF Unanswered
  <2>2. CASE fd[r] = "none" \/ ~pm.up
    BY <1>1, <2>2 DEF Local, Socket, Quiet, Unanswered
  <2>3. fd[r] \in {"none", "open", "closed"}
    BY DEF Wire, Types, TypeOK
  <2> QED  BY <1>2, <2>1, <2>2, <2>3 DEF Eof
<1> QED  BY <1>3 DEF InReq, InPm

\* Rank r sends request m.
Sends(r, m) == req'[r] = Append(req[r], m)

\* What a step inside a barrier's call does with it: it takes the lock, it
\* writes the request, it fails to, it reads a part of the answer, or it meets the
\* end of the stream or garbage.
BarrierStep(r, c) ==
    LET b == call[r]["main"]
    IN  \/ /\ b.at \in {"lock", "write"} /\ c.at \in {"lock", "write"}
           /\ req'[r] = req[r] /\ ans'[r] = ans[r]
        \/ /\ b.at = "write" /\ c.at = "read" /\ ans'[r] = ans[r]
           /\ \/ \E m \in Requests : Sends(r, m)
              \/ req'[r] = req[r] /\ ~pm.up
        \/ /\ b.at = "write" /\ c.at = "done" /\ SendFails(r)
           /\ req'[r] = req[r] /\ ans'[r] = ans[r]
        \/ /\ b.at \in {"read", "body"} /\ ans[r] # <<>> /\ req'[r] = req[r]
           /\ \/ c.at = "body" /\ ans'[r] = ans[r]
              \/ c.at = "done"
        \/ /\ b.at \in {"read", "body"} /\ c.at = "done" /\ (Eof(r) \/ r \in mixed)
           /\ req'[r] = req[r] /\ ans'[r] = ans[r]

\* What a step inside another call does with the barrier that the main thread may
\* be in.
OtherStep(r) ==
    /\ req'[r] = req[r] \/ \E m \in Requests : m.cmd # "barrier" /\ Sends(r, m)
    /\ ans'[r] # <<>> => ans[r] # <<>>

\* A request was appended.
LEMMA AppendedReq ==
    ASSUME Types, NEW r \in Ranks, NEW m \in Requests, Sends(r, m)
    PROVE  /\ InReq(r)' <=> InReq(r) \/ m.cmd = "barrier"
           /\ req'[r] # <<>> /\ req'[r] # req[r]
           /\ (\A i, j \in 1 .. Len(req[r]) :
                  req[r][i].cmd = "barrier" /\ req[r][j].cmd = "barrier" => i = j)
              /\ ~(InReq(r) /\ m.cmd = "barrier")
              => \A i, j \in 1 .. Len(req'[r]) :
                    req'[r][i].cmd = "barrier" /\ req'[r][j].cmd = "barrier" => i = j
<1> DEFINE s == req[r]
           u == Append(s, m)
           n == Len(s)
<1>1. s \in Seq(Requests)
  BY DEF Types
<1>2. /\ u \in Seq(Requests) /\ u # <<>> /\ Len(u) = n + 1 /\ n \in Nat
      /\ \A i \in 1 .. n : u[i] = s[i]
      /\ u[n + 1] = m
  BY <1>1, AppendProperties
<1>3. /\ InReq(r)' <=> \E i \in 1 .. Len(u) : u[i].cmd = "barrier"
      /\ InReq(r) <=> \E i \in 1 .. n : s[i].cmd = "barrier"
      /\ req'[r] = u /\ req[r] = s /\ Len(req[r]) = n
  BY DEF InReq, Sends
<1> HIDE DEF u, s, n
<1>4. \A i : i \in 1 .. n + 1 <=> i \in 1 .. n \/ i = n + 1
  BY <1>2
<1>5. InReq(r)' <=> InReq(r) \/ m.cmd = "barrier"
  BY <1>2, <1>3, <1>4
<1>6. (\A i, j \in 1 .. n : s[i].cmd = "barrier" /\ s[j].cmd = "barrier" => i = j)
      /\ ~(InReq(r) /\ m.cmd = "barrier")
      => \A i, j \in 1 .. n + 1 : u[i].cmd = "barrier" /\ u[j].cmd = "barrier" => i = j
  BY <1>2, <1>3, <1>4
<1>7. u # s
  BY <1>2 DEF n
<1> QED  BY <1>2, <1>3, <1>5, <1>6, <1>7

\* Call b of rank r becomes c: a handshake fails only when its manager is gone.
Heard(r, b, c) == c.res = "unready" => b.res = "unready" \/ ~pm.up \/ fd[r] # "open"

\* A step of a call in progress.
LEMMA StepKeepsFence ==
    ASSUME Wire, Wire', Fence, ~world.lazy, NEW r \in Ranks, NEW t \in Threads,
           NEW c \in CallRec, Busy(c), call' = [call EXCEPT ![r][t] = c],
           c.op = call[r][t].op, c.at # "idle", Alive(r), InCall(r, t), BarrierTodo(c),
           UNCHANGED <<world, fd, inited, phase, entered, left, pub, pm>>,
           mixed \subseteq mixed', \A q \in Ranks \ {r} : q \in mixed' <=> q \in mixed,
           \A q \in Ranks \ {r} : /\ req'[q] = req[q] /\ ans'[q] = ans[q]
                                  /\ mutex'[q] = mutex[q] /\ stream'[q] = stream[q],
           IF c.op \in Barriers THEN BarrierStep(r, c) ELSE OtherStep(r),
           Heard(r, call[r][t], c)
    PROVE  Fence'
<1>1. /\ Types /\ Local(r) /\ Fenced(r) /\ entered[r] \in Nat /\ left[r] \in Nat
  BY CountTypes DEF Wire, Fence
<1>2. /\ call'[r][t] = c
      /\ \A u \in Threads \ {t} : call'[r][u] = call[r][u]
      /\ \A q \in Ranks \ {r} : call'[q] = call[q]
  BY <1>1, CallSet, ZenonT(40)
<1>3. \A q \in Ranks \ {r} : Same(q) /\ inited'[q] = inited[q]
  BY <1>2 DEF Same
<1>4. \A u \in Threads : BarrierTodo(call[r][u])'
  BY <1>1, <1>2 DEF Fenced, BarrierTodo
<1>5. c.op \in Barriers => t = "main"
  BY <1>1 DEF Local, Counts, InCall
<1>6. Stage(r)'
  BY <1>1, <1>2 DEF Fenced, Stage, Alive, InCall, InitOp, Heard
<1>7. InPm(r)' <=> InPm(r)
  BY DEF InPm
<1>8. Good(r)' => Good(r)
  BY DEF Good
<1>9. Slack(r) \in Int /\ Slack(r) >= 0 /\ Completed(r) \in Nat
  BY <1>1, CountTypes DEF Fenced
<1>10. ASSUME Once(r)', Held(r)', Out(r)' => Out(r), Good(r)' => (Answered(r)' => Answered(r))
       PROVE  Keeps(r, 0)
  <2>1. Slack(r)' >= Slack(r) /\ Slack(r)' \in Int
    BY <1>1, <1>10 DEF Slack
  <2>2. Good(r)' => Completed(r)' <= Completed(r)
    BY <1>1, <1>10 DEF Completed
  <2> QED  BY <1>4, <1>6, <1>8, <1>9, <1>10, <2>1, <2>2 DEF Keeps, Fenced
<1>11. ASSUME c.op \notin Barriers  PROVE Keeps(r, 0)
  <2>1. OtherStep(r)
    BY <1>11
  <2>2. /\ Before(r)' <=> Before(r)
        /\ Answered(r)' => Answered(r)
        /\ OnWire(r, "main") /\ call[r]["main"].op \in Barriers =>
              (OnWire(r, "main") /\ call[r]["main"].op \in Barriers)'
    <3>1. CASE t = "main"
      BY <1>2, <1>11, <3>1 DEF Before, Answered
    <3>2. CASE t # "main"
      BY <1>2, <2>1, <3>2, Distinct DEF Before, Answered, OnWire, OtherStep
    <3> QED  BY <3>1, <3>2
  <2>3. /\ InReq(r)' <=> InReq(r)
        /\ \A i, j \in 1 .. Len(req'[r]) :
              req'[r][i].cmd = "barrier" /\ req'[r][j].cmd = "barrier" => i = j
    <3>1. CASE req'[r] = req[r]
      BY <1>1, <3>1 DEF InReq, Fenced, Once
    <3>2. ASSUME NEW m \in Requests, m.cmd # "barrier", Sends(r, m)
          PROVE  /\ InReq(r)' <=> InReq(r)
                 /\ \A i, j \in 1 .. Len(req'[r]) :
                       req'[r][i].cmd = "barrier" /\ req'[r][j].cmd = "barrier" => i = j
      BY <1>1, <3>2, AppendedReq DEF Fenced, Once
    <3> QED  BY <2>1, <3>1, <3>2 DEF OtherStep
  <2>4. Once(r)'
    BY <1>1, <1>7, <2>2, <2>3 DEF Fenced, Once
  <2>5. Held(r)'
    BY <1>1, <1>7, <2>2, <2>3 DEF Fenced, Held
  <2>6. Out(r)' => Out(r)
    BY <1>7, <2>2, <2>3 DEF Out
  <2> QED  BY <1>10, <2>2, <2>4, <2>5, <2>6
<1>12. ASSUME c.op \in Barriers, req'[r] = req[r]  PROVE Keeps(r, 0)
  <2>1. t = "main" /\ BarrierStep(r, c)
    BY <1>5, <1>12
  <2>2. /\ InReq(r)' <=> InReq(r)
        /\ Before(r)' <=> c.at \in {"lock", "write"}
        /\ Before(r) <=> call[r]["main"].at \in {"lock", "write"}
        /\ OnWire(r, "main")' <=> c.at \in {"read", "body"}
    BY <1>2, <1>12, <2>1 DEF InReq, Before, OnWire
  <2>3. Once(r)' /\ (Out(r)' => Out(r))
    BY <1>1, <1>7, <1>12, <2>1, <2>2 DEF Fenced, Once, Out, BarrierStep
  <2>4. Held(r)'
    <3>1. ASSUME r \notin mixed', phase'[r] \in {"new", "ready"}, InReq(r)' \/ InPm(r)'
          PROVE  OnWire(r, "main")'
      <4>1. r \notin mixed /\ OnWire(r, "main") /\ phase[r] \in {"new", "ready"}
            /\ (InReq(r) \/ InPm(r))
        BY <1>1, <1>7, <2>2, <3>1 DEF Fenced, Held
      <4>2. ~(ans[r] # <<>> \/ Eof(r))
        BY <4>1, AnsweredIsAll
      <4>3. c.at \in {"read", "body"}
        BY <2>1, <4>1, <4>2 DEF BarrierStep, OnWire
      <4> QED  BY <2>2, <4>3
    <3>2. call'[r]["main"].op \in Barriers
      BY <1>2, <1>12, <2>1
    <3> QED  BY <3>1, <3>2 DEF Held
  <2>5. Good(r)' => (Answered(r)' => Answered(r))
    <3>1. CASE call[r]["main"].at \in {"read", "body"} /\ ans[r] # <<>>
      BY <1>12, <2>1, <3>1 DEF Answered, OnWire
    <3>2. CASE ~(call[r]["main"].at \in {"read", "body"} /\ ans[r] # <<>>)
      <4>1. Good(r)' => ~(SendFails(r) \/ Eof(r) \/ r \in mixed)
        BY <1>8, <3>2 DEF Good, SendFails, Eof
      <4>2. Good(r)' => c.at \in {"lock", "write", "read"} /\ (c.at = "read" => ~pm.up)
        BY <1>1, <1>12, <2>1, <3>2, <4>1, AppendedReq DEF BarrierStep
      <4>3. Good(r)' => c.at \in {"lock", "write"}
        BY <1>8, <4>2 DEF Good
      <4> QED  BY <1>2, <2>1, <2>2, <4>3 DEF Answered
    <3> QED  BY <3>1, <3>2
  <2> QED  BY <1>10, <2>3, <2>4, <2>5
<1>13. ASSUME c.op \in Barriers, NEW m \in Requests, Sends(r, m)
       PROVE  Keeps(r, 0)
  <2>1. t = "main" /\ BarrierStep(r, c)
    BY <1>5, <1>13
  <2>2. req'[r] # req[r]
    BY <1>1, <1>13, AppendedReq
  <2>3. call[r]["main"].at = "write" /\ c.at = "read" /\ ans'[r] = ans[r]
    BY <2>1, <2>2 DEF BarrierStep
  <2>4. Before(r) /\ ~InReq(r) /\ ~InPm(r) /\ ~Before(r)' /\ ~InPm(r)'
    BY <1>1, <1>2, <1>7, <1>13, <2>1, <2>3 DEF Before, Fenced, Once
  <2>5. /\ \A i, j \in 1 .. Len(req'[r]) :
              req'[r][i].cmd = "barrier" /\ req'[r][j].cmd = "barrier" => i = j
        /\ req'[r] # <<>>
    BY <1>1, <1>13, <2>4, AppendedReq DEF Fenced, Once
  <2>6. Once(r)' /\ (Out(r)' => Out(r))
    BY <2>4, <2>5 DEF Once, Out
  <2>7. Held(r)'
    BY <1>2, <1>13, <2>1, <2>3 DEF Held, OnWire
  <2>8. Good(r)' => ~Answered(r)'
    <3>1. ASSUME Good(r)'  PROVE ans'[r] = <<>>
      <4>1. Local(r)' /\ Alive(r)' /\ r \notin mixed' /\ fd'[r] # "closed"
        BY <3>1 DEF Wire, Good, Alive
      <4>2. Exchange(r)'
        BY <4>1 DEF Local
      <4> QED  BY <2>5, <4>1, <4>2 DEF Exchange, Pending
    <3> QED  BY <1>2, <2>1, <2>3, <3>1 DEF Answered
  <2> QED  BY <1>10, <2>6, <2>7, <2>8
<1>14. Keeps(r, 0)
  <2>1. c.op \in Barriers => \/ req'[r] = req[r]
                             \/ \E m \in Requests : Sends(r, m)
    BY DEF BarrierStep
  <2> QED  BY <1>11, <1>12, <1>13, <2>1
<1>15. Types' /\ pm'.up = pm.up /\ pm'.lazy = pm.lazy
  BY DEF Wire
<1> QED  BY <1>1, <1>3, <1>14, <1>15, FenceElsewhere

-----------------------------------------------------------------------------
\* The commands of a call in an exchange.
LEMMA BarrierHead ==
    ASSUME NEW c \in CallRec, Busy(c), c.at \in {"lock", "write", "read", "body"}, BarrierTodo(c)
    PROVE  /\ c.op \in Barriers => Head(c.todo) = "barrier" /\ Tail(c.todo) = <<>>
           /\ c.op \notin Barriers => /\ Head(c.todo) \in Cmds \ {"barrier"}
                                      /\ Tail(c.todo) \in Seq(Cmds \ {"barrier"})
<1>1. c.todo # <<>>
  BY DEF Busy
<1>2. ASSUME c.op \in Barriers  PROVE Head(c.todo) = "barrier" /\ Tail(c.todo) = <<>>
  <2>1. c.todo = <<"barrier">>
    BY <1>1, <1>2 DEF BarrierTodo
  <2>2. c.todo \in Seq({"barrier"}) /\ Len(c.todo) = 1 /\ c.todo # <<>>
    BY <2>1
  <2> QED  BY <2>1, <2>2, TailOfOne
<1>3. ASSUME c.op \notin Barriers
      PROVE  Head(c.todo) \in Cmds \ {"barrier"} /\ Tail(c.todo) \in Seq(Cmds \ {"barrier"})
  <2>1. c.todo \in Seq(Cmds \ {"barrier"})
    BY <1>3 DEF BarrierTodo
  <2> QED  BY <1>1, <2>1, HeadTailProperties
<1> QED  BY <1>2, <1>3

\* The commands left after an exchange.
LEMMA BarrierRest ==
    ASSUME NEW c \in CallRec, Busy(c), c.at \in {"lock", "write", "read", "body"}, BarrierTodo(c),
           NEW o
    PROVE  LET rests == {Tail(c.todo), <<>>, After(c, o), AfterWrite(c), AfterAnswer(c, o)}
           IN  /\ c.op \in Barriers => \A s \in rests : s = <<>>
               /\ c.op \notin Barriers => \A s \in rests : s \in Seq(Cmds \ {"barrier"})
<1>1. <<>> \in Seq(Cmds \ {"barrier"}) /\ <<"abort">> \in Seq(Cmds \ {"barrier"})
  <2>1. "abort" \in Cmds \ {"barrier"}
    BY DEF Cmds
  <2> QED  BY <2>1
<1>2. CASE c.op \in Barriers
  <2>1. Head(c.todo) = "barrier" /\ Tail(c.todo) = <<>>
    BY <1>2, BarrierHead
  <2> QED  BY <1>2, <2>1 DEF After, AfterWrite, AfterAnswer, Handshake, Unasked
<1>3. CASE c.op \notin Barriers
  <2>1. Tail(c.todo) \in Seq(Cmds \ {"barrier"})
    BY <1>3, BarrierHead
  <2>2. <<"abort">> \o Tail(c.todo) \in Seq(Cmds \ {"barrier"})
    BY <1>1, <2>1, ConcatProperties
  <2>3. c.todo \in Seq(Cmds \ {"barrier"})
    BY <1>3 DEF BarrierTodo
  <2>4. SubSeq(c.todo, 3, Len(c.todo)) \in Seq(Cmds \ {"barrier"})
    BY <2>3
  <2>5. /\ After(c, o) \in Seq(Cmds \ {"barrier"})
        /\ AfterWrite(c) \in Seq(Cmds \ {"barrier"})
        /\ AfterAnswer(c, o) \in Seq(Cmds \ {"barrier"})
    BY <1>1, <2>1, <2>2, <2>4 DEF After, AfterWrite, AfterAnswer
  <2> QED  BY <1>1, <1>3, <2>1, <2>5
<1> QED  BY <1>2, <1>3

\* A request carries the command in progress.
LEMMA RequestType ==
    ASSUME NEW c \in CallRec, c.todo # <<>>, NEW t \in Threads
    PROVE  Request(t, c) \in Requests /\ Request(t, c).cmd = Head(c.todo)
<1>1. c.todo \in Seq(Cmds) /\ c.key \in Keys /\ c.val \in Nat
  BY DEF CallRec
<1>2. Head(c.todo) \in Cmds
  BY <1>1
<1> QED  BY <1>1, <1>2 DEF Request, Requests

\* What a write does to the sequence of requests.
LEMMA SentEffect ==
    ASSUME Types, NEW r \in Ranks, NEW t \in Threads, call[r][t].todo # <<>>, Sent(r, t)
    PROVE  /\ \A q \in Ranks \ {r} : req'[q] = req[q]
           /\ \/ pm.up /\ \E m \in Requests : m.cmd = Head(call[r][t].todo) /\ Sends(r, m)
              \/ ~pm.up /\ req' = req
<1>1. call[r][t] \in CallRec /\ req \in [Ranks -> Seq(Requests)]
  BY DEF Types
<1>2. PICK m \in Requests : m = Request(t, call[r][t]) /\ m.cmd = Head(call[r][t].todo)
  BY <1>1, RequestType
<1>a. fd[r] = "open"
  BY DEF Types, Sent
<1>3. CASE pm.up
  <2>1. req' = [req EXCEPT ![r] = Append(req[r], m)]
    BY <1>2, <1>3, <1>a DEF Sent
  <2>2. req'[r] = Append(req[r], m) /\ \A q \in Ranks \ {r} : req'[q] = req[q]
    BY <1>1, <2>1
  <2> QED  BY <1>2, <1>3, <2>2 DEF Sends
<1>4. CASE ~pm.up
  BY <1>4 DEF Sent
<1> QED  BY <1>3, <1>4

\* pthread_mutex_lock
LEMMA LockKeepsFence ==
    ASSUME Wire, Wire', Fence, ~world.lazy, NEW r \in Ranks, NEW t \in Threads,
           pthread_mutex_lock(r, t)
    PROVE  Fence'
<1> DEFINE b == call[r][t]
           c == [b EXCEPT !.at = "write"]
<1>1. /\ Alive(r) /\ b.at = "lock"
      /\ mutex' = [mutex EXCEPT ![r] = t]
      /\ call' = [call EXCEPT ![r][t] = c]
      /\ UNCHANGED <<world, fd, inited, phase, stream, mixed, entered, left, pub, pm, req, ans>>
  BY DEF pthread_mutex_lock, history, managerVars
<1>2. Types /\ b \in CallRec /\ Busy(b) /\ BarrierTodo(b) /\ mutex \in [Ranks -> Threads \cup {None}]
  BY CallType DEF Wire, Fence, Fenced, Types, TypeOK
<1>3. /\ c \in CallRec /\ Busy(c) /\ c.at = "write" /\ c.op = b.op /\ BarrierTodo(c)
      /\ Heard(r, b, c)
  BY <1>1, <1>2 DEF CallRec, Busy, BarrierTodo, Heard
<1> HIDE DEF c
<1>4. c.op \in Barriers => t = "main"
  BY <1>1, <1>3 DEF Wire, Local, Counts, InCall
<1>5. IF c.op \in Barriers THEN BarrierStep(r, c) ELSE OtherStep(r)
  BY <1>1, <1>3, <1>4 DEF BarrierStep, OtherStep
<1>6. \A q \in Ranks \ {r} : mutex'[q] = mutex[q]
  BY <1>1, <1>2
<1> QED  BY <1>1, <1>3, <1>5, <1>6, StepKeepsFence DEF InCall

\* A write, whoever does it: the request is sent, it is a line that is never
\* written, or there is nobody to send it to.
LEMMA SendKeepsFence ==
    ASSUME Wire, Wire', Fence, ~world.lazy, NEW r \in Ranks, NEW t \in Threads,
           NEW c \in CallRec, Busy(c), call' = [call EXCEPT ![r][t] = c],
           c.op = call[r][t].op, Alive(r), call[r][t].at = "write", BarrierTodo(c),
           UNCHANGED <<world, fd, inited, phase, mutex, stream, entered, left, pub, pm, ans>>,
           mixed \subseteq mixed', \A q \in Ranks \ {r} : q \in mixed' <=> q \in mixed,
           \/ Sent(r, t) /\ c.at = "read"
           \/ Sent(r, t) /\ c.op \notin Barriers /\ c.at # "idle"
           \/ UNCHANGED req /\ c.op \notin Barriers /\ c.at # "idle"
           \/ UNCHANGED req /\ SendFails(r) /\ c.at = "done",
           Heard(r, call[r][t], c)
    PROVE  Fence'
<1>1. /\ Types /\ call[r][t] \in CallRec /\ Busy(call[r][t]) /\ BarrierTodo(call[r][t])
      /\ call[r][t].todo # <<>>
  BY CallType DEF Wire, Fence, Fenced, Busy
<1>2. c.op \in Barriers => t = "main"
  BY DEF Wire, Local, Counts, InCall
<1>3. c.op \notin Barriers => Head(call[r][t].todo) # "barrier"
  BY <1>1, BarrierHead
<1>4. \A q \in Ranks \ {r} : req'[q] = req[q]
  BY <1>1, SentEffect
<1>5. IF c.op \in Barriers THEN BarrierStep(r, c) ELSE OtherStep(r)
  <2>1. CASE c.op \in Barriers
    BY <1>1, <1>2, <2>1, SentEffect DEF BarrierStep
  <2>2. CASE c.op \notin Barriers
    BY <1>1, <1>3, <2>2, SentEffect DEF OtherStep
  <2> QED  BY <2>1, <2>2
<1> QED  BY <1>4, <1>5, StepKeepsFence DEF InCall

\* PMIU_writeline
LEMMA WritelineKeepsFence ==
    ASSUME Wire, Wire', Fence, ~world.lazy, NEW r \in Ranks, PMIU_writeline(r)
    PROVE  Fence'
<1> DEFINE b == call[r]["main"]
           rest == AfterWrite(b)
           o == Noticed(b, "lost")
           sent == [b EXCEPT !.at = "read"]
           lost == Over(b, o, rest)
<1>1. /\ Alive(r) /\ b.at = "write" /\ "main" \in Threads
      /\ UNCHANGED <<world, fd, inited, phase, mutex, stream, mixed, entered, left, pub, pm, ans>>
      /\ \/ /\ IF Unwritten(b) THEN UNCHANGED req ELSE Sent(r, "main")
            /\ call' = [call EXCEPT ![r]["main"] = sent]
         \/ /\ ~Unwritten(b) /\ SendFails(r)
            /\ call' = [call EXCEPT ![r]["main"] = lost]
            /\ UNCHANGED req
  BY Distinct DEF PMIU_writeline, history
<1>2. Types /\ b \in CallRec /\ Busy(b) /\ BarrierTodo(b) /\ b.todo # <<>>
  BY <1>1, CallType DEF Wire, Fence, Fenced, Busy
<1>3. /\ sent \in CallRec /\ Busy(sent) /\ sent.at = "read" /\ sent.op = b.op /\ BarrierTodo(sent)
      /\ Heard(r, b, sent)
  BY <1>1, <1>2 DEF CallRec, Busy, BarrierTodo, Heard
<1>4. /\ lost \in CallRec /\ Busy(lost) /\ lost.op = b.op /\ BarrierTodo(lost)
      /\ lost.at \in {"write", "done"} /\ (lost.op \in Barriers => lost.at = "done")
  <2>1. rest \in Seq(Cmds) /\ o \in Outcomes
    <3>1. "lost" \in Outcomes
      BY DEF Outcomes
    <3> QED  BY <1>2, <3>1, GoesOn
  <2>2. /\ b.op \in Barriers => rest = <<>>
        /\ b.op \notin Barriers => rest \in Seq(Cmds \ {"barrier"})
    BY <1>1, <1>2, BarrierRest
  <2> HIDE DEF rest, o
  <2> QED  BY <1>2, <2>1, <2>2, OverType DEF BarrierTodo
<1>5. Unwritten(b) => b.op \notin Barriers
  BY <1>1, <1>2, BarrierHead DEF Unwritten
<1>h. SendFails(r) => Heard(r, b, lost)
  BY DEF SendFails, Heard
<1> HIDE DEF sent, lost
<1>6. CASE /\ IF Unwritten(b) THEN UNCHANGED req ELSE Sent(r, "main")
           /\ call' = [call EXCEPT ![r]["main"] = sent]
  BY <1>1, <1>3, <1>5, <1>6, SendKeepsFence
<1>7. CASE /\ ~Unwritten(b) /\ SendFails(r)
           /\ call' = [call EXCEPT ![r]["main"] = lost]
           /\ UNCHANGED req
  BY <1>1, <1>4, <1>h, <1>7, SendKeepsFence
<1> QED  BY <1>1, <1>6, <1>7

\* PMI_Spawn_multiple gives up between two pieces of its command.
LEMMA SpawnKeepsFence ==
    ASSUME Wire, Wire', Fence, ~world.lazy, NEW r \in Ranks, SpawnGivesUp(r)
    PROVE  Fence'
<1> DEFINE b == call[r]["main"]
           none == <<>>
           c == Over(b, "ok", none)
<1>1. /\ Alive(r) /\ b.at = "write" /\ Head(b.todo) = "spawn-part" /\ "main" \in Threads
      /\ Sent(r, "main") \/ UNCHANGED req
      /\ call' = [call EXCEPT ![r]["main"] = c]
      /\ fd' = [fd EXCEPT ![r] = IF @ = "own" THEN "stuck" ELSE @]
      /\ UNCHANGED <<world, inited, phase, mutex, stream, mixed, entered, left, pub, pm, ans>>
  BY Distinct DEF SpawnGivesUp, history
<1>f. UNCHANGED fd
  <2>1. fd \in [Ranks -> {"none", "open", "closed"}]
    BY DEF Wire, Types
  <2> QED  BY <1>1, <2>1
<1>2. Types /\ b \in CallRec /\ Busy(b) /\ BarrierTodo(b)
  BY <1>1, CallType DEF Wire, Fence, Fenced
<1>3. b.op \notin Barriers
  BY <1>1, <1>2, BarrierHead
<1>4. c \in CallRec /\ Busy(c) /\ c.op = b.op /\ c.at = "done" /\ c.todo = <<>>
      /\ Heard(r, b, c)
  <2>1. none \in Seq(Cmds) /\ "ok" \in Outcomes
    BY CmdSeqs DEF Outcomes
  <2>2. none = <<>>
    OBVIOUS
  <2> HIDE DEF none
  <2>3. /\ c \in CallRec /\ Busy(c) /\ c.op = b.op /\ c.todo = none
        /\ c.at = "done" <=> none = <<>>
        /\ c.res = IF b.res = "ok" THEN "ok" ELSE b.res
    BY <1>2, <2>1, OverType
  <2> HIDE DEF c
  <2> QED  BY <2>2, <2>3 DEF Heard
<1>5. BarrierTodo(c)
  BY <1>3, <1>4, BarrierTodos DEF BarrierTodo
<1> HIDE DEF c
<1> QED  BY <1>1, <1>f, <1>3, <1>4, <1>5, SendKeepsFence

\* The process ends in the middle of its calls.
LEMMA EndKeepsFence ==
    ASSUME Wire, Wire', Fence, ~world.lazy, NEW r \in Ranks, \A u \in Threads : call'[r][u] = Idle,
           phase'[r] = "killed", mixed \subseteq mixed',
           \/ req'[r] \in {req[r], <<>>}
           \/ \E m \in Requests : m.cmd # "barrier" /\ Sends(r, m),
           UNCHANGED <<world, entered, left, pm>>, fd'[r] = fd[r], ans'[r] = ans[r]
    PROVE  Keeps(r, 0)
<1>1. /\ Types /\ Fenced(r) /\ Slack(r) \in Int /\ Slack(r) >= 0 /\ Completed(r) \in Nat
      /\ entered[r] \in Nat /\ left[r] \in Nat
  BY CountTypes DEF Wire, Fence, Fenced
<1>2. \A u \in Threads : call'[r][u].at = "idle" /\ call'[r][u].todo = <<>> /\ call'[r][u].res = "ok"
  BY DEF Idle
<1>3. ~Before(r)' /\ ~Answered(r)' /\ (Good(r)' => Good(r)) /\ (InPm(r)' <=> InPm(r))
  BY <1>2, Distinct DEF Before, Answered, OnWire, Good, InPm
<1>4. /\ InReq(r)' => InReq(r)
      /\ \A i, j \in 1 .. Len(req'[r]) :
            req'[r][i].cmd = "barrier" /\ req'[r][j].cmd = "barrier" => i = j
  <2>1. CASE req'[r] = req[r]
    BY <1>1, <2>1 DEF InReq, Fenced, Once
  <2>2. CASE req'[r] = <<>>
    BY <2>2 DEF InReq
  <2>3. ASSUME NEW m \in Requests, m.cmd # "barrier", Sends(r, m)
        PROVE  /\ InReq(r)' => InReq(r)
               /\ \A i, j \in 1 .. Len(req'[r]) :
                     req'[r][i].cmd = "barrier" /\ req'[r][j].cmd = "barrier" => i = j
    BY <1>1, <2>3, AppendedReq DEF Fenced, Once
  <2> QED  BY <2>1, <2>2, <2>3
<1>5. Once(r)'
  BY <1>1, <1>3, <1>4 DEF Fenced, Once
<1>6. Held(r)' /\ Stage(r)'
  BY <1>2, Distinct DEF Held, Stage, InCall
<1>7. \A u \in Threads : BarrierTodo(call[r][u])'
  BY <1>2, BarrierTodos DEF BarrierTodo
<1>8. Slack(r)' >= Slack(r) /\ Slack(r)' \in Int
  BY <1>1, <1>3, <1>4 DEF Slack, Out
<1>9. Completed(r)' <= Completed(r)
  BY <1>1, <1>3 DEF Completed
<1> QED  BY <1>1, <1>3, <1>5, <1>6, <1>7, <1>8, <1>9 DEF Keeps, Fenced

\* A write to a socket nobody reads ends the process.
LEMMA SigpipeKeepsFence ==
    ASSUME Wire, Wire', Fence, ~world.lazy, NEW r \in Ranks, NEW t \in Threads, Sigpipe(r, t)
    PROVE  Fence'
<1>1. /\ phase' = [phase EXCEPT ![r] = "killed"]
      /\ call' = [call EXCEPT ![r] = [u \in Threads |-> Idle]]
      /\ UNCHANGED <<world, fd, inited, mutex, stream, mixed, entered, left, pub, pm, req, ans>>
  BY DEF Sigpipe, Exits, history, managerVars
<1>2. /\ Types /\ Types' /\ call \in [Ranks -> [Threads -> CallRec]]
      /\ phase \in [Ranks -> {"new", "ready", "final", "killed"}]
  BY DEF Wire, Types, TypeOK
<1>3. /\ \A u \in Threads : call'[r][u] = Idle
      /\ phase'[r] = "killed"
      /\ \A q \in Ranks \ {r} : Same(q) /\ inited'[q] = inited[q]
  BY <1>1, <1>2 DEF Same
<1>4. Keeps(r, 0)
  BY <1>1, <1>3, EndKeepsFence
<1> QED  BY <1>1, <1>2, <1>3, <1>4, FenceElsewhere

\* PMIi_WriteSimpleCommand
LEMMA WriteKeepsFence ==
    ASSUME Wire, Wire', Fence, ~world.lazy, NEW r \in Ranks, NEW t \in Threads,
           PMIi_WriteSimpleCommand(r, t)
    PROVE  Fence'
<1> DEFINE b == call[r][t]
           sent == [b EXCEPT !.at = "read"]
           outcome == IF TooLong(b) THEN "toolong" ELSE "lost"
           none == <<>>
           failed == Over(b, outcome, none)
<1>1. /\ Alive(r) /\ b.at = "write"
      /\ UNCHANGED <<world, fd, inited, mutex, stream, entered, left, pub, pm, ans>>
  BY DEF PMIi_WriteSimpleCommand
<1>2. /\ Types /\ Types' /\ b \in CallRec /\ Busy(b) /\ b.todo # <<>> /\ BarrierTodo(b)
      /\ mixed \subseteq Ranks
  BY <1>1, CallType DEF Wire, Busy, Fence, Fenced, Types
<1>3. /\ sent \in CallRec /\ Busy(sent) /\ sent.at = "read" /\ sent.op = b.op /\ BarrierTodo(sent)
      /\ Heard(r, b, sent)
  BY <1>1, <1>2 DEF CallRec, Busy, BarrierTodo, Heard
<1>4. /\ failed \in CallRec /\ Busy(failed) /\ failed.at = "done" /\ failed.op = b.op
      /\ BarrierTodo(failed) /\ Heard(r, b, failed)
  <2>1. none \in Seq(Cmds) /\ outcome \in Outcomes /\ outcome # "unready"
    BY CmdSeqs DEF Outcomes
  <2>2. none = <<>>
    OBVIOUS
  <2> HIDE DEF outcome, none
  <2>3. /\ failed \in CallRec /\ Busy(failed) /\ failed.op = b.op /\ failed.todo = none
        /\ failed.at = "done" <=> none = <<>>
        /\ failed.res = IF b.res = "ok" THEN outcome ELSE b.res
    BY <1>2, <2>1, OverType
  <2> HIDE DEF failed
  <2> QED  BY <2>1, <2>2, <2>3, BarrierTodos DEF BarrierTodo, Heard
<1>5. PICK next \in {sent, failed} :
         /\ IF next.at = "read"
            THEN /\ ~TooLong(b) /\ Sent(r, t)
                 /\ mixed' = IF Mixing(r, t) THEN mixed \cup {r} ELSE mixed
            ELSE /\ TooLong(b) \/ SendFails(r)
                 /\ UNCHANGED <<req, mixed>>
         /\ IF b.op = "PMI2_Abort"
            THEN /\ phase' = [phase EXCEPT ![r] = "killed"]
                 /\ call' = [call EXCEPT ![r] = [u \in Threads |-> Idle]]
            ELSE /\ call' = [call EXCEPT ![r][t] = next]
                 /\ UNCHANGED phase
  BY DEF PMIi_WriteSimpleCommand
<1> HIDE DEF sent, failed
<1>6. mixed \subseteq mixed' /\ \A q \in Ranks \ {r} : q \in mixed' <=> q \in mixed
  BY <1>5
<1>7. /\ TooLong(b) => b.op \notin Barriers
      /\ b.op = "PMI2_Abort" => b.op \notin Barriers
      /\ b.op \notin Barriers => Head(b.todo) # "barrier"
  BY <1>1, <1>2, BarrierHead DEF TooLong, Barriers
<1>8. CASE b.op = "PMI2_Abort"
  <2>1. /\ phase' = [phase EXCEPT ![r] = "killed"]
        /\ call' = [call EXCEPT ![r] = [u \in Threads |-> Idle]]
        /\ Sent(r, t) \/ UNCHANGED req
    BY <1>5, <1>8
  <2>2. /\ call \in [Ranks -> [Threads -> CallRec]]
        /\ phase \in [Ranks -> {"new", "ready", "final", "killed"}]
    BY <1>2 DEF Types, TypeOK
  <2>3. /\ \A q \in Ranks \ {r} : req'[q] = req[q]
        /\ req'[r] = req[r] \/ \E m \in Requests : m.cmd # "barrier" /\ Sends(r, m)
    BY <1>2, <1>7, <1>8, <2>1, SentEffect
  <2>4. /\ \A u \in Threads : call'[r][u] = Idle
        /\ phase'[r] = "killed"
        /\ \A q \in Ranks \ {r} : Same(q) /\ inited'[q] = inited[q]
    BY <1>1, <1>6, <2>1, <2>2, <2>3 DEF Same
  <2>5. Keeps(r, 0)
    BY <1>1, <1>6, <2>3, <2>4, EndKeepsFence
  <2> QED  BY <1>1, <1>2, <2>4, <2>5, FenceElsewhere
<1>9. CASE b.op # "PMI2_Abort" /\ next = sent
  <2>1. call' = [call EXCEPT ![r][t] = sent] /\ UNCHANGED phase /\ Sent(r, t)
    BY <1>3, <1>5, <1>9
  <2> QED  BY <1>1, <1>3, <1>6, <2>1, SendKeepsFence
<1>10. CASE b.op # "PMI2_Abort" /\ next = failed
  <2>1. /\ call' = [call EXCEPT ![r][t] = failed] /\ UNCHANGED <<phase, req>>
        /\ TooLong(b) \/ SendFails(r)
    BY <1>4, <1>5, <1>10
  <2> QED  BY <1>1, <1>4, <1>6, <1>7, <2>1, SendKeepsFence
<1> QED  BY <1>5, <1>8, <1>9, <1>10

-----------------------------------------------------------------------------
\* Reading: the answer, whole or a part, or nothing more to read.
LEMMA ReadKeepsFence ==
    ASSUME Wire, Wire', Fence, ~world.lazy, NEW r \in Ranks, NEW t \in Threads,
           NEW c \in CallRec, Busy(c), call' = [call EXCEPT ![r][t] = c],
           c.op = call[r][t].op, Alive(r), OnWire(r, t), BarrierTodo(c), c.at # "idle",
           UNCHANGED <<world, fd, inited, phase, mutex, mixed, entered, left, pub, pm, req>>,
           \A q \in Ranks \ {r} : ans'[q] = ans[q] /\ stream'[q] = stream[q],
           c.op \in Barriers => c.at \in {"body", "done"},
           \/ ans[r] # <<>> /\ (ans'[r] = ans[r] \/ c.at # "body")
           \/ ans'[r] = ans[r] /\ (Eof(r) \/ r \in mixed) /\ c.at # "body",
           Heard(r, call[r][t], c)
    PROVE  Fence'
<1>1. c.op \in Barriers => t = "main"
  BY DEF Wire, Local, Counts, InCall, OnWire
<1>2. IF c.op \in Barriers THEN BarrierStep(r, c) ELSE OtherStep(r)
  <2>1. CASE c.op \in Barriers
    BY <1>1, <2>1 DEF BarrierStep, OnWire
  <2>2. CASE c.op \notin Barriers
    BY <2>2 DEF OtherStep
  <2> QED  BY <2>1, <2>2
<1>3. InCall(r, t)
  BY DEF OnWire, InCall
<1> QED  BY <1>2, <1>3, StepKeepsFence

\* What a read makes of the call: it takes the length of an answer, it takes an
\* answer a and judges it with outcome o, or nothing comes or only garbage does.
Reads(r, t, d) ==
    LET c == call[r][t]
    IN  \/ /\ d.at = "body" /\ d.todo = c.todo /\ d.res = c.res /\ d.got = c.got
           /\ ans[r] # <<>> /\ ans'[r] = ans[r]
        \/ \E a \in Answers, o \in Outcomes :
              /\ ans[r] # <<>> /\ a = ans[r][1] /\ ans'[r] = Tail(ans[r])
              /\ o \in {Outcome(c, a), Verdict(c, a)}
              /\ d.todo \in {After(c, o), AfterAnswer(c, o)} /\ d.at \in {"write", "done"}
              /\ d.got = Value(c, a) /\ (c.res # "ok" => d.res = c.res)
              /\ c.res = "ok" => d.res \in {o, Noticed(c, o)}
        \/ /\ Eof(r) \/ r \in mixed
           /\ d.todo \in {<<>>, AfterAnswer(c, "lost")} /\ d.at \in {"write", "done"}
           /\ ans'[r] = ans[r]
           /\ r \notin mixed => IF c.res = "ok" THEN d.res \in {"lost", Noticed(c, "lost")}
                                               ELSE d.res = c.res

\* A read of thread t of rank r, after which its call is d.
ReadStep(r, t, d) ==
    /\ Busy(d) /\ call' = [call EXCEPT ![r][t] = d] /\ Alive(r) /\ OnWire(r, t)
    /\ d.op = call[r][t].op /\ d.key = call[r][t].key /\ d.val = call[r][t].val
    /\ d.due = call[r][t].due
    /\ \A q \in Ranks \ {r} : ans'[q] = ans[q] /\ stream'[q] = stream[q]
    /\ UNCHANGED <<world, fd, inited, phase, mutex, mixed, entered, left, pub, pm, req>>
    /\ Reads(r, t, d) /\ Heard(r, call[r][t], d)

\* What a client takes for the outcome of an exchange.
LEMMA NoticedIs ==
    ASSUME NEW c, NEW o
    PROVE  /\ Noticed(c, o) \in {o, "ok", "unready"}
           /\ o # "lost" => Noticed(c, o) \in {o, "ok"}
           /\ Head(c.todo) \in {"put", "get", "barrier", "my_kvsname"} => Noticed(c, o) = o
BY DEF Noticed, Ignored, Handshake, Unasked

\* An answer is taken.
LEMMA TakeEffect ==
    ASSUME Types, NEW r \in Ranks, NEW t \in Threads, call[r][t].todo # <<>>,
           NEW a \in Answers, a = ans[r][1], ans[r] # <<>>,
           NEW o \in Outcomes, o \in {Outcome(call[r][t], a), Verdict(call[r][t], a)},
           NEW rest, rest \in {After(call[r][t], o), AfterAnswer(call[r][t], o)},
           NEW n \in Outcomes, n \in {o, Noticed(call[r][t], o)},
           NEW y \in BOOLEAN, NEW d, d = Taken(call[r][t], n, rest, Value(call[r][t], a), y),
           call' = [call EXCEPT ![r][t] = d], ans' = [ans EXCEPT ![r] = Tail(@)],
           \A q \in Ranks \ {r} : stream'[q] = stream[q],
           UNCHANGED <<world, fd, inited, phase, mutex, mixed, entered, left, pub, pm, req>>,
           Alive(r), OnWire(r, t)
    PROVE  d \in CallRec /\ ReadStep(r, t, d)
<1> DEFINE c == call[r][t]
           got == Value(c, a)
<1>1. c \in CallRec /\ ans \in [Ranks -> Seq(Answers)]
  BY DEF Types
<1>2. rest \in Seq(Cmds) /\ got \in Nat
  BY <1>1, AnswerType, GoesOn
<1>n. n # "unready"
  <2>1. o \in {"ok", "refused", "absent", "wrong", "notimpl"}
    BY DEF Outcome, Verdict
  <2> QED  BY <2>1, NoticedIs
<1>3. ans'[r] = Tail(ans[r]) /\ \A q \in Ranks \ {r} : ans'[q] = ans[q]
  BY <1>1
<1>4. d = Taken(c, n, rest, got, y)
  OBVIOUS
<1> HIDE DEF c, got
<1>5. /\ d \in CallRec /\ Busy(d) /\ d.todo = rest /\ d.at \in {"write", "done"}
      /\ d.op = c.op /\ d.key = c.key /\ d.val = c.val /\ d.due = c.due /\ d.got = got
      /\ d.res = IF c.res = "ok" THEN n ELSE c.res
  BY <1>1, <1>2, <1>4, TakenType
<1>6. Reads(r, t, d)
  BY <1>3, <1>5 DEF Reads, c, got
<1>7. Heard(r, call[r][t], d)
  BY <1>n, <1>5 DEF Heard, c
<1> QED  BY <1>3, <1>5, <1>6, <1>7 DEF ReadStep, c

\* Nothing is taken.
LEMMA LostEffect ==
    ASSUME Types, NEW r \in Ranks, NEW t \in Threads, call[r][t].todo # <<>>,
           NEW b \in CallRec, b.op = call[r][t].op, b.key = call[r][t].key,
           b.val = call[r][t].val, b.due = call[r][t].due, b.res = call[r][t].res,
           NEW o \in Outcomes, o # "unready" \/ Eof(r),
           r \notin mixed => o \in {"lost", Noticed(call[r][t], "lost")}, NEW rest \in Seq(Cmds),
           rest \in {<<>>, AfterAnswer(call[r][t], "lost")},
           NEW d, d = Over(b, o, rest), Eof(r) \/ r \in mixed,
           call' = [call EXCEPT ![r][t] = d],
           \A q \in Ranks \ {r} : stream'[q] = stream[q],
           UNCHANGED <<world, fd, inited, phase, mutex, mixed, entered, left, pub, pm, req, ans>>,
           Alive(r), OnWire(r, t)
    PROVE  d \in CallRec /\ ReadStep(r, t, d)
<1>1. /\ d \in CallRec /\ Busy(d) /\ d.todo = rest /\ d.at \in {"write", "done"}
      /\ d.op = b.op /\ d.key = b.key /\ d.val = b.val /\ d.due = b.due
      /\ d.res = IF b.res = "ok" THEN o ELSE b.res
  BY OverType
<1>2. Reads(r, t, d)
  BY <1>1 DEF Reads
<1>3. Heard(r, call[r][t], d)
  BY <1>1 DEF Heard, Eof
<1> QED  BY <1>1, <1>2, <1>3 DEF ReadStep

\* GetResponse reads an answer, or finds the connection closed.
LEMMA GetResponseReads ==
    ASSUME Wire, NEW r \in Ranks, GetResponse(r)
    PROVE  \E d \in CallRec : ReadStep(r, "main", d)
<1> DEFINE c == call[r]["main"]
<1>1. /\ Alive(r) /\ c.at = "read"
      /\ UNCHANGED <<world, fd, inited, phase, mutex, stream, mixed, entered, left, pub, pm, req>>
  BY DEF GetResponse, history
<1>2. Types /\ c \in CallRec /\ Busy(c) /\ "main" \in Threads
  BY CallType, Distinct DEF Wire
<1>3. c.todo # <<>> /\ OnWire(r, "main") /\ c.own \in BOOLEAN
  BY <1>1, <1>2 DEF CallRec, Busy, OnWire
<1>4. CASE /\ Eof(r) /\ UNCHANGED ans
           /\ call' = [call EXCEPT ![r]["main"] = Over(c, Noticed(c, "lost"), AfterAnswer(c, "lost"))]
  <2>1. "lost" \in Outcomes
    BY DEF Outcomes
  <2>2. Noticed(c, "lost") \in Outcomes /\ AfterAnswer(c, "lost") \in Seq(Cmds)
    BY <1>2, <1>3, <2>1, GoesOn
  <2>a. PICK o \in Outcomes : o = Noticed(c, "lost")
    BY <2>2
  <2>b. PICK s \in Seq(Cmds) : s = AfterAnswer(c, "lost")
    BY <2>2
  <2>c. PICK x : x = Over(c, o, s)
    OBVIOUS
  <2>3. /\ s \in {<<>>, AfterAnswer(call[r]["main"], "lost")}
        /\ o \in {"lost", Noticed(call[r]["main"], "lost")}
        /\ x = Over(call[r]["main"], o, s) /\ call' = [call EXCEPT ![r]["main"] = x]
    BY <1>4, <2>a, <2>b, <2>c
  <2>4. x \in CallRec /\ ReadStep(r, "main", x)
    BY <1>1, <1>2, <1>3, <1>4, <2>3, LostEffect
  <2> QED  BY <2>4
<1>5. CASE /\ fd[r] = "open" /\ ans[r] # <<>>
           /\ ans' = [ans EXCEPT ![r] = Tail(@)]
           /\ LET a == Head(ans[r])
                  o == Outcome(c, a)
              IN  call' = [call EXCEPT ![r]["main"] =
                             [Over(c, Noticed(c, o), AfterAnswer(c, o)) EXCEPT
                                !.got = Value(c, a), !.own = @ /\ a.by = "main"]]
  <2> DEFINE a == Head(ans[r])
             o == Outcome(c, a)
             m == Noticed(c, o)
             rest == AfterAnswer(c, o)
             got == Value(c, a)
             own == c.own /\ a.by = "main"
             d == [Over(c, m, rest) EXCEPT !.got = got, !.own = own]
  <2>1. a \in Answers /\ a = ans[r][1]
    BY <1>2, <1>5, Messages
  <2>2. Over(c, m, rest).own = c.own
    BY <1>2 DEF Over, CallRec
  <2>3. call' = [call EXCEPT ![r]["main"] = d]
    BY <1>5, <2>2
  <2>4. PICK y \in BOOLEAN : y = own
    OBVIOUS
  <2>5. d = Taken(c, m, rest, got, y)
    BY <2>4 DEF Taken
  <2>6. PICK x : x = d
    OBVIOUS
  <2> HIDE DEF a, own, d
  <2>7. o \in Outcomes
    BY <1>2, <1>3, <2>1, AnswerType DEF Outcomes
  <2>8. PICK p \in Outcomes : p = o
    BY <2>7
  <2>n. PICK n \in Outcomes : n = m
    BY <1>2, <1>3, <2>7, GoesOn
  <2>9. PICK s : s = rest
    OBVIOUS
  <2>10. /\ p \in {Outcome(call[r]["main"], a), Verdict(call[r]["main"], a)}
         /\ s \in {After(call[r]["main"], p), AfterAnswer(call[r]["main"], p)}
         /\ n \in {p, Noticed(call[r]["main"], p)}
         /\ x = Taken(call[r]["main"], n, s, Value(call[r]["main"], a), y)
         /\ call' = [call EXCEPT ![r]["main"] = x]
    BY <2>3, <2>5, <2>6, <2>8, <2>n, <2>9
  <2> HIDE DEF o, m, rest, got
  <2>11. x \in CallRec /\ ReadStep(r, "main", x)
    BY <1>1, <1>2, <1>3, <1>5, <2>1, <2>10, TakeEffect, ZenonT(40)
  <2> QED  BY <2>11
<1> QED  BY <1>4, <1>5 DEF GetResponse

\* The first read of PMIi_ReadCommand.
LEMMA ReadLengthReads ==
    ASSUME Wire, NEW r \in Ranks, NEW t \in Threads, ReadLength(r, t)
    PROVE  \E d \in CallRec : ReadStep(r, t, d)
<1> DEFINE c == call[r][t]
           b == [c EXCEPT !.own = FALSE]
<1>1. /\ Alive(r) /\ c.at = "read" /\ fd[r] = "open" /\ ans[r] # <<>>
      /\ UNCHANGED <<world, fd, inited, phase, mutex, mixed, entered, left, pub, pm, req, ans>>
  BY DEF ReadLength, history, managerVars
<1>2. /\ Types /\ Local(r) /\ c \in CallRec /\ Busy(c)
      /\ stream \in [Ranks -> Threads \cup {None, "broken"}]
  BY CallType DEF Wire, Types, TypeOK
<1>3. c.todo # <<>> /\ OnWire(r, t)
  BY <1>1, <1>2 DEF Busy, OnWire
<1>4. CASE /\ stream' = [stream EXCEPT ![r] = t]
           /\ call' = [call EXCEPT ![r][t].at = "body"]
  <2> DEFINE d == [c EXCEPT !.at = "body"]
  <2>1. call' = [call EXCEPT ![r][t] = d]
    BY <1>4
  <2>2. /\ d \in CallRec /\ Busy(d) /\ d.at = "body" /\ d.todo = c.todo /\ d.op = c.op /\ Heard(r, c, d)
        /\ d.key = c.key /\ d.val = c.val /\ d.due = c.due /\ d.res = c.res /\ d.got = c.got
    BY <1>2, <1>3 DEF CallRec, Busy, Heard
  <2> HIDE DEF d
  <2>3. Reads(r, t, d)
    BY <1>1, <2>2 DEF Reads
  <2> QED  BY <1>1, <1>2, <1>3, <1>4, <2>1, <2>2, <2>3 DEF ReadStep
<1>5. CASE /\ stream[r] # None /\ stream' = [stream EXCEPT ![r] = "broken"]
           /\ call' = [call EXCEPT ![r][t] = Over([c EXCEPT !.own = FALSE], "wrong", <<>>)]
  <2>1. r \in mixed
    <3>1. ASSUME r \notin mixed  PROVE FALSE
      <4>1. Exchange(r)
        BY <1>1, <1>2, <3>1 DEF Local
      <4>2. stream[r] \in Threads /\ call[r][stream[r]].at = "body"
        BY <1>1, <1>5, <4>1 DEF Exchange
      <4>3. stream[r] = t
        BY <1>3, <4>1, <4>2 DEF Exchange, OnWire
      <4> QED  BY <1>1, <4>2, <4>3
    <3> QED  BY <3>1
  <2>2. PICK o \in Outcomes : o = "wrong"
    BY DEF Outcomes
  <2>3. PICK s \in Seq(Cmds) : s = <<>>
    BY CmdSeqs
  <2>4. PICK x : x = Over(b, o, s)
    OBVIOUS
  <2>5. /\ b \in CallRec /\ b.op = c.op /\ b.key = c.key /\ b.val = c.val /\ b.due = c.due
        /\ b.res = c.res
    BY <1>2 DEF CallRec
  <2>6. call' = [call EXCEPT ![r][t] = x]
    BY <1>5, <2>2, <2>3, <2>4
  <2> HIDE DEF b
  <2>7. s \in {<<>>, AfterAnswer(c, "lost")} /\ \A q \in Ranks \ {r} : stream'[q] = stream[q]
    BY <1>2, <1>5, <2>3
  <2>o. /\ o # "unready" \/ Eof(r)
        /\ r \notin mixed => o \in {"lost", Noticed(call[r][t], "lost")}
    BY <2>1, <2>2
  <2>8. x \in CallRec /\ ReadStep(r, t, x)
    BY <1>1, <1>2, <1>3, <2>1, <2>4, <2>5, <2>6, <2>7, <2>o, LostEffect
  <2> QED  BY <2>8
<1> QED  BY <1>4, <1>5 DEF ReadLength

\* The second read of PMIi_ReadCommand.
LEMMA ReadBodyReads ==
    ASSUME Wire, NEW r \in Ranks, NEW t \in Threads, ReadBody(r, t)
    PROVE  \E d \in CallRec : ReadStep(r, t, d)
<1> DEFINE c == call[r][t]
           a == Head(ans[r])
           o == Verdict(c, a)
           rest == After(c, o)
           got == Value(c, a)
           own == c.own /\ a.by = t
           d == [Over(c, o, rest) EXCEPT !.got = got, !.own = own]
<1>1. /\ Alive(r) /\ c.at = "body" /\ stream[r] = t
      /\ UNCHANGED <<world, fd, inited, phase, mutex, mixed, entered, left, pub, pm, req>>
      /\ ans' = [ans EXCEPT ![r] = Tail(@)]
      /\ stream' = [stream EXCEPT ![r] = None]
  BY DEF ReadBody, history
<1>2. /\ Types /\ Local(r) /\ c \in CallRec /\ Busy(c)
      /\ stream \in [Ranks -> Threads \cup {None, "broken"}]
  BY CallType DEF Wire, Types, TypeOK
<1>3. /\ OnWire(r, t) /\ c.todo # <<>> /\ ans[r] # <<>>
  BY <1>1, <1>2 DEF Busy, OnWire, Local, Socket
<1>4. a \in Answers /\ a = ans[r][1]
  BY <1>2, <1>3, Messages
<1>5. Over(c, o, rest).own = c.own
  BY <1>2 DEF Over, CallRec
<1>6. call' = [call EXCEPT ![r][t] = d]
  BY <1>5 DEF ReadBody
<1>7. PICK y \in BOOLEAN : y = own
  OBVIOUS
<1>8. d = Taken(c, o, rest, got, y)
  BY <1>7 DEF Taken
<1>9. PICK x : x = d
  OBVIOUS
<1> HIDE DEF a, own, d
<1>10. o \in Outcomes
  BY <1>2, <1>3, <1>4, AnswerType DEF Outcomes
<1>11. PICK p \in Outcomes : p = o
  BY <1>10
<1>12. PICK s : s = rest
  OBVIOUS
<1>13. /\ p \in {Outcome(call[r][t], a), Verdict(call[r][t], a)}
       /\ s \in {After(call[r][t], p), AfterAnswer(call[r][t], p)}
       /\ p \in {p, Noticed(call[r][t], p)}
       /\ x = Taken(call[r][t], p, s, Value(call[r][t], a), y)
       /\ call' = [call EXCEPT ![r][t] = x]
  BY <1>6, <1>8, <1>9, <1>11, <1>12
<1> HIDE DEF o, rest, got
<1>14. \A q \in Ranks \ {r} : stream'[q] = stream[q]
  BY <1>1, <1>2
<1>15. x \in CallRec /\ ReadStep(r, t, x)
  BY <1>1, <1>2, <1>3, <1>4, <1>13, <1>14, TakeEffect
<1> QED  BY <1>15

\* A read of PMIi_ReadCommand that fails.
LEMMA ReadFailsReads ==
    ASSUME Wire, NEW r \in Ranks, NEW t \in Threads, ReadFails(r, t)
    PROVE  \E d \in CallRec : ReadStep(r, t, d)
<1> DEFINE c == call[r][t]
<1>1. /\ Alive(r) /\ OnWire(r, t)
      /\ UNCHANGED <<world, fd, inited, phase, mutex, stream, mixed, entered, left, pub, pm,
                     req, ans>>
  BY DEF ReadFails, history, managerVars
<1>2. Types /\ Local(r) /\ c \in CallRec /\ Busy(c) /\ c.todo # <<>>
  BY <1>1, CallType DEF Wire, Busy, OnWire
<1>3. PICK b \in CallRec, o \in Outcomes :
         /\ b.op = c.op /\ b.key = c.key /\ b.val = c.val /\ b.due = c.due /\ b.res = c.res
         /\ call' = [call EXCEPT ![r][t] = Over(b, o, <<>>)]
         /\ Eof(r) \/ r \in mixed
         /\ (r \notin mixed => o = "lost") /\ o # "unready"
  <2>1. CASE Eof(r) /\ call' = [call EXCEPT ![r][t] = Over(c, "lost", <<>>)]
    <3>1. PICK o \in Outcomes : o = "lost"
      BY DEF Outcomes
    <3> QED  BY <1>2, <2>1, <3>1
  <2>2. CASE /\ stream[r] = "broken"
             /\ call' = [call EXCEPT ![r][t] = Over([c EXCEPT !.own = FALSE], "wrong", <<>>)]
    <3>1. PICK o \in Outcomes : o = "wrong"
      BY DEF Outcomes
    <3>2. r \in mixed
      BY <1>2, <2>2 DEF Local, Own
    <3> DEFINE b == [c EXCEPT !.own = FALSE]
    <3>3. /\ b \in CallRec /\ b.op = c.op /\ b.key = c.key /\ b.val = c.val /\ b.due = c.due
          /\ b.res = c.res
      BY <1>2 DEF CallRec
    <3>4. call' = [call EXCEPT ![r][t] = Over(b, o, <<>>)]
      BY <2>2, <3>1
    <3> HIDE DEF b
    <3> QED  BY <2>2, <3>1, <3>2, <3>3, <3>4
  <2> QED  BY <2>1, <2>2 DEF ReadFails
<1>4. PICK s \in Seq(Cmds) : s = <<>>
  BY CmdSeqs
<1>5. PICK x : x = Over(b, o, s)
  OBVIOUS
<1>6. /\ call' = [call EXCEPT ![r][t] = x] /\ s \in {<<>>, AfterAnswer(c, "lost")}
      /\ r \notin mixed => o \in {"lost", Noticed(call[r][t], "lost")}
  BY <1>3, <1>4, <1>5
<1>7. x \in CallRec /\ ReadStep(r, t, x)
  BY <1>1, <1>2, <1>3, <1>5, <1>6, LostEffect
<1> QED  BY <1>7

\* A read completes a barrier only when its answer is there, and the answer
\* was counted when the manager gave it.
LEMMA ReadStepKeepsFence ==
    ASSUME Wire, Wire', Fence, ~world.lazy, NEW r \in Ranks, NEW t \in Threads,
           NEW d \in CallRec, ReadStep(r, t, d)
    PROVE  Fence'
<1> DEFINE c == call[r][t]
<1>1. /\ Busy(d) /\ call' = [call EXCEPT ![r][t] = d] /\ Alive(r) /\ OnWire(r, t)
      /\ d.op = c.op /\ Reads(r, t, d) /\ Heard(r, c, d)
      /\ \A q \in Ranks \ {r} : ans'[q] = ans[q] /\ stream'[q] = stream[q]
      /\ UNCHANGED <<world, fd, inited, phase, mutex, mixed, entered, left, pub, pm, req>>
  BY DEF ReadStep
<1>2. c \in CallRec /\ Busy(c) /\ BarrierTodo(c) /\ c.at \in {"read", "body"}
  BY <1>1, CallType DEF Wire, Fence, Fenced, OnWire
<1>3. /\ d.at \in {"body", "write", "done"}
      /\ \/ d.todo = c.todo /\ d.at = "body"
         \/ d.todo = <<>> \/ \E o : d.todo \in {After(c, o), AfterAnswer(c, o)}
      /\ \/ ans[r] # <<>> /\ (ans'[r] = ans[r] \/ d.at # "body")
         \/ ans'[r] = ans[r] /\ (Eof(r) \/ r \in mixed) /\ d.at # "body"
  BY <1>1 DEF Reads
<1>4. BarrierTodo(d) /\ (d.op \in Barriers => d.at \in {"body", "done"})
  <2>1. CASE d.todo = c.todo /\ d.at = "body"
    BY <1>1, <1>2, <2>1 DEF BarrierTodo
  <2>2. CASE d.todo = <<>> \/ \E o : d.todo \in {After(c, o), AfterAnswer(c, o)}
    <3>1. /\ c.op \in Barriers => d.todo = <<>>
          /\ c.op \notin Barriers => d.todo \in Seq(Cmds \ {"barrier"})
      BY <1>2, <2>2, BarrierRest
    <3>2. d.todo = <<>> => d.at # "write"
      BY <1>1 DEF Busy
    <3> QED  BY <1>1, <1>3, <3>1, <3>2 DEF BarrierTodo
  <2> QED  BY <1>3, <2>1, <2>2
<1> QED  BY <1>1, <1>3, <1>4, ReadKeepsFence

\* A function returns.
LEMMA LeaveKeepsFence ==
    ASSUME Wire, Wire', Fence, ~world.lazy, NEW r \in Ranks, NEW t \in Threads,
           NEW conn, NEW state, NEW stage, Leave(r, t, conn, state, stage),
           conn \in {fd[r], "closed"},
           \/ call[r][t].op = InitOp /\ conn = fd[r] /\ stage = "ready"
              /\ (world.api = "pmi1" /\ pm.up /\ fd[r] = "open" => state = "pm")
           \/ stage = "final" /\ call[r][t].op \notin Barriers
           \/ stage = phase[r] /\ phase[r] # "new" /\ conn = fd[r] /\ state = inited[r]
    PROVE  Fence'
<1> DEFINE c == call[r][t]
<1>1. /\ Alive(r) /\ c.at = "done"
      /\ call' = [call EXCEPT ![r][t] = Idle]
      /\ fd' = [fd EXCEPT ![r] = conn]
      /\ inited' = [inited EXCEPT ![r] = state]
      /\ phase' = [phase EXCEPT ![r] = stage]
      /\ mutex' = [mutex EXCEPT ![r] = IF @ = t THEN None ELSE @]
      /\ left' = [left EXCEPT ![r] = IF c.op \in Barriers THEN @ + 1 ELSE @]
      /\ UNCHANGED <<world, stream, mixed, entered, pm, req, ans>>
  BY DEF Leave, Release, managerVars
<1>2. /\ Types /\ Types' /\ Local(r) /\ Fenced(r) /\ entered[r] \in Nat /\ left[r] \in Nat
  BY CountTypes DEF Wire, Fence
<1>3. /\ call \in [Ranks -> [Threads -> CallRec]]
      /\ fd \in [Ranks -> {"none", "open", "closed"}]
      /\ inited \in [Ranks -> {"no", "single", "pm"}]
      /\ phase \in [Ranks -> {"new", "ready", "final", "killed"}]
      /\ mutex \in [Ranks -> Threads \cup {None}]
      /\ left \in [Ranks -> 0 .. MaxBarriers]
  BY <1>2 DEF Types, TypeOK
<1>4. /\ call'[r][t] = Idle /\ \A u \in Threads \ {t} : call'[r][u] = call[r][u]
      /\ fd'[r] = conn /\ inited'[r] = state /\ phase'[r] = stage
      /\ left'[r] = IF c.op \in Barriers THEN left[r] + 1 ELSE left[r]
      /\ \A q \in Ranks \ {r} : Same(q) /\ inited'[q] = inited[q]
  BY <1>1, <1>3 DEF Same
<1>5. call'[r][t].at = "idle" /\ call'[r][t].todo = <<>> /\ call'[r][t].res = "ok"
  BY <1>4 DEF Idle
<1>6. \A u \in Threads : BarrierTodo(call[r][u])'
  BY <1>2, <1>4, <1>5, BarrierTodos DEF BarrierTodo, Fenced
<1>7. /\ InReq(r)' <=> InReq(r)
      /\ InPm(r)' <=> InPm(r)
      /\ Good(r)' => Good(r)
  BY <1>1, <1>4 DEF InReq, InPm, Good
<1>8. c.op \in Barriers => t = "main"
  BY <1>1, <1>2 DEF Local, Counts, InCall
<1>9. /\ Before(r)' <=> Before(r)
      /\ OnWire(r, "main")' <=> OnWire(r, "main")
      /\ OnWire(r, "main") => call'[r]["main"] = call[r]["main"]
      /\ Answered(r)' <=> Answered(r) /\ c.op \notin Barriers
      /\ c.op \in Barriers => Answered(r)
  <2>1. CASE t = "main"
    BY <1>1, <1>4, <1>5, <2>1 DEF Before, OnWire, Answered
  <2>2. CASE t # "main"
    BY <1>1, <1>4, <1>8, <2>2, Distinct DEF Before, OnWire, Answered
  <2> QED  BY <2>1, <2>2
<1>10. Once(r)'
  BY <1>1, <1>2, <1>7, <1>9 DEF Once, Fenced
<1>11. Held(r)'
  <2>1. stage \in {"new", "ready"} => phase[r] \in {"new", "ready"}
    BY <1>1, <1>2 DEF Fenced, Stage, InCall
  <2> QED  BY <1>1, <1>2, <1>4, <1>7, <1>9, <2>1 DEF Held, Fenced
<1>12. Stage(r)'
  <2>1. /\ InitOp' = InitOp
        /\ c.op = InitOp => phase[r] = "new"
        /\ phase[r] = "new" => \A u \in Threads \ {t} : ~InCall(r, u)
    BY <1>1, <1>2 DEF InitOp, Fenced, Stage, InCall, Local, Socket, Threads
  <2>2. \A u \in Threads : InCall(r, u)' <=> u # t /\ InCall(r, u)
    BY <1>4, <1>5 DEF InCall
  <2>3. \A u \in Threads : InCall(r, u)' /\ call'[r][u].op = InitOp' => phase'[r] = "new"
    BY <1>2, <1>4, <2>1, <2>2 DEF Fenced, Stage
  <2>4. (world.api = "pmi1" /\ pm.up /\ fd[r] = "open" =>
           /\ phase[r] = "ready" => inited[r] = "pm"
           /\ call[r]["main"].res # "unready")'
    <3>1. \/ call'[r]["main"].res = "ok" \/ call'[r]["main"] = call[r]["main"]
      BY <1>4, <1>5, Distinct
    <3> QED  BY <1>1, <1>2, <1>4, <2>1, <3>1 DEF Stage, Fenced
  <2> QED  BY <1>1, <1>2, <1>4, <2>1, <2>3, <2>4 DEF Stage, Fenced, Alive
<1>13. Slack(r)' = Slack(r) /\ Slack(r) \in Int /\ Slack(r) >= 0
  BY <1>1, <1>2, <1>7, <1>9 DEF Slack, Out, Fenced
<1>14. Completed(r)' = Completed(r) /\ Completed(r) \in Nat
  BY <1>2, <1>4, <1>9 DEF Completed
<1>15. Keeps(r, 0)
  BY <1>6, <1>7, <1>10, <1>11, <1>12, <1>13, <1>14 DEF Keeps, Fenced
<1> QED  BY <1>1, <1>2, <1>4, <1>15, FenceElsewhere

\* A call returns; a barrier that returns was completed.
LEMMA ReturnKeepsFence ==
    ASSUME Wire, Wire', Fence, ~world.lazy, NEW r \in Ranks, NEW t \in Threads,
           \/ world.api = "pmi1" /\ t = "main" /\ Return1(r)
           \/ world.api = "pmi2" /\ Return2(r, t)
    PROVE  Fence'
<1>1. Types /\ Local(r) /\ call[r][t].at = "done"
  BY DEF Wire, Return1, Return2, Leave
<1>2. phase[r] = "new" => call[r][t].op = InitOp
  BY <1>1 DEF Local, Socket, InCall, Threads
<1>3. {"PMI_Finalize", "PMI2_Finalize"} \cap Barriers = {}
  BY DEF Barriers
<1>4. CASE world.api = "pmi1" /\ t = "main" /\ Return1(r)
  <2> DEFINE op == call[r]["main"].op
             conn == IF op = "PMI_Finalize" /\ WithManager(r) THEN "closed" ELSE fd[r]
             state == Initialized1(r, call[r]["main"])
             stage == CASE op = "PMI_Init"     -> "ready"
                        [] op = "PMI_Finalize" -> "final"
                        [] OTHER               -> phase[r]
  <2>1. Leave(r, "main", conn, state, stage)
    BY <1>4 DEF Return1
  <2>2. conn \in {fd[r], "closed"}
    OBVIOUS
  <2>3. \/ op = InitOp /\ conn = fd[r] /\ stage = "ready"
           /\ (world.api = "pmi1" /\ pm.up /\ fd[r] = "open" => state = "pm")
        \/ stage = "final" /\ op \notin Barriers
        \/ stage = phase[r] /\ phase[r] # "new" /\ conn = fd[r] /\ state = inited[r]
    <3>1. inited[r] # "single" /\ Fenced(r)
      BY <1>1, <1>4 DEF Types, Fence
    <3>2. op # "PMI_Init" => state = inited[r]
      BY <3>1 DEF Initialized1, Promoting
    <3>3. op = "PMI_Init" /\ pm.up /\ fd[r] = "open" => state = "pm"
      BY <1>4, <3>1 DEF Initialized1, Succeeds1, NameService, Promoting, Fenced, Stage
    <3> HIDE DEF state
    <3> QED  BY <1>2, <1>3, <1>4, <3>2, <3>3 DEF InitOp
  <2> HIDE DEF conn, state, stage
  <2> QED  BY <1>4, <2>1, <2>2, <2>3, LeaveKeepsFence
<1>5. CASE world.api = "pmi2" /\ Return2(r, t)
  <2> DEFINE c == call[r][t]
             op == c.op
             conn == IF Closes(r, c) THEN "closed" ELSE fd[r]
             state == CASE op = "PMI2_Init" /\ world.env = "none"  -> "single"
                        [] op = "PMI2_Init" /\ Succeeds2(r, c)     -> "pm"
                        [] OTHER                                   -> inited[r]
             stage == CASE op = "PMI2_Init"     -> "ready"
                        [] op = "PMI2_Finalize" -> "final"
                        [] OTHER                -> phase[r]
  <2>1. Leave(r, t, conn, state, stage)
    BY <1>5 DEF Return2
  <2>2. conn \in {fd[r], "closed"}
    OBVIOUS
  <2>3. \/ op = InitOp /\ conn = fd[r] /\ stage = "ready"
           /\ (world.api = "pmi1" /\ pm.up /\ fd[r] = "open" => state = "pm")
        \/ stage = "final" /\ op \notin Barriers
        \/ stage = phase[r] /\ phase[r] # "new" /\ conn = fd[r] /\ state = inited[r]
    BY <1>2, <1>3, <1>5 DEF InitOp, Closes
  <2> HIDE DEF conn, state, stage
  <2> QED  BY <2>1, <2>2, <2>3, LeaveKeepsFence
<1> QED  BY <1>4, <1>5

-----------------------------------------------------------------------------
\* The manager takes a request out of the sequence.
LEMMA RemovedReq ==
    ASSUME Types, NEW r \in Ranks, Once(r), NEW i \in 1 .. Len(req[r]),
           req' = [req EXCEPT ![r] = RemoveAt(@, i)]
    PROVE  /\ \A q \in Ranks \ {r} : req'[q] = req[q]
           /\ InReq(r)' => InReq(r)
           /\ req[r][i].cmd = "barrier" => InReq(r) /\ ~InReq(r)'
           /\ \A j, k \in 1 .. Len(req'[r]) :
                 req'[r][j].cmd = "barrier" /\ req'[r][k].cmd = "barrier" => j = k
<1> DEFINE s == req[r]
           u == RemoveAt(s, i)
           n == Len(s)
<1>1. s \in Seq(Requests) /\ req \in [Ranks -> Seq(Requests)]
  BY DEF Types
<1>2. /\ Len(u) = n - 1 /\ n \in Nat /\ i \in 1 .. n
      /\ \A j \in 1 .. n - 1 : u[j] = IF j < i THEN s[j] ELSE s[j + 1]
  BY <1>1, Removed, SMTT(30)
<1>3. /\ InReq(r)' <=> \E j \in 1 .. Len(u) : u[j].cmd = "barrier"
      /\ InReq(r) <=> \E j \in 1 .. n : s[j].cmd = "barrier"
      /\ req'[r] = u /\ req[r] = s /\ \A q \in Ranks \ {r} : req'[q] = req[q]
  BY <1>1 DEF InReq
<1>4. \A j, k \in 1 .. n : s[j].cmd = "barrier" /\ s[k].cmd = "barrier" => j = k
  BY DEF Once
<1> HIDE DEF s, u, n
<1>5. \A j \in 1 .. n - 1 : \E k \in 1 .. n :
          u[j] = s[k] /\ k # i /\ k = IF j < i THEN j ELSE j + 1
  <2>1. ASSUME NEW j \in 1 .. n - 1
        PROVE \E k \in 1 .. n : u[j] = s[k] /\ k # i /\ k = IF j < i THEN j ELSE j + 1
    <3> DEFINE k == IF j < i THEN j ELSE j + 1
    <3>1. k \in 1 .. n /\ k # i /\ u[j] = s[k]
      BY <1>2
    <3> QED  BY <3>1
  <2> QED  BY <2>1
<1>6. \A j, k \in 1 .. n - 1 : u[j].cmd = "barrier" /\ u[k].cmd = "barrier" => j = k
  <2>1. ASSUME NEW j \in 1 .. n - 1, NEW k \in 1 .. n - 1, u[j].cmd = "barrier",
               u[k].cmd = "barrier"
        PROVE  j = k
    <3>1. PICK a \in 1 .. n : u[j] = s[a] /\ a = IF j < i THEN j ELSE j + 1
      BY <1>5
    <3>2. PICK b \in 1 .. n : u[k] = s[b] /\ b = IF k < i THEN k ELSE k + 1
      BY <1>5
    <3>3. a = b
      BY <1>4, <2>1, <3>1, <3>2
    <3> QED  BY <1>2, <3>1, <3>2, <3>3
  <2> QED  BY <2>1
<1>7. InReq(r)' => InReq(r)
  BY <1>2, <1>3, <1>5
<1>8. ASSUME s[i].cmd = "barrier"  PROVE InReq(r) /\ ~InReq(r)'
  BY <1>2, <1>3, <1>4, <1>5, <1>8
<1> QED  BY <1>2, <1>3, <1>6, <1>7, <1>8

\* An answer to another request is not taken for the answer to a barrier.
LEMMA OtherAnswer ==
    ASSUME Wire, Wire', Fence, ~world.lazy, NEW q \in Ranks, UNCHANGED <<call, phase>>, Good(q)',
           NEW a \in Answers, a.cmd # "barrier", ans'[q] = Append(ans[q], a)
    PROVE  Answered(q)' => Answered(q)
<1> SUFFICES ASSUME OnWire(q, "main"), call[q]["main"].op \in Barriers, ans[q] = <<>>
             PROVE  FALSE
  BY DEF Answered, OnWire
<1> DEFINE c == call[q]["main"]
<1>1. Alive(q)'
  BY Distinct DEF Fence, Fenced, Stage, OnWire, Alive
<1>2. Exchange(q)' /\ fd'[q] # "closed"
  BY <1>1 DEF Wire, Local, Good
<1>3. Len(ans'[q]) = 1 /\ ans'[q][1] = a /\ ans'[q] # <<>>
  BY Appended DEF Wire, Types
<1>4. For(q, ans[q][1])'
  BY <1>2, <1>3 DEF Exchange, Pending
<1>5. a.by \in Threads
  BY DEF Answers
<1>6. OnWire(q, a.by) /\ a.cmd = Head(call[q][a.by].todo)
  BY <1>3, <1>4 DEF For, OnWire
<1>7. a.by = "main"
  BY <1>2, <1>5, <1>6, Distinct DEF Exchange, OnWire
<1>8. c \in CallRec /\ Busy(c) /\ BarrierTodo(c) /\ c.at \in {"read", "body"}
  BY CallType, Distinct DEF Wire, Fence, Fenced, OnWire
<1>9. Head(c.todo) = "barrier"
  BY <1>8, BarrierHead
<1> QED  BY <1>6, <1>7, <1>9

\* What the manager does for rank q, whose client does nothing meanwhile.
LEMMA ManagerKeeps ==
    ASSUME Wire, Wire', Fence, ~world.lazy, NEW q \in Ranks, UNCHANGED <<clientVars, history>>,
           pm'.up => pm.up, InReq(q)' => InReq(q),
           \A j, k \in 1 .. Len(req'[q]) :
              req'[q][j].cmd = "barrier" /\ req'[q][k].cmd = "barrier" => j = k,
           ~(InReq(q)' /\ InPm(q)'), InPm(q)' => InReq(q) \/ InPm(q),
           NEW k \in {0, 1}, k = 1 => (InReq(q) \/ InPm(q)) /\ ~(InReq(q)' \/ InPm(q)'),
           k = 0 /\ Good(q)' => (Answered(q)' => Answered(q))
    PROVE  Keeps(q, k)
<1>1. /\ UNCHANGED <<world, fd, inited, phase, mutex, stream, call, mixed, entered, left, pub>>
  BY DEF clientVars, history
<1>2. /\ Fenced(q) /\ Slack(q) \in Int /\ Slack(q) >= 0 /\ Completed(q) \in Nat
      /\ entered[q] \in Nat /\ left[q] \in Nat
  BY CountTypes DEF Wire, Fence, Fenced
<1>3. /\ Before(q)' <=> Before(q)
      /\ OnWire(q, "main")' <=> OnWire(q, "main")
      /\ Good(q)' => Good(q)
  BY <1>1 DEF Before, OnWire, Good
<1>4. Once(q)'
  BY <1>2, <1>3 DEF Once, Fenced
<1>5. Held(q)'
  BY <1>1, <1>2, <1>3 DEF Held, Fenced
<1>6. Stage(q)'
  BY <1>1, <1>2 DEF Stage, Fenced, Alive, InCall, InitOp
<1>7. \A t \in Threads : BarrierTodo(call[q][t])'
  BY <1>1, <1>2 DEF BarrierTodo, Fenced
<1>8. Slack(q)' >= Slack(q) + k /\ Slack(q)' \in Int
  <2>1. /\ Out(q)' => Out(q)
        /\ k = 1 => Out(q) /\ ~Out(q)'
    BY <1>2, <1>3 DEF Out, Fenced, Once
  <2> QED  BY <1>1, <1>2, <2>1 DEF Slack
<1>9. Good(q)' => Completed(q)' <= Completed(q) + k
  BY <1>1, <1>2 DEF Completed
<1> QED  BY <1>2, <1>3, <1>4, <1>5, <1>6, <1>7, <1>8, <1>9 DEF Keeps, Fenced

\* A barrier request completes the barrier or waits.
LEMMA CollectBarrier ==
    ASSUME Types, NEW r \in Ranks, NEW m \in Requests, Collect(r, m), m.cmd = "barrier", ~pm.lazy
    PROVE  /\ pm'.up = pm.up /\ pm'.lazy = pm.lazy
           /\ \/ \A q \in Ranks : pm'.in[q] = None /\ (q # r => InPm(q))
              \/ /\ ans' = ans /\ pm'.in[r] = m
                 /\ \A q \in Ranks \ {r} : pm'.in[q] = pm.in[q]
<1> DEFINE in == [pm.in EXCEPT ![r] = m]
           all == \A q \in Ranks : in[q] # None /\ in[q].cmd = m.cmd
           early == pm.lazy /\ m.cmd = "barrier"
           first == {q \in Ranks : q = r \/ (all /\ ~early)}
<1>1. /\ pm' = IF all THEN [pm EXCEPT !.in = [q \in Ranks |-> None],
                                      !.due = {k \in Keys : pm.kvs[k] # 0}]
                      ELSE [pm EXCEPT !.in = in]
      /\ ~all => ans' = ans
  BY DEF Collect
<1>2. pm \in Managers
  BY DEF Types
<1>3. /\ in[r] = m /\ \A q \in Ranks \ {r} : in[q] = pm.in[q]
  BY <1>2 DEF Managers
<1>4. CASE all
  <2>1. pm' = [pm EXCEPT !.in = [q \in Ranks |-> None], !.due = {k \in Keys : pm.kvs[k] # 0}]
    BY <1>1, <1>4
  <2>2. \A q \in Ranks \ {r} : InPm(q)
    BY <1>3, <1>4 DEF InPm
  <2> QED  BY <1>2, <2>1, <2>2 DEF Managers
<1>5. CASE ~all
  <2>1. pm' = [pm EXCEPT !.in = in] /\ ans' = ans
    BY <1>1, <1>5
  <2> HIDE DEF in
  <2> QED  BY <1>2, <1>3, <2>1 DEF Managers
<1> QED  BY <1>4, <1>5

\* The manager serves a request: the last barrier request of a round
\* completes a barrier for every rank, and every rank has entered it.
LEMMA ServeKeepsFence ==
    ASSUME Wire, Wire', Fence, ~world.lazy, NEW r \in Ranks, Serve(r),
           UNCHANGED <<clientVars, history>>
    PROVE  Fence'
<1>1. /\ Types /\ Types' /\ ~pm.lazy /\ pm \in Managers /\ \A q \in Ranks : Fenced(q)
  BY DEF Wire, Fence, Types
<1>2. PICK i \in 1 .. Len(req[r]), m \in Requests :
         /\ m = req[r][i] /\ Serving(r, i)
         /\ \/ TakeLine(r, m)
            \/ r \notin pm.mid /\ Collect(r, m)
            \/ /\ r \notin pm.mid /\ m.cmd \notin Collective \cup {"spawn-part"}
               /\ \E a \in Answers : Responds(r, m, a)
  BY <1>1, ServeEffect
<1>3. /\ UNCHANGED <<world, fd, inited, phase, mutex, stream, call, mixed, entered, left, pub>>
      /\ req' = [req EXCEPT ![r] = RemoveAt(@, i)] /\ pm.up /\ Servable(r, m)
  BY <1>2 DEF clientVars, history, Serving
<1>4. /\ \A q \in Ranks \ {r} : req'[q] = req[q]
      /\ \A q \in Ranks : InReq(q)' => InReq(q)
      /\ m.cmd = "barrier" => InReq(r) /\ ~InReq(r)'
      /\ \A q \in Ranks : \A j, k \in 1 .. Len(req'[q]) :
            req'[q][j].cmd = "barrier" /\ req'[q][k].cmd = "barrier" => j = k
  <2>1. Once(r) /\ \A q \in Ranks : Once(q)
    BY <1>1 DEF Fenced
  <2>2. /\ \A q \in Ranks \ {r} : req'[q] = req[q]
        /\ InReq(r)' => InReq(r)
        /\ m.cmd = "barrier" => InReq(r) /\ ~InReq(r)'
        /\ \A j, k \in 1 .. Len(req'[r]) :
              req'[r][j].cmd = "barrier" /\ req'[r][k].cmd = "barrier" => j = k
    BY <1>1, <1>2, <1>3, <2>1, RemovedReq
  <2>3. \A q \in Ranks \ {r} : InReq(q)' <=> InReq(q)
    BY <2>2 DEF InReq
  <2>4. ASSUME NEW q \in Ranks \ {r}
        PROVE  \A j, k \in 1 .. Len(req'[q]) :
                  req'[q][j].cmd = "barrier" /\ req'[q][k].cmd = "barrier" => j = k
    BY <2>1, <2>2 DEF Once
  <2> QED  BY <2>2, <2>3, <2>4
<1>5. \A q \in Ranks : ~(InReq(q) /\ InPm(q)) /\ (InReq(q) => ~Before(q))
  BY <1>1 DEF Fenced, Once
<1>6. ASSUME pm'.up = pm.up, pm'.lazy = pm.lazy,
             \A q \in Ranks : /\ InPm(q)' => InPm(q)
                              /\ Good(q)' => (Answered(q)' => Answered(q))
      PROVE  Fence'
  <2>1. ASSUME NEW q \in Ranks  PROVE Keeps(q, 0)
    BY <1>4, <1>5, <1>6, ManagerKeeps
  <2> QED  BY <1>1, <1>3, <1>6, <2>1, KeepsFence
<1>7. CASE TakeLine(r, m)
  <2>1. pm' = [pm EXCEPT !.mid = @ \cup {r}] /\ UNCHANGED ans
    BY <1>7 DEF TakeLine
  <2>2. pm'.up = pm.up /\ pm'.lazy = pm.lazy /\ pm'.in = pm.in
    BY <1>1, <2>1 DEF Managers
  <2>3. ASSUME NEW q \in Ranks  PROVE (InPm(q)' <=> InPm(q)) /\ (Answered(q)' <=> Answered(q))
    BY <1>3, <2>1, <2>2 DEF InPm, Answered, OnWire
  <2> QED  BY <1>6, <2>2, <2>3
<1>8. ASSUME m.cmd \notin Collective, NEW a \in Answers, Responds(r, m, a)
      PROVE  Fence'
  <2>1. /\ a.cmd = m.cmd /\ ans' = [ans EXCEPT ![r] = Append(@, a)]
        /\ pm'.up = pm.up /\ pm'.lazy = pm.lazy /\ pm'.in = pm.in
    BY <1>8 DEF Responds
  <2>2. a.cmd # "barrier"
    BY <1>8, <2>1 DEF Collective
  <2>3. ans'[r] = Append(ans[r], a) /\ \A q \in Ranks \ {r} : ans'[q] = ans[q]
    BY <1>1, <2>1 DEF Types
  <2>4. ASSUME NEW q \in Ranks
        PROVE  (InPm(q)' => InPm(q)) /\ (Good(q)' => (Answered(q)' => Answered(q)))
    <3>1. InPm(q)' <=> InPm(q)
      BY <2>1 DEF InPm
    <3>2. CASE q = r
      BY <1>3, <2>2, <2>3, <3>1, <3>2, OtherAnswer
    <3>3. CASE q # r
      BY <1>3, <2>3, <3>1, <3>3 DEF Answered, OnWire
    <3> QED  BY <3>2, <3>3
  <2> QED  BY <1>6, <2>1, <2>4
<1>9. CASE m.cmd = "ring" /\ Collect(r, m)
  <2>1. /\ pm'.up = pm.up /\ pm'.lazy = pm.lazy
        /\ \A q \in Ranks : Collected(r, m, q)
    BY <1>1, <1>9, CollectEffect
  <2>2. ASSUME NEW q \in Ranks
        PROVE  (InPm(q)' => InPm(q)) /\ (Good(q)' => (Answered(q)' => Answered(q)))
    <3>1. pm'.in[q] \in {pm.in[q], None, m}
      BY <2>1 DEF Collected
    <3>2. InPm(q)' => InPm(q)
      BY <1>9, <3>1 DEF InPm
    <3>3. \/ ans'[q] = ans[q]
          \/ \E n \in Requests : n.cmd = "ring" /\ ans'[q] = Append(ans[q], Answer(n, 0, 0))
      <4>1. pm.in[q] # None => pm.in[q] \in Requests
        BY <1>1, Messages
      <4> QED  BY <1>9, <2>1, <4>1 DEF Collected
    <3>4. CASE ans'[q] = ans[q]
      BY <1>3, <3>2, <3>4 DEF Answered, OnWire
    <3>5. ASSUME NEW n \in Requests, n.cmd = "ring", ans'[q] = Append(ans[q], Answer(n, 0, 0))
          PROVE  Good(q)' => (Answered(q)' => Answered(q))
      <4> DEFINE a == Answer(n, 0, 0)
      <4>1. a \in Answers /\ a.cmd = n.cmd
        BY DEF Answer, Answers, Requests
      <4>2. a.cmd # "barrier" /\ ans'[q] = Append(ans[q], a)
        BY <3>5, <4>1
      <4> HIDE DEF a
      <4> QED  BY <1>3, <4>1, <4>2, OtherAnswer
    <3> QED  BY <3>2, <3>3, <3>4, <3>5
  <2> QED  BY <1>6, <2>1, <2>2
<1>10. CASE m.cmd = "barrier" /\ r \notin pm.mid /\ Collect(r, m)
  <2>1. /\ pm'.up = pm.up /\ pm'.lazy = pm.lazy
        /\ \/ \A q \in Ranks : pm'.in[q] = None /\ (q # r => InPm(q))
           \/ /\ ans' = ans /\ pm'.in[r] = m
              /\ \A q \in Ranks \ {r} : pm'.in[q] = pm.in[q]
    BY <1>1, <1>10, CollectBarrier
  <2>2. CASE \A q \in Ranks : pm'.in[q] = None /\ (q # r => InPm(q))
    <3>1. ASSUME NEW q \in Ranks  PROVE Keeps(q, 1)
      <4>1. ~InPm(q)' /\ (InReq(q) \/ InPm(q)) /\ ~InReq(q)'
        BY <1>4, <1>5, <1>10, <2>2 DEF InPm
      <4> QED  BY <1>4, <2>1, <4>1, ManagerKeeps
    <3> QED  BY <1>1, <1>3, <2>1, <3>1, KeepsFence
  <2>3. CASE /\ ans' = ans /\ pm'.in[r] = m
             /\ \A q \in Ranks \ {r} : pm'.in[q] = pm.in[q]
    <3>1. ASSUME NEW q \in Ranks  PROVE Keeps(q, 0)
      <4>1. Answered(q)' <=> Answered(q)
        BY <1>3, <2>3 DEF Answered, OnWire
      <4>2. InPm(q)' => InPm(q) \/ (q = r /\ InReq(q) /\ ~InReq(q)')
        BY <1>4, <1>10, <2>3 DEF InPm
      <4>3. ~(InReq(q)' /\ InPm(q)')
        BY <1>4, <1>5, <4>2
      <4> QED  BY <1>4, <2>1, <4>1, <4>2, <4>3, ManagerKeeps
    <3> QED  BY <1>1, <1>3, <2>1, <3>1, KeepsFence
  <2> QED  BY <2>1, <2>2, <2>3
<1>11. Collect(r, m) => m.cmd \in {"barrier", "ring"}
  BY DEF Collect, Collective
<1> QED  BY <1>2, <1>7, <1>8, <1>9, <1>10, <1>11

\* The manager kills the processes of a job that one of them has aborted.
LEMMA KillKeepsFence ==
    ASSUME Wire, Wire', Fence, ~world.lazy, NEW r \in Ranks, Kill(r)
    PROVE  Fence'
<1>1. /\ req' = [q \in Ranks |-> <<>>]
      /\ phase' = [q \in Ranks |-> "killed"]
      /\ call' = [q \in Ranks |-> [t \in Threads |-> Idle]]
      /\ UNCHANGED <<world, fd, inited, mutex, stream, mixed, entered, left, pub, pm, ans>>
  BY DEF Kill, history
<1>2. ASSUME NEW q \in Ranks  PROVE Keeps(q, 0)
  <2>1. /\ \A u \in Threads : call'[q][u] = Idle
        /\ phase'[q] = "killed" /\ req'[q] = <<>>
    BY <1>1
  <2> QED  BY <1>1, <2>1, EndKeepsFence
<1> QED  BY <1>1, <1>2, KeepsFence DEF Wire

\* The manager dies: no rank is Good any more.
LEMMA DieKeepsFence ==
    ASSUME Wire, Wire', Fence, ~world.lazy, Die, UNCHANGED <<clientVars, history>>
    PROVE  Fence'
<1>1. /\ UNCHANGED <<world, fd, inited, phase, mutex, stream, call, mixed, entered, left, pub>>
      /\ UNCHANGED ans /\ req' = [r \in Ranks |-> <<>>]
  BY DEF clientVars, history, Die
<1>2. /\ pm'.up = FALSE /\ pm'.lazy = pm.lazy /\ \A q \in Ranks : pm'.in[q] = None
  <2>1. pm.lazy \in BOOLEAN
    BY DEF Wire, Types, Managers
  <2> QED  BY <2>1, ManagerType DEF Die
<1>3. ASSUME NEW q \in Ranks  PROVE Keeps(q, 0)
  <2>1. ~InReq(q)' /\ ~InPm(q)' /\ ~Good(q)' /\ req'[q] = <<>>
    BY <1>1, <1>2 DEF InReq, InPm, Good
  <2> QED  BY <1>2, <2>1, ManagerKeeps
<1> QED  BY <1>1, <1>2, <1>3, KeepsFence DEF Wire

\* Nobody has entered a barrier.
LEMMA InitFence == Init => Fence
<1> SUFFICES ASSUME Init PROVE Fence
  OBVIOUS
<1>1. PICK w \in Worlds : world = w /\ ManagerInit(w.lazy)
  BY DEF Init
<1>2. pm.lazy = world.lazy /\ \A r \in Ranks : pm.in[r] = None
  <2>1. w.lazy \in BOOLEAN
    BY DEF Worlds
  <2> QED  BY <1>1, <2>1, ManagerType DEF ManagerInit
<1>3. \A r \in Ranks : /\ req[r] = <<>> /\ entered[r] = 0 /\ left[r] = 0 /\ fd[r] = "none"
                       /\ phase[r] = "new" /\ \A t \in Threads : call[r][t] = Idle
  BY <1>1 DEF ManagerInit, Init, WireInit
<1>4. ASSUME NEW q \in Ranks  PROVE Fenced(q) /\ Slack(q) = 0 /\ Completed(q) = 0
  <2>1. \A t \in Threads : call[q][t].at = "idle" /\ call[q][t].todo = <<>> /\ call[q][t].res = "ok"
    BY <1>3 DEF Idle
  <2>2. ~InReq(q) /\ ~InPm(q) /\ ~Before(q) /\ ~Answered(q)
    BY <1>2, <1>3, <2>1, Distinct DEF InReq, InPm, Before, Answered, OnWire
  <2>3. Slack(q) = 0 /\ Completed(q) = 0
    BY <1>3, <2>2 DEF Slack, Completed, Out
  <2>4. Once(q) /\ Held(q) /\ Stage(q)
    BY <1>3, <2>1, <2>2, Distinct DEF Once, Held, Stage, InCall, Alive
  <2>5. \A t \in Threads : BarrierTodo(call[q][t])
    BY <2>1, BarrierTodos DEF BarrierTodo
  <2> QED  BY <2>3, <2>4, <2>5 DEF Fenced
<1> QED  BY <1>2, <1>4 DEF Fence

\* Every step of the job keeps the invariant.
LEMMA NextFence == Wire /\ Wire' /\ Fence /\ Next => Fence'
<1> SUFFICES ASSUME Wire, Wire', Fence, Next PROVE Fence'
  OBVIOUS
<1>1. ASSUME NEW r \in Ranks, WrapperCall(r) \/ \E t \in Threads : OtherCall(r, t)
      PROVE  Begins(r) /\ r \notin mixed
  BY <1>1, CallsBegin DEF Wire
<1>m. ASSUME NEW r \in Ranks, Mpiexec(r)  PROVE FALSE
  BY <1>m, NoSingleton DEF Mpiexec
<1>2. CASE ~world.lazy
  <2>1. ASSUME NEW r \in Ranks, WrapperCall(r) \/ \E t \in Threads : OtherCall(r, t)
        PROVE  Fence'
    <3>1. PICK t \in Threads, op \in Ops, todo \in Seq(Cmds), key \in Keys, val \in Nat,
               first \in {"lock", "write"}, conn \in {"none", "open", "closed"} :
                  Entry(r, t, op, todo, key, val, first, conn)
      BY <1>1, <2>1 DEF Begins
    <3> QED  BY <1>1, <1>2, <2>1, <3>1, EntryKeepsFence DEF Wire
  <2>2. ASSUME NEW r \in Ranks, NEW t \in Threads, Step(r, t)
        PROVE  Fence'
    <3>1. CASE world.api = "pmi1" /\ t = "main" /\ Step1(r)
      <4>1. GetResponse(r) => Fence'
        BY <1>2, <3>1, GetResponseReads, ReadStepKeepsFence
      <4> QED  BY <1>2, <3>1, <4>1, WritelineKeepsFence, SpawnKeepsFence, ReturnKeepsFence,
                  NoSingleton DEF Step1
    <3>2. CASE world.api = "pmi2" /\ Step2(r, t)
      <4>1. ReadLength(r, t) \/ ReadBody(r, t) \/ ReadFails(r, t) => Fence'
        BY <1>2, ReadLengthReads, ReadBodyReads, ReadFailsReads, ReadStepKeepsFence
      <4> QED  BY <1>2, <3>2, <4>1, LockKeepsFence, WriteKeepsFence, ReturnKeepsFence DEF Step2
    <3>3. CASE Sigpipe(r, t)
      BY <1>2, <3>3, SigpipeKeepsFence
    <3> QED  BY <2>2, <3>1, <3>2, <3>3 DEF Step
  <2>3. ASSUME NEW r \in Ranks, Manages(r)  PROVE Fence'
    <3>1. CASE Serve(r) /\ UNCHANGED <<clientVars, history, others>>
      BY <1>2, <3>1, ServeKeepsFence
    <3>2. CASE Kill(r)
      BY <1>2, <3>2, KillKeepsFence
    <3> QED  BY <2>3, <3>1, <3>2 DEF Manages
  <2>4. CASE ManagerDies
    BY <1>2, <2>4, DieKeepsFence DEF ManagerDies
  <2> QED  BY <1>m, <2>1, <2>2, <2>3, <2>4 DEF Next
<1>3. CASE world.lazy
  <2>1. world' = world /\ pm'.lazy = pm.lazy
    <3>1. ASSUME NEW r \in Ranks, Begins(r)  PROVE world' = world /\ pm' = pm
      BY <3>1 DEF Begins, Entry, Enter, managerVars
    <3>2. ASSUME NEW r \in Ranks, NEW t \in Threads, Step(r, t)
          PROVE  world' = world /\ pm' = pm
      BY <3>2, NoSingleton DEF Step, Step1, Step2, PMIU_writeline, SpawnGivesUp, GetResponse, Return1,
                  Return2, Leave, pthread_mutex_lock, PMIi_WriteSimpleCommand, ReadLength,
                  ReadBody, ReadFails, Sigpipe, Exits, managerVars
    <3>3. ASSUME NEW r \in Ranks, Serve(r)  PROVE pm'.lazy = pm.lazy
      <4>1. Types /\ pm \in Managers
        BY DEF Wire, Types
      <4>2. PICK i \in 1 .. Len(req[r]), m \in Requests :
               /\ m = req[r][i] /\ Serving(r, i)
               /\ \/ TakeLine(r, m)
                  \/ r \notin pm.mid /\ Collect(r, m)
                  \/ /\ r \notin pm.mid /\ m.cmd \notin Collective \cup {"spawn-part"}
                     /\ \E a \in Answers : Responds(r, m, a)
        BY <3>3, <4>1, ServeEffect
      <4>3. TakeLine(r, m) => pm'.lazy = pm.lazy
        BY <4>1 DEF TakeLine, Managers
      <4>4. Collect(r, m) => pm'.lazy = pm.lazy
        BY <4>1, CollectEffect
      <4> QED  BY <4>2, <4>3, <4>4 DEF Responds
    <3>4. Die => pm'.lazy = pm.lazy
      <4>1. pm.lazy \in BOOLEAN
        BY DEF Wire, Types, Managers
      <4> QED  BY <4>1, ManagerType DEF Die
    <3> QED  BY <1>1, <1>m, <3>1, <3>2, <3>3, <3>4
             DEF Next, Manages, ManagerDies, Kill, clientVars
  <2> QED  BY <1>3, <2>1 DEF Fence
<1> QED  BY <1>2, <1>3

\* A step that changes nothing.
LEMMA StutterFence == Wire /\ Fence /\ UNCHANGED vars => Fence'
<1> SUFFICES ASSUME Wire, Fence, UNCHANGED vars PROVE Fence'
  OBVIOUS
<1>1. /\ UNCHANGED <<world, fd, inited, phase, mutex, stream, call, mixed, entered, left, pub>>
      /\ UNCHANGED <<pm, req, ans, others>>
  BY DEF vars, managerVars, clientVars, history
<1>2. Types /\ Types'
  BY <1>1 DEF Wire, Types, TypeOK
<1>3. ASSUME NEW q \in Ranks, ~world.lazy  PROVE Keeps(q, 0)
  <2>1. Same(q)
    BY <1>1 DEF Same
  <2> QED  BY <1>1, <1>2, <1>3, <2>1, SameKeeps
<1>4. CASE ~world.lazy
  BY <1>1, <1>2, <1>3, <1>4, KeepsFence
<1>5. CASE world.lazy
  BY <1>1, <1>5 DEF Fence
<1> QED  BY <1>4, <1>5

\* The barrier's invariant holds in every behaviour of the job.
THEOREM FenceInvariant == Spec => []((Wire /\ Fence) \/ Apart)
<1>1. Init => (Wire /\ Fence) \/ Apart
  BY InitWire, InitFence, InitApart
<1>2. ((Wire /\ Fence) \/ Apart) /\ [Next]_vars => ((Wire /\ Fence) \/ Apart)'
  BY NextWire, StutterWire, NextFence, StutterFence, NextApart
<1> QED  BY <1>1, <1>2, PTL DEF Spec

\* No rank leaves lcm_pm_barrier before every rank has entered it, while
\* the manager lives and is reached, the fences are not lazy, and no lock-free
\* function took the answer of another thread on that rank.
THEOREM BarriersHold == Spec => []BarrierHolds
<1>1. Wire /\ Fence => BarrierHolds
  <2> SUFFICES ASSUME Wire, Fence, ~world.lazy, NEW r \in Ranks, NEW q \in Ranks, Good(r)
               PROVE  left[r] <= entered[q]
    BY DEF BarrierHolds, Good
  <2>1. left[r] <= Completed(r) /\ Slack(q) <= entered[q]
    <3>1. left[r] \in Nat /\ entered[q] \in Nat
      BY CountTypes DEF Wire
    <3> QED  BY <3>1 DEF Completed, Slack
  <2>2. Completed(r) <= Slack(q)
    BY DEF Fence
  <2>3. /\ left[r] \in Nat /\ entered[q] \in Nat /\ Completed(r) \in Nat /\ Slack(q) \in Int
    BY CountTypes DEF Wire
  <2> QED  BY <2>1, <2>2, <2>3
<1>2. Apart => BarrierHolds
  BY ApartHolds
<1> QED  BY <1>1, <1>2, FenceInvariant, PTL

-----------------------------------------------------------------------------
(***************************************************************************)
(* Names, and the reasons of failures, for every number of ranks, keys and *)
(* barriers: a lookup after the barrier finds what was published before    *)
(* it, and a call fails only for a reason outside the library.             *)
(*                                                                         *)
(* A value travels from the publisher's call through its request and the   *)
(* manager's store to an answer in the reader's call, and between the two  *)
(* lies a round of the barrier that makes the manager owe it to everyone.  *)
(* The invariant Names follows it. A request and an answer on the way      *)
(* carry what their call asked for; what a rank has published is in the    *)
(* store, because only that rank puts under its key and it does so once;   *)
(* and when a rank has its first barrier behind it and the manager does    *)
(* not hold it back (a lazy fence), every rank has published and the       *)
(* manager owes all that was published. Unlike Fence it covers the lazy    *)
(* manager too.                                                            *)
(***************************************************************************)

\* What a rank can have done in each phase of its life.
Life(r) ==
    /\ phase[r] = "new" => entered[r] = 0
    /\ fd[r] = "closed" => phase[r] \in {"final", "killed"}
    /\ fd[r] = "open" => world.env # "none"
    /\ world.env = "fd" /\ (phase[r] = "ready" \/ InCall(r, "main")) => fd[r] = "open"
    /\ world.api = "pmi1" /\ phase[r] = "ready" /\ pm.up /\ fd[r] = "open" => inited[r] = "pm"
    /\ phase[r] \in {"final", "killed"} => \A t \in Threads : ~InCall(r, t)
    /\ \A t \in Threads : InCall(r, t) /\ call[r][t].op = InitOp => phase[r] = "new"
    /\ InCall(r, "helper") =>
          /\ entered[r] >= 1 /\ call[r]["helper"].op # FinalOp
          /\ ~(InCall(r, "main") /\ call[r]["main"].op = FinalOp)

\* The commands a call has left.
Commands(c) ==
    CASE c.op \in Barriers     -> c.todo \in {<<>>, <<"barrier">>}
      [] c.op \in Publications -> c.todo \in {<<>>, <<"put">>, <<"my_kvsname", "put">>}
      [] c.op \in Gets         -> c.todo \in {<<>>, <<"get">>, <<"my_kvsname", "get">>}
      [] OTHER                 -> c.todo \in Seq(PlainCmds)

\* A rank publishes once, before its first barrier, under its own key; what the
\* manager has acknowledged is in the store.
Published(r) ==
    /\ \A t \in Threads : InCall(r, t) /\ call[r][t].op \in Publications =>
          /\ t = "main" /\ entered[r] = 0 /\ pub[r].at = 0
          /\ ~world.rankless /\ pm.up /\ fd[r] = "open" => call[r][t].key = r
    /\ pub[r].at = 0 => pub[r].val = 0 /\ entered[r] = 0
    /\ r \in mixed => entered[r] >= 1
    /\ pub[r].val # 0 => world.env # "none"
    /\ ~world.rankless /\ pm.up /\ pub[r].val # 0 => pm.kvs[r] = pub[r].val

\* Requests about names carry what their call asks for.
Asked(r) ==
    /\ \A i \in 1 .. Len(req[r]) :
          LET m == req[r][i]
          IN  /\ m.cmd = "put" => entered[r] = 0 /\ Alive(r)
              /\ m.cmd = "barrier" => entered[r] >= 1
              /\ m.cmd \in {"put", "get"} /\ r \notin mixed /\ Alive(r) =>
                    /\ For(r, m)
                    /\ m.key = call[r][m.by].key /\ m.val = call[r][m.by].val
    /\ InPm(r) => entered[r] >= 1

\* What an answer about names says is so; none of them is a refusal but that
\* of a put.
Told(r) ==
    r \notin mixed /\ Alive(r) /\ fd[r] = "open" /\ ans[r] # <<>> =>
        LET a == ans[r][1]
            c == call[r][a.by]
        IN  /\ a.cmd = "put" /\ a.rc = 0 /\ pm.up /\ ~world.rankless => pm.kvs[r] = c.val
            /\ a.cmd = "get" /\ c.due # 0 /\ ~world.rankless => a.val = c.due
            /\ a.cmd \in {"get", "my_kvsname"} => a.rc = 0

\* Call c of rank r has failed for a reason, or has what it asked for.
Justified(r, c) ==
    /\ c.res \in {"lost", "unready"} => ~pm.up \/ fd[r] = "none"
    /\ c.res # "wrong"
    /\ c.res = "absent" => c.op \in Gets /\ (c.due = 0 \/ world.rankless)
    /\ c.op \in Gets /\ c.due # 0 /\ ~world.rankless =>
          /\ c.res # "ok" => ~pm.up \/ fd[r] = "none"
          /\ c.res = "ok" /\ c.todo = <<>> => c.got = MPIU_Strncpy(c.due)
    /\ c.op \in Publications /\ c.res = "ok" /\ c.todo = <<>> /\ fd[r] = "open" /\ pm.up
          /\ ~world.rankless => pm.kvs[r] = c.val

\* What a call expects was published, and its rank has left a barrier.
Expects(r, c) ==
    c.due # 0 => c.key \in Ranks /\ pub[c.key].val = c.due /\ left[r] >= 1

\* Rank r's part of the invariant.
Named(r) ==
    /\ Life(r) /\ Published(r) /\ Asked(r) /\ Told(r)
    /\ \A t \in Threads :
          /\ Commands(call[r][t])
          /\ InCall(r, t) => Expects(r, call[r][t])
          /\ InCall(r, t) /\ r \notin mixed => Justified(r, call[r][t])

\* Rank r has a barrier behind it, and the manager does not hold it back.
Through(r) == Good(r) /\ ~InPm(r) /\ (left[r] >= 1 \/ Answered(r))

\* All ranks have published, and the manager owes what they have published.
Owed == \A k \in Ranks : pub[k].at # 0 /\ (pub[k].val # 0 => k \in pm.due)

\* The invariant.
Names ==
    /\ \A r \in Ranks : Named(r)
    /\ ~world.rankless => \A r \in Ranks : Through(r) => Owed

-----------------------------------------------------------------------------
\* The functions are of different kinds.
LEMMA Kinds ==
    /\ Barriers \cap Publications = {} /\ Barriers \cap Gets = {} /\ Publications \cap Gets = {}
    /\ {"PMI_Init", "PMI2_Init", "PMI_Finalize", "PMI2_Finalize", "PMI2_Abort"}
          \cap (Barriers \cup Publications \cup Gets) = {}
BY DEF Barriers, Publications, Gets

\* A rank nothing happens to keeps its part.
LEMMA NamedFrame ==
    ASSUME Types, NEW q \in Ranks, Named(q), Same(q), inited'[q] = inited[q],
           pub'[q] = pub[q], UNCHANGED world, pm'.up = pm.up,
           ~world.rankless => pm'.kvs[q] = pm.kvs[q],
           \A k \in Ranks : pub[k].val # 0 => pub'[k] = pub[k]
    PROVE  Named(q)'
<1>1. "main" \in Threads /\ "helper" \in Threads
  BY DEF Threads
<1>2. Life(q)'
  BY <1>1 DEF Named, Life, Same, InCall, InitOp, FinalOp
<1>3. Published(q)'
  BY DEF Named, Published, Same, InCall
<1>4. Asked(q)'
  BY DEF Named, Asked, Same, For, OnWire, Alive, InPm
<1>5. Told(q)'
  BY DEF Named, Told, Same, Alive
<1>6. ASSUME NEW t \in Threads
      PROVE  /\ Commands(call'[q][t])
             /\ InCall(q, t)' => Expects(q, call[q][t])'
             /\ InCall(q, t)' /\ q \notin mixed' => Justified(q, call[q][t])'
  <2>1. /\ Commands(call[q][t])
        /\ InCall(q, t) => Expects(q, call[q][t])
        /\ InCall(q, t) /\ q \notin mixed => Justified(q, call[q][t])
    BY DEF Named
  <2>2. call'[q][t] = call[q][t] /\ (InCall(q, t)' <=> InCall(q, t))
    BY DEF Same, InCall
  <2>3. Commands(call'[q][t])
    BY <2>1, <2>2
  <2>4. InCall(q, t)' => Expects(q, call[q][t])'
    BY <2>1, <2>2 DEF Expects, Same
  <2>5. InCall(q, t)' /\ q \notin mixed' => Justified(q, call[q][t])'
    BY <2>1, <2>2 DEF Justified, Same
  <2> QED  BY <2>3, <2>4, <2>5
<1> QED  BY <1>2, <1>3, <1>4, <1>5, <1>6 DEF Named, Commands

\* A step of one rank's client.
LEMMA NamesElsewhere ==
    ASSUME Wire, Names, NEW r \in Ranks, Named(r)',
           \A q \in Ranks \ {r} : Same(q) /\ inited'[q] = inited[q] /\ pub'[q] = pub[q],
           UNCHANGED <<world, pm>>, Through(r)' => Through(r),
           pub[r].at # 0 => pub'[r] = pub[r]
    PROVE  Names'
<1>1. /\ Types /\ \A q \in Ranks : Named(q)
      /\ \A k \in Ranks : pub[k].at = 0 => pub[k].val = 0
  BY DEF Wire, Names, Named, Published
<1>2. ASSUME NEW q \in Ranks \ {r}  PROVE Named(q)' /\ (Through(q)' <=> Through(q))
  <2>1. Named(q)'
    BY <1>1, <1>2, NamedFrame
  <2>2. Through(q)' <=> Through(q)
    BY <1>2 DEF Through, Good, InPm, Answered, OnWire, Same
  <2> QED  BY <2>1, <2>2
<1>3. ASSUME ~world.rankless, NEW q \in Ranks, Through(q)'  PROVE Owed'
  <2>1. Through(q)
    BY <1>2, <1>3
  <2>2. Owed
    BY <1>3, <2>1 DEF Names
  <2>3. \A k \in Ranks : pub'[k] = pub[k]
    BY <2>2 DEF Owed
  <2> QED  BY <2>2, <2>3 DEF Owed
<1> QED  BY <1>2, <1>3 DEF Names

\* Requests that are still on the way when a call moves on, begins or ends.
LEMMA AskedKept ==
    ASSUME Types, NEW r \in Ranks, NEW t \in Threads, Asked(r),
           \A u \in Threads \ {t} : call'[r][u] = call[r][u],
           OnWire(r, t) =>
              \/ OnWire(r, t)' /\ call'[r][t].todo = call[r][t].todo
                 /\ call'[r][t].key = call[r][t].key /\ call'[r][t].val = call[r][t].val
              \/ r \in mixed \/ req[r] = <<>>,
           req'[r] = req[r], UNCHANGED pm, mixed \subseteq mixed',
           Alive(r)' <=> Alive(r), entered'[r] \in Nat, entered'[r] >= entered[r],
           (\E i \in 1 .. Len(req[r]) : req[r][i].cmd = "put") => entered'[r] = entered[r]
    PROVE  Asked(r)'
<1>1. req[r] \in Seq(Requests) /\ entered[r] \in Nat
  BY CountTypes DEF Types
<1>2. InPm(r)' => entered'[r] >= 1
  BY <1>1 DEF Asked, InPm
<1>3. ASSUME NEW i \in 1 .. Len(req[r]), NEW m \in Requests, m = req[r][i]
      PROVE  /\ m.cmd = "put" => entered'[r] = 0 /\ Alive(r)'
             /\ m.cmd = "barrier" => entered'[r] >= 1
             /\ m.cmd \in {"put", "get"} /\ r \notin mixed' /\ Alive(r)' =>
                   /\ For(r, m)'
                   /\ m.key = call'[r][m.by].key /\ m.val = call'[r][m.by].val
  <2>1. /\ m.cmd = "put" => entered[r] = 0 /\ Alive(r)
        /\ m.cmd = "barrier" => entered[r] >= 1
        /\ m.cmd \in {"put", "get"} /\ r \notin mixed /\ Alive(r) =>
              /\ For(r, m)
              /\ m.key = call[r][m.by].key /\ m.val = call[r][m.by].val
    BY <1>3 DEF Asked
  <2>2. m.cmd = "put" => entered'[r] = 0
    BY <1>3, <2>1
  <2>3. m.cmd = "barrier" => entered'[r] >= 1
    BY <1>1, <2>1
  <2>4. m.by \in Threads /\ req[r] # <<>>
    BY <1>1, <1>3, EmptySeq DEF Requests
  <2>5. ASSUME For(r, m), r \notin mixed
        PROVE  For(r, m)' /\ call'[r][m.by].key = call[r][m.by].key
                 /\ call'[r][m.by].val = call[r][m.by].val
    <3>1. CASE m.by = t
      BY <2>4, <2>5, <3>1 DEF For
    <3>2. CASE m.by # t
      BY <2>4, <2>5, <3>2 DEF For, OnWire
    <3> QED  BY <3>1, <3>2
  <2> QED  BY <2>1, <2>2, <2>3, <2>5
<1>4. \A i \in 1 .. Len(req[r]) : req[r][i] \in Requests
  BY <1>1
<1> QED  BY <1>2, <1>3, <1>4 DEF Asked

\* An answer on the way is for a thread that waits for it.
LEMMA AnswerAwaited ==
    ASSUME Wire, NEW r \in Ranks \ mixed, Alive(r), fd[r] # "closed", ans[r] # <<>>
    PROVE  /\ ans[r][1] \in Answers /\ ans[r][1].by \in Threads /\ For(r, ans[r][1])
           /\ Len(ans[r]) = 1 /\ Tail(ans[r]) = <<>> /\ req[r] = <<>>
<1>1. Exchange(r) /\ Types /\ ans[r] \in Seq(Answers)
  BY DEF Wire, Local, Types
<1>2. ans[r][1] \in Answers /\ ans[r][1].by \in Threads
  BY <1>1, Messages DEF Answers
<1>3. Pending(r)
  BY <1>1 DEF Exchange
<1>4. Len(ans[r]) = 1 /\ For(r, ans[r][1]) /\ req[r] = <<>>
  BY <1>3 DEF Pending
<1>5. Tail(ans[r]) = <<>>
  BY <1>1, <1>4, TailOfOne
<1> QED  BY <1>2, <1>4, <1>5

\* Answers that are still on the way when a call moves on, begins or ends.
LEMMA ToldKept ==
    ASSUME Wire, NEW r \in Ranks, NEW t \in Threads, Told(r),
           \A u \in Threads \ {t} : call'[r][u] = call[r][u],
           OnWire(r, t) => /\ call'[r][t].val = call[r][t].val
                           /\ call'[r][t].due = call[r][t].due,
           ans'[r] = ans[r], UNCHANGED <<world, pm>>, mixed \subseteq mixed',
           Alive(r)' => Alive(r), fd'[r] = "open" => fd[r] = "open" \/ ans[r] = <<>>
    PROVE  Told(r)'
<1> SUFFICES ASSUME r \notin mixed, Alive(r), fd[r] = "open", ans[r] # <<>>
             PROVE  Told(r)'
  BY DEF Told
<1>1. ans[r][1].by \in Threads /\ OnWire(r, ans[r][1].by)
  BY AnswerAwaited DEF For
<1>2. /\ call'[r][ans[r][1].by].val = call[r][ans[r][1].by].val
      /\ call'[r][ans[r][1].by].due = call[r][ans[r][1].by].due
  BY <1>1
<1> QED  BY <1>2 DEF Told

\* A step of a call in progress.
LEMMA StepKeepsNames ==
    ASSUME Wire, Names, NEW r \in Ranks, NEW t \in Threads,
           NEW c \in CallRec, Busy(c), call' = [call EXCEPT ![r][t] = c],
           c.op = call[r][t].op, c.key = call[r][t].key, c.due = call[r][t].due,
           c.at # "idle", Alive(r), InCall(r, t), Commands(c),
           UNCHANGED <<world, fd, inited, phase, entered, left, pub, pm>>,
           mixed \subseteq mixed', \A q \in Ranks \ {r} : q \in mixed' <=> q \in mixed,
           r \in mixed' => r \in mixed \/ entered[r] >= 1,
           \A q \in Ranks \ {r} : /\ req'[q] = req[q] /\ ans'[q] = ans[q]
                                  /\ mutex'[q] = mutex[q] /\ stream'[q] = stream[q],
           Asked(r)', Told(r)', r \notin mixed' => Justified(r, c),
           Good(r)' /\ Answered(r)' => Answered(r)
    PROVE  Names'
<1>1. Types /\ Named(r)
  BY DEF Wire, Names
<1>2. /\ call'[r][t] = c
      /\ \A u \in Threads \ {t} : call'[r][u] = call[r][u]
      /\ \A q \in Ranks \ {r} : call'[q] = call[q]
  BY <1>1, CallSet, ZenonT(40)
<1>3. /\ \A u \in Threads : /\ InCall(r, u)' <=> InCall(r, u)
                            /\ call'[r][u].op = call[r][u].op
                            /\ call'[r][u].key = call[r][u].key
                            /\ call'[r][u].due = call[r][u].due
      /\ "main" \in Threads /\ "helper" \in Threads
  BY <1>2 DEF InCall, Threads
<1>4. Life(r)'
  BY <1>1, <1>3 DEF Named, Life, InitOp, FinalOp
<1>5. Published(r)'
  BY <1>1, <1>3 DEF Named, Published
<1>6. ASSUME NEW u \in Threads
      PROVE  /\ Commands(call'[r][u])
             /\ InCall(r, u)' => Expects(r, call[r][u])'
             /\ InCall(r, u)' /\ r \notin mixed' => Justified(r, call[r][u])'
  <2>1. /\ Commands(call[r][u])
        /\ InCall(r, u) => Expects(r, call[r][u])
        /\ InCall(r, u) /\ r \notin mixed => Justified(r, call[r][u])
    BY <1>1 DEF Named
  <2>2. Commands(call'[r][u])
    BY <1>2, <2>1
  <2>3. InCall(r, u)' => Expects(r, call[r][u])'
    BY <1>3, <2>1 DEF Expects
  <2>4. InCall(r, u)' /\ r \notin mixed' => Justified(r, call[r][u])'
    <3>1. \A b : Justified(r, b)' <=> Justified(r, b)
      BY DEF Justified
    <3>2. InCall(r, u)' /\ r \notin mixed' => Justified(r, call'[r][u])
      BY <1>2, <1>3, <2>1
    <3> QED  BY <3>1, <3>2 DEF Justified
  <2> QED  BY <2>2, <2>3, <2>4
<1>7. Named(r)'
  BY <1>4, <1>5, <1>6 DEF Named, Commands
<1>8. \A q \in Ranks \ {r} : Same(q) /\ inited'[q] = inited[q] /\ pub'[q] = pub[q]
  BY <1>2 DEF Same
<1>9. Through(r)' => Through(r)
  <2>1. Good(r)' => Good(r)
    BY DEF Good
  <2>2. InPm(r)' <=> InPm(r)
    BY DEF InPm
  <2> QED  BY <2>1, <2>2 DEF Through
<1> QED  BY <1>7, <1>8, <1>9, NamesElsewhere

-----------------------------------------------------------------------------
\* What the sequence of a function's commands says of the one in progress.
LEMMA CommandHead ==
    ASSUME NEW c \in CallRec, c.todo # <<>>, Commands(c)
    PROVE  LET h == Head(c.todo)
               s == Tail(c.todo)
           IN  /\ h \in Cmds
               /\ h = "barrier" <=> c.op \in Barriers
               /\ h = "put" => c.op \in Publications
               /\ h = "get" => c.op \in Gets
               /\ c.op \in Barriers => s = <<>>
               /\ c.op \in Publications => \/ h = "put" /\ s = <<>>
                                           \/ h = "my_kvsname" /\ s = <<"put">>
               /\ c.op \in Gets => \/ h = "get" /\ s = <<>>
                                   \/ h = "my_kvsname" /\ s = <<"get">>
               /\ c.op \notin Barriers \cup Publications \cup Gets =>
                     h \in PlainCmds /\ s \in Seq(PlainCmds)
<1>1. /\ Barriers \cap Publications = {} /\ Barriers \cap Gets = {} /\ Publications \cap Gets = {}
  BY Kinds
<1>2. /\ Head(<<"barrier">>) = "barrier" /\ Tail(<<"barrier">>) = <<>>
      /\ Head(<<"put">>) = "put" /\ Tail(<<"put">>) = <<>>
      /\ Head(<<"get">>) = "get" /\ Tail(<<"get">>) = <<>>
      /\ Head(<<"my_kvsname", "put">>) = "my_kvsname" /\ Tail(<<"my_kvsname", "put">>) = <<"put">>
      /\ Head(<<"my_kvsname", "get">>) = "my_kvsname" /\ Tail(<<"my_kvsname", "get">>) = <<"get">>
  OBVIOUS
<1>3. c.todo \in Seq(Cmds)
  BY DEF CallRec
<1>4. Head(c.todo) \in Cmds
  BY <1>3
<1>5. CASE c.op \in Barriers
  <2>1. c.todo = <<"barrier">>
    BY <1>1, <1>5 DEF Commands
  <2> QED  BY <1>1, <1>2, <1>4, <1>5, <2>1
<1>6. CASE c.op \in Publications
  <2>1. c.todo \in {<<"put">>, <<"my_kvsname", "put">>}
    BY <1>1, <1>6 DEF Commands
  <2> QED  BY <1>1, <1>2, <1>4, <1>6, <2>1
<1>7. CASE c.op \in Gets
  <2>1. c.todo \in {<<"get">>, <<"my_kvsname", "get">>}
    BY <1>1, <1>7 DEF Commands
  <2> QED  BY <1>1, <1>2, <1>4, <1>7, <2>1
<1>8. CASE c.op \notin Barriers \cup Publications \cup Gets
  <2>1. c.todo \in Seq(PlainCmds)
    BY <1>8 DEF Commands
  <2>2. Head(c.todo) \in PlainCmds /\ Tail(c.todo) \in Seq(PlainCmds)
    BY <2>1, HeadTailProperties
  <2> QED  BY <1>4, <1>8, <2>2 DEF PlainCmds
<1> QED  BY <1>5, <1>6, <1>7, <1>8

\* The commands left after an exchange are some of the function's.
LEMMA CommandRest ==
    ASSUME NEW c \in CallRec, c.todo # <<>>, Commands(c), NEW o, NEW d, d.op = c.op,
           d.todo \in {<<>>, Tail(c.todo), After(c, o), AfterWrite(c), AfterAnswer(c, o)}
    PROVE  Commands(d)
<1>1. /\ Barriers \cap Publications = {} /\ Barriers \cap Gets = {} /\ Publications \cap Gets = {}
  BY Kinds
<1>2. "abort" \in PlainCmds
  BY DEF PlainCmds, Cmds
<1>3. CASE c.op \in Barriers \cup Publications \cup Gets
  <2>1. /\ c.op \in Barriers => Head(c.todo) = "barrier" /\ Tail(c.todo) = <<>>
        /\ c.op \in Publications => \/ Head(c.todo) = "put" /\ Tail(c.todo) = <<>>
                                    \/ Head(c.todo) = "my_kvsname" /\ Tail(c.todo) = <<"put">>
        /\ c.op \in Gets => \/ Head(c.todo) = "get" /\ Tail(c.todo) = <<>>
                            \/ Head(c.todo) = "my_kvsname" /\ Tail(c.todo) = <<"get">>
    BY CommandHead
  <2>2. Head(c.todo) # "init" /\ Head(c.todo) \notin Handshake
    BY <1>3, <2>1 DEF Handshake, Unasked
  <2>3. d.todo \in {<<>>, Tail(c.todo)}
    BY <2>2 DEF After, AfterWrite, AfterAnswer
  <2> QED  BY <1>1, <1>3, <2>1, <2>3 DEF Commands
<1>4. CASE c.op \notin Barriers \cup Publications \cup Gets
  <2>1. Tail(c.todo) \in Seq(PlainCmds) /\ <<"abort">> \in Seq(PlainCmds)
        /\ <<>> \in Seq(PlainCmds)
    BY <1>2, <1>4, CommandHead
  <2>2. <<"abort">> \o Tail(c.todo) \in Seq(PlainCmds)
    BY <2>1, ConcatProperties
  <2>3. c.todo \in Seq(PlainCmds)
    BY <1>4 DEF Commands
  <2>4. SubSeq(c.todo, 3, Len(c.todo)) \in Seq(PlainCmds)
    BY <2>3
  <2>5. d.todo \in Seq(PlainCmds)
    BY <2>1, <2>2, <2>4 DEF After, AfterWrite, AfterAnswer
  <2> QED  BY <1>4, <2>5 DEF Commands
<1> QED  BY <1>3, <1>4

\* A call has a socket or has none.
LEMMA Connected ==
    ASSUME Wire, Names, NEW r \in Ranks, NEW t \in Threads, InCall(r, t)
    PROVE  fd[r] \in {"none", "open"} /\ Alive(r) /\ phase[r] \in {"new", "ready"}
<1>1. Types /\ Named(r)
  BY DEF Wire, Names
<1>2. /\ fd[r] \in {"none", "open", "closed"}
      /\ phase[r] \in {"new", "ready", "final", "killed"}
  BY <1>1 DEF Types, TypeOK
<1>3. fd[r] # "closed" /\ phase[r] \in {"new", "ready"}
  BY <1>1, <1>2 DEF Named, Life
<1> QED  BY <1>2, <1>3 DEF Alive

\* A call keeps its reasons as long as its results stay.
LEMMA JustifiedSame ==
    ASSUME NEW r, NEW b, NEW c, Justified(r, b), c.op = b.op, c.res = b.res,
           c.todo = b.todo, c.due = b.due, c.got = b.got, c.val = b.val
    PROVE  Justified(r, c)
BY DEF Justified

\* An exchange that fails has a reason.
LEMMA FailedJustified ==
    ASSUME Wire, Names, NEW r \in Ranks \ mixed, NEW t \in Threads, InCall(r, t),
           NEW d, d.op = call[r][t].op, d.due = call[r][t].due,
           NEW o \in {"lost", "unready", "toolong", "ok"},
           d.res = IF call[r][t].res = "ok" THEN o ELSE call[r][t].res,
           o \in {"lost", "unready"} => fd[r] # "open" \/ ~pm.up,
           o = "ok" => call[r][t].op \notin Gets \cup Publications,
           o = "toolong" => call[r][t].op \notin Gets
    PROVE  Justified(r, d)
<1> DEFINE c == call[r][t]
<1>1. Justified(r, c)
  BY DEF Names, Named
<1>2. fd[r] \in {"none", "open"}
  BY Connected
<1>3. CASE c.res = "ok"
  BY <1>2, <1>3 DEF Justified
<1>4. CASE c.res # "ok"
  BY <1>1, <1>4 DEF Justified
<1> QED  BY <1>3, <1>4

\* pthread_mutex_lock
LEMMA LockKeepsNames ==
    ASSUME Wire, Names, NEW r \in Ranks, NEW t \in Threads, pthread_mutex_lock(r, t)
    PROVE  Names'
<1> DEFINE b == call[r][t]
           c == [b EXCEPT !.at = "write"]
<1>1. /\ Alive(r) /\ b.at = "lock"
      /\ mutex' = [mutex EXCEPT ![r] = t]
      /\ call' = [call EXCEPT ![r][t] = c]
      /\ UNCHANGED <<world, fd, inited, phase, stream, mixed, entered, left, pub, pm, req, ans>>
  BY DEF pthread_mutex_lock, history, managerVars
<1>2. /\ Types /\ Named(r) /\ b \in CallRec /\ Busy(b) /\ Commands(b)
      /\ mutex \in [Ranks -> Threads \cup {None}] /\ entered[r] \in Nat
  BY CallType, CountTypes DEF Wire, Names, Named, Types, TypeOK
<1>3. /\ c \in CallRec /\ Busy(c) /\ c.at = "write" /\ c.op = b.op /\ c.key = b.key
      /\ c.val = b.val /\ c.due = b.due /\ c.todo = b.todo /\ c.res = b.res /\ c.got = b.got
  BY <1>1, <1>2 DEF CallRec, Busy
<1> HIDE DEF c
<1>4. call'[r][t] = c /\ \A u \in Threads \ {t} : call'[r][u] = call[r][u]
  BY <1>1, <1>2, <1>3, CallSet, ZenonT(40)
<1>5. ~OnWire(r, t) /\ InCall(r, t) /\ (Alive(r)' <=> Alive(r))
  BY <1>1 DEF OnWire, InCall, Alive
<1>6. Asked(r) /\ Told(r) /\ (r \notin mixed => Justified(r, b))
  BY <1>2, <1>5 DEF Named
<1>7. Asked(r)'
  BY <1>1, <1>2, <1>4, <1>5, <1>6, AskedKept
<1>8. Told(r)'
  BY <1>1, <1>4, <1>5, <1>6, ToldKept
<1>9. Commands(c)
  BY <1>2, <1>3 DEF Commands
<1>10. r \notin mixed' => Justified(r, c)
  BY <1>1, <1>3, <1>6, JustifiedSame
<1>11. Answered(r)' => Answered(r)
  <2>1. CASE t = "main"
    BY <1>3, <1>4, <2>1 DEF Answered, OnWire
  <2>2. CASE t # "main"
    BY <1>1, <1>4, <2>2, Distinct DEF Answered, OnWire
  <2> QED  BY <2>1, <2>2
<1>12. \A q \in Ranks \ {r} : mutex'[q] = mutex[q]
  BY <1>1, <1>2
<1> QED  BY <1>1, <1>2, <1>3, <1>5, <1>7, <1>8, <1>9, <1>10, <1>11, <1>12, StepKeepsNames

\* What a write does to the sequence of requests, and which request it is.
LEMMA SentRequest ==
    ASSUME Types, NEW r \in Ranks, NEW t \in Threads, call[r][t].todo # <<>>, Sent(r, t)
    PROVE  /\ \A q \in Ranks \ {r} : req'[q] = req[q]
           /\ \/ /\ pm.up /\ Request(t, call[r][t]) \in Requests
                 /\ Sends(r, Request(t, call[r][t]))
              \/ ~pm.up /\ req' = req
<1>1. call[r][t] \in CallRec /\ req \in [Ranks -> Seq(Requests)]
  BY DEF Types
<1>2. PICK m \in Requests : m = Request(t, call[r][t])
  BY <1>1, RequestType
<1>a. fd[r] = "open"
  BY DEF Types, Sent
<1>3. CASE pm.up
  <2>1. req' = [req EXCEPT ![r] = Append(req[r], m)]
    BY <1>2, <1>3, <1>a DEF Sent
  <2>2. req'[r] = Append(req[r], m) /\ \A q \in Ranks \ {r} : req'[q] = req[q]
    BY <1>1, <2>1
  <2> QED  BY <1>2, <1>3, <2>2 DEF Sends
<1>4. CASE ~pm.up
  BY <1>4 DEF Sent
<1> QED  BY <1>3, <1>4

\* The requests on the way after one more was sent.
LEMMA AskedSent ==
    ASSUME Wire, Names, NEW r \in Ranks, NEW t \in Threads, call[r][t].at = "write", Alive(r),
           call'[r][t].key = call[r][t].key, call'[r][t].val = call[r][t].val,
           \A u \in Threads \ {t} : call'[r][u] = call[r][u],
           \/ call'[r][t].at = "read" /\ call'[r][t].todo = call[r][t].todo
           \/ Head(call[r][t].todo) = "spawn-part",
           UNCHANGED <<entered, phase, pm>>, mixed \subseteq mixed',
           Request(t, call[r][t]) \in Requests, Sends(r, Request(t, call[r][t]))
    PROVE  Asked(r)'
<1> DEFINE b == call[r][t]
           n == Len(req[r])
<1>1. /\ Types /\ Named(r) /\ Asked(r) /\ b \in CallRec /\ Busy(b) /\ Commands(b)
      /\ b.todo # <<>> /\ req[r] \in Seq(Requests) /\ entered[r] \in Nat /\ left[r] \in Nat
  BY CallType, CountTypes DEF Wire, Names, Named, Types, Busy
<1>2. PICK m \in Requests : /\ m = Request(t, b) /\ m.cmd = Head(b.todo) /\ m.by = t
                            /\ m.key = b.key /\ m.val = b.val
  BY DEF Request
<1>3. req'[r] = Append(req[r], m)
  BY <1>2 DEF Sends
<1>4. /\ Len(req'[r]) = n + 1 /\ n \in Nat
      /\ \A i \in 1 .. n : req'[r][i] = req[r][i]
      /\ req'[r][n + 1] = m
  BY <1>1, <1>3, AppendProperties
<1>5. InPm(r)' => entered'[r] >= 1
  BY <1>1 DEF Asked, InPm
<1>6. ASSUME NEW i \in 1 .. n, NEW x \in Requests, x = req[r][i]
      PROVE  /\ x.cmd = "put" => entered'[r] = 0 /\ Alive(r)'
             /\ x.cmd = "barrier" => entered'[r] >= 1
             /\ x.cmd \in {"put", "get"} /\ r \notin mixed' /\ Alive(r)' =>
                   /\ For(r, x)'
                   /\ x.key = call'[r][x.by].key /\ x.val = call'[r][x.by].val
  <2>1. /\ x.cmd = "put" => entered[r] = 0 /\ Alive(r)
        /\ x.cmd = "barrier" => entered[r] >= 1
        /\ x.cmd \in {"put", "get"} /\ r \notin mixed /\ Alive(r) =>
              /\ For(r, x)
              /\ x.key = call[r][x.by].key /\ x.val = call[r][x.by].val
    BY <1>1, <1>6 DEF Asked
  <2>2. x.by \in Threads
    BY DEF Requests
  <2>3. For(r, x) => x.by # t /\ For(r, x)' /\ call'[r][x.by] = call[r][x.by]
    BY <2>2 DEF For, OnWire
  <2> QED  BY <2>1, <2>3 DEF Alive
<1>7. /\ m.cmd = "put" => entered'[r] = 0 /\ Alive(r)'
      /\ m.cmd = "barrier" => entered'[r] >= 1
      /\ m.cmd \in {"put", "get"} =>
            /\ For(r, m)'
            /\ m.key = call'[r][m.by].key /\ m.val = call'[r][m.by].val
  <2>1. /\ m.cmd = "put" => b.op \in Publications
        /\ m.cmd = "barrier" => b.op \in Barriers
    BY <1>1, <1>2, CommandHead
  <2>2. m.cmd = "put" => entered[r] = 0
    BY <1>1, <2>1 DEF Named, Published, InCall
  <2>3. m.cmd = "barrier" => entered[r] >= 1
    <3>1. m.cmd = "barrier" => left[r] < entered[r]
      BY <2>1 DEF Wire, Local, Counts, InCall
    <3> QED  BY <1>1, <3>1
  <2>4. m.cmd \in {"put", "get"} => For(r, m)'
    BY <1>2 DEF For, OnWire
  <2> QED  BY <1>2, <2>2, <2>3, <2>4 DEF Alive
<1>8. \A i \in 1 .. n : req[r][i] \in Requests
  BY <1>1
<1>9. ASSUME NEW i \in 1 .. Len(req'[r])
      PROVE  (LET x == req[r][i]
              IN  /\ x.cmd = "put" => entered[r] = 0 /\ Alive(r)
                  /\ x.cmd = "barrier" => entered[r] >= 1
                  /\ x.cmd \in {"put", "get"} /\ r \notin mixed /\ Alive(r) =>
                        /\ For(r, x)
                        /\ x.key = call[r][x.by].key /\ x.val = call[r][x.by].val)'
  <2> HIDE DEF n
  <2>1. i \in 1 .. n \/ i = n + 1
    BY <1>4
  <2>2. CASE i \in 1 .. n
    <3>1. PICK x \in Requests : x = req[r][i] /\ req'[r][i] = x
      BY <1>4, <1>8, <2>2
    <3>2. /\ x.cmd = "put" => entered'[r] = 0 /\ Alive(r)'
          /\ x.cmd = "barrier" => entered'[r] >= 1
          /\ x.cmd \in {"put", "get"} /\ r \notin mixed' /\ Alive(r)' =>
                /\ For(r, x)'
                /\ x.key = call'[r][x.by].key /\ x.val = call'[r][x.by].val
      BY <1>6, <2>2, <3>1
    <3> QED  BY <3>1, <3>2 DEF For, OnWire
  <2>3. CASE i = n + 1
    <3>1. req'[r][i] = m
      BY <1>4, <2>3
    <3> QED  BY <1>7, <3>1 DEF For, OnWire
  <2> QED  BY <2>1, <2>2, <2>3
<1> QED  BY <1>5, <1>9 DEF Asked, For, OnWire

\* A write, whoever does it: the request is sent, it is a line that is never
\* written, or there is nobody to send it to.
LEMMA SendKeepsNames ==
    ASSUME Wire, Wire', Names, NEW r \in Ranks, NEW t \in Threads,
           NEW c \in CallRec, Busy(c), call' = [call EXCEPT ![r][t] = c],
           c.op = call[r][t].op, c.key = call[r][t].key, c.val = call[r][t].val,
           c.due = call[r][t].due, Alive(r), call[r][t].at = "write", Commands(c),
           c.at # "idle", r \notin mixed' => Justified(r, c),
           UNCHANGED <<world, fd, inited, phase, mutex, stream, entered, left, pub, pm, ans>>,
           mixed \subseteq mixed', \A q \in Ranks \ {r} : q \in mixed' <=> q \in mixed,
           r \in mixed' => r \in mixed \/ entered[r] >= 1,
           \/ Sent(r, t) /\ c.at = "read" /\ c.todo = call[r][t].todo
           \/ Sent(r, t) /\ Head(call[r][t].todo) = "spawn-part" /\ c.at = "done"
           \/ UNCHANGED req,
           c.op \in Barriers => (Sent(r, t) /\ c.at = "read") \/ SendFails(r)
    PROVE  Names'
<1> DEFINE b == call[r][t]
<1>1. /\ Types /\ Named(r) /\ Asked(r) /\ Told(r) /\ b \in CallRec /\ Busy(b)
      /\ b.todo # <<>> /\ entered[r] \in Nat
  BY CallType, CountTypes DEF Wire, Names, Named, Busy
<1>2. call'[r][t] = c /\ \A u \in Threads \ {t} : call'[r][u] = call[r][u]
  BY <1>1, CallSet, ZenonT(40)
<1>3. ~OnWire(r, t) /\ InCall(r, t) /\ (Alive(r)' <=> Alive(r))
  BY DEF OnWire, InCall, Alive
<1>4. /\ \A q \in Ranks \ {r} : req'[q] = req[q]
      /\ \/ /\ pm.up /\ Request(t, b) \in Requests /\ Sends(r, Request(t, b))
            /\ \/ c.at = "read" /\ c.todo = b.todo
               \/ Head(b.todo) = "spawn-part"
         \/ req' = req
  BY <1>1, SentRequest
<1>5. Asked(r)'
  <2>1. CASE req' = req
    BY <1>1, <1>2, <1>3, <2>1, AskedKept
  <2>2. CASE /\ Request(t, b) \in Requests /\ Sends(r, Request(t, b))
             /\ \/ c.at = "read" /\ c.todo = b.todo
                \/ Head(b.todo) = "spawn-part"
    BY <1>2, <2>2, AskedSent
  <2> QED  BY <1>4, <2>1, <2>2
<1>6. Told(r)'
  BY <1>1, <1>2, <1>3, ToldKept
<1>7. ASSUME Good(r)', Answered(r)'  PROVE Answered(r)
  <2>1. CASE t # "main"
    BY <1>2, <1>7, <2>1, Distinct DEF Answered, OnWire
  <2>2. CASE t = "main"
    <3>1. c.op \in Barriers /\ (c.at = "done" \/ (OnWire(r, "main")' /\ ans'[r] # <<>>))
      BY <1>2, <1>7, <2>2 DEF Answered
    <3>2. pm.up /\ fd[r] = "open" /\ r \notin mixed'
      BY <1>7 DEF Good
    <3>3. Sent(r, t) /\ c.at = "read"
      BY <3>1, <3>2 DEF SendFails
    <3>4. Request(t, b) \in Requests /\ Sends(r, Request(t, b))
      BY <1>1, <3>2, <3>3, SentRequest
    <3>5. req'[r] # <<>>
      BY <1>1, <3>4, AppendedReq
    <3>6. Exchange(r)' /\ fd'[r] # "closed"
      BY <1>3, <3>2 DEF Wire, Local
    <3>7. ans'[r] = <<>>
      BY <3>5, <3>6 DEF Exchange, Pending
    <3> QED  BY <3>1, <3>3, <3>7
  <2> QED  BY <2>1, <2>2
<1> QED  BY <1>3, <1>4, <1>5, <1>6, <1>7, StepKeepsNames

\* PMIU_writeline
LEMMA WritelineKeepsNames ==
    ASSUME Wire, Wire', Names, NEW r \in Ranks, PMIU_writeline(r)
    PROVE  Names'
<1> DEFINE b == call[r]["main"]
           rest == AfterWrite(b)
           o == Noticed(b, "lost")
           sent == [b EXCEPT !.at = "read"]
           lost == Over(b, o, rest)
<1>1. /\ Alive(r) /\ b.at = "write" /\ "main" \in Threads
      /\ UNCHANGED <<world, fd, inited, phase, mutex, stream, mixed, entered, left, pub, pm, ans>>
      /\ \/ /\ IF Unwritten(b) THEN UNCHANGED req ELSE Sent(r, "main")
            /\ call' = [call EXCEPT ![r]["main"] = sent]
         \/ /\ ~Unwritten(b) /\ SendFails(r)
            /\ call' = [call EXCEPT ![r]["main"] = lost]
            /\ UNCHANGED req
  BY Distinct DEF PMIU_writeline, history
<1>2. /\ Types /\ b \in CallRec /\ Busy(b) /\ Commands(b) /\ b.todo # <<>>
      /\ InCall(r, "main") /\ (r \notin mixed => Justified(r, b))
  BY <1>1, CallType DEF Wire, Names, Named, Busy, InCall
<1>3. /\ sent \in CallRec /\ Busy(sent) /\ sent.at = "read" /\ sent.op = b.op
      /\ sent.key = b.key /\ sent.val = b.val /\ sent.due = b.due /\ sent.todo = b.todo
      /\ sent.res = b.res /\ sent.got = b.got
  BY <1>1, <1>2 DEF CallRec, Busy
<1>4. /\ lost \in CallRec /\ Busy(lost) /\ lost.op = b.op /\ lost.key = b.key
      /\ lost.val = b.val /\ lost.due = b.due /\ lost.at # "idle" /\ lost.todo = rest
      /\ lost.res = IF b.res = "ok" THEN o ELSE b.res
  <2>1. rest \in Seq(Cmds) /\ o \in Outcomes
    <3>1. "lost" \in Outcomes
      BY DEF Outcomes
    <3> QED  BY <1>2, <3>1, GoesOn
  <2> HIDE DEF rest, o
  <2> QED  BY <1>2, <2>1, OverType
<1>5. Commands(sent) /\ Commands(lost)
  <2>1. lost.todo = AfterWrite(b)
    BY <1>4
  <2> HIDE DEF sent, lost
  <2>2. Commands(lost)
    BY <1>2, <1>4, <2>1, CommandRest
  <2> QED  BY <1>2, <1>3, <2>2 DEF Commands
<1>6. Unwritten(b) => b.op \notin Barriers
  BY <1>2, Kinds, CommandHead DEF Unwritten
<1>o. o \in {"lost", "unready", "ok"} /\ (o = "ok" => b.op \notin Gets \cup Publications)
  <2>1. b.op \in Gets \cup Publications => Head(b.todo) \in {"put", "get", "barrier", "my_kvsname"}
    BY <1>2, CommandHead
  <2> QED  BY <2>1, NoticedIs
<1> HIDE DEF sent, lost, o
<1>7. r \notin mixed => Justified(r, sent)
  BY <1>2, <1>3, JustifiedSame
<1>8. r \notin mixed /\ SendFails(r) => Justified(r, lost)
  BY <1>1, <1>2, <1>4, <1>o, FailedJustified DEF SendFails
<1>9. CASE /\ IF Unwritten(b) THEN UNCHANGED req ELSE Sent(r, "main")
           /\ call' = [call EXCEPT ![r]["main"] = sent]
  BY <1>1, <1>3, <1>5, <1>6, <1>7, <1>9, SendKeepsNames
<1>10. CASE /\ ~Unwritten(b) /\ SendFails(r)
            /\ call' = [call EXCEPT ![r]["main"] = lost]
            /\ UNCHANGED req
  BY <1>1, <1>4, <1>5, <1>8, <1>10, SendKeepsNames
<1> QED  BY <1>1, <1>9, <1>10

\* PMI_Spawn_multiple gives up between two pieces of its command.
LEMMA SpawnKeepsNames ==
    ASSUME Wire, Wire', Names, NEW r \in Ranks, SpawnGivesUp(r)
    PROVE  Names'
<1> DEFINE b == call[r]["main"]
           none == <<>>
           c == Over(b, "ok", none)
<1>1. /\ Alive(r) /\ b.at = "write" /\ Head(b.todo) = "spawn-part" /\ "main" \in Threads
      /\ Sent(r, "main") \/ UNCHANGED req
      /\ call' = [call EXCEPT ![r]["main"] = c]
      /\ fd' = [fd EXCEPT ![r] = IF @ = "own" THEN "stuck" ELSE @]
      /\ UNCHANGED <<world, inited, phase, mutex, stream, mixed, entered, left, pub, pm, ans>>
  BY Distinct DEF SpawnGivesUp, history
<1>f. UNCHANGED fd
  <2>1. fd \in [Ranks -> {"none", "open", "closed"}]
    BY DEF Wire, Types
  <2> QED  BY <1>1, <2>1
<1>2. /\ Types /\ b \in CallRec /\ Busy(b) /\ Commands(b) /\ b.todo # <<>>
      /\ InCall(r, "main") /\ (r \notin mixed => Justified(r, b))
  BY <1>1, CallType DEF Wire, Names, Named, Busy, InCall
<1>3. b.op \notin Barriers \cup Publications \cup Gets
  BY <1>1, <1>2, CommandHead
<1>4. /\ c \in CallRec /\ Busy(c) /\ c.op = b.op /\ c.key = b.key /\ c.val = b.val
      /\ c.due = b.due /\ c.at = "done" /\ c.todo = <<>> /\ c.res = b.res
  <2>1. none \in Seq(Cmds) /\ "ok" \in Outcomes
    BY CmdSeqs DEF Outcomes
  <2>2. none = <<>>
    OBVIOUS
  <2> HIDE DEF none
  <2>3. /\ c \in CallRec /\ Busy(c) /\ c.op = b.op /\ c.key = b.key /\ c.val = b.val
        /\ c.due = b.due /\ c.todo = none /\ (c.at = "done" <=> none = <<>>)
        /\ c.res = IF b.res = "ok" THEN "ok" ELSE b.res
    BY <1>2, <2>1, OverType
  <2> HIDE DEF c
  <2> QED  BY <2>2, <2>3
<1> HIDE DEF c
<1>5. Commands(c)
  BY <1>2, <1>4, CommandRest
<1>6. r \notin mixed => Justified(r, c)
  BY <1>2, <1>3, <1>4 DEF Justified
<1> QED  BY <1>1, <1>f, <1>3, <1>4, <1>5, <1>6, SendKeepsNames

\* No call has no commands.
LEMMA NoCommands ==
    ASSUME NEW c, c.todo = <<>>
    PROVE  Commands(c)
<1>1. <<>> \in Seq(PlainCmds)
  OBVIOUS
<1> QED  BY <1>1 DEF Commands

\* A process that has ended.
LEMMA EndKeepsNamed ==
    ASSUME Wire, Names, NEW r \in Ranks, \A u \in Threads : call'[r][u] = Idle,
           phase'[r] = "killed", mixed \subseteq mixed', r \in mixed' => r \in mixed \/ entered[r] >= 1,
           \A i \in 1 .. Len(req'[r]) : /\ req'[r][i].cmd # "put"
                                        /\ req'[r][i].cmd = "barrier" => entered[r] >= 1,
           UNCHANGED <<world, entered, left, pub, pm>>, fd'[r] = fd[r], ans'[r] = ans[r]
    PROVE  Named(r)' /\ (Through(r)' => Through(r))
<1>1. /\ Named(r) /\ "main" \in Threads /\ "helper" \in Threads
  BY Distinct DEF Names
<1>2. \A u \in Threads : /\ call'[r][u].at = "idle" /\ call'[r][u].todo = <<>>
                         /\ ~InCall(r, u)' /\ ~OnWire(r, u)'
  BY DEF Idle, InCall, OnWire
<1>3. Life(r)'
  BY <1>1, <1>2 DEF Life, Named
<1>4. Published(r)'
  BY <1>1, <1>2 DEF Published, Named
<1>5. Asked(r)'
  <2>1. ~Alive(r)' /\ (InPm(r)' <=> InPm(r))
    BY DEF Alive, InPm
  <2>2. InPm(r) => entered[r] >= 1
    BY <1>1 DEF Named, Asked
  <2> QED  BY <2>1, <2>2 DEF Asked
<1>6. Told(r)'
  BY DEF Told, Alive
<1>7. \A u \in Threads : Commands(call'[r][u])
  BY <1>2, NoCommands
<1>8. Named(r)'
  BY <1>2, <1>3, <1>4, <1>5, <1>6, <1>7 DEF Named, Commands
<1>9. ~Answered(r)' /\ (Good(r)' => Good(r)) /\ (InPm(r)' <=> InPm(r))
  BY <1>1, <1>2 DEF Answered, Good, InPm
<1> QED  BY <1>8, <1>9 DEF Through

\* A write to a socket nobody reads ends the process.
LEMMA SigpipeKeepsNames ==
    ASSUME Wire, Names, NEW r \in Ranks, NEW t \in Threads, Sigpipe(r, t)
    PROVE  Names'
<1>1. /\ ~pm.up
      /\ phase' = [phase EXCEPT ![r] = "killed"]
      /\ call' = [call EXCEPT ![r] = [u \in Threads |-> Idle]]
      /\ UNCHANGED <<world, fd, inited, mutex, stream, mixed, entered, left, pub, pm, req, ans>>
  BY DEF Sigpipe, Exits, Wire, Types, history, managerVars
<1>2. /\ Types /\ call \in [Ranks -> [Threads -> CallRec]]
      /\ phase \in [Ranks -> {"new", "ready", "final", "killed"}]
  BY DEF Wire, Types, TypeOK
<1>3. /\ \A u \in Threads : call'[r][u] = Idle
      /\ phase'[r] = "killed"
      /\ \A q \in Ranks \ {r} : Same(q) /\ inited'[q] = inited[q] /\ pub'[q] = pub[q]
  BY <1>1, <1>2 DEF Same
<1>4. req[r] = <<>>
  BY <1>1 DEF Wire, Local, Socket
<1>5. Named(r)' /\ (Through(r)' => Through(r))
  BY <1>1, <1>3, <1>4, EndKeepsNamed
<1> QED  BY <1>1, <1>3, <1>5, NamesElsewhere

\* A rank whose main thread does not publish has no put on the way.
LEMMA NoPut ==
    ASSUME Wire, Names, NEW r \in Ranks, NEW i \in 1 .. Len(req[r]), req[r][i].cmd = "put"
    PROVE  /\ call[r]["main"].op \in Publications /\ OnWire(r, "main") /\ r \notin mixed
           /\ req[r][i].by = "main" /\ Alive(r) /\ entered[r] = 0 /\ pub[r].at = 0
           /\ ~InCall(r, "helper") /\ fd[r] = "open"
           /\ req[r][i].key = call[r]["main"].key /\ req[r][i].val = call[r]["main"].val
<1>1. /\ Types /\ Local(r) /\ Named(r) /\ req[r] \in Seq(Requests) /\ entered[r] \in Nat
  BY CountTypes DEF Wire, Names, Types
<1>2. PICK m \in Requests : m = req[r][i]
  BY <1>1
<1>3. entered[r] = 0 /\ Alive(r)
  BY <1>1 DEF Named, Asked
<1>4. r \notin mixed /\ ~InCall(r, "helper")
  BY <1>1, <1>3 DEF Named, Published, Life
<1>5. For(r, m) /\ m.key = call[r][m.by].key /\ m.val = call[r][m.by].val
  BY <1>1, <1>2, <1>3, <1>4 DEF Named, Asked
<1>6. m.by \in Threads /\ OnWire(r, m.by)
  BY <1>5 DEF For, Requests
<1>7. m.by = "main"
  BY <1>4, <1>6 DEF OnWire, InCall, Threads
<1>8. /\ call[r]["main"] \in CallRec /\ call[r]["main"].todo # <<>> /\ Commands(call[r]["main"])
      /\ InCall(r, "main")
  BY <1>1, <1>6, <1>7, CallType DEF Named, Busy, OnWire, InCall
<1>9. call[r]["main"].op \in Publications
  BY <1>2, <1>5, <1>7, <1>8, CommandHead DEF For
<1>10. pub[r].at = 0
  BY <1>1, <1>8, <1>9, Distinct DEF Named, Published
<1>11. fd[r] = "open"
  <2>1. fd[r] \in {"none", "open"}
    BY <1>8, Connected, Distinct
  <2>2. req[r] # <<>>
    BY <1>1, EmptySeq
  <2>3. fd[r] # "none"
    BY <1>1, <2>2 DEF Local, Socket, Quiet
  <2> QED  BY <2>1, <2>3
<1> QED  BY <1>2, <1>3, <1>4, <1>5, <1>6, <1>7, <1>9, <1>10, <1>11

\* PMIi_WriteSimpleCommand
LEMMA WriteKeepsNames ==
    ASSUME Wire, Wire', Names, NEW r \in Ranks, NEW t \in Threads,
           PMIi_WriteSimpleCommand(r, t)
    PROVE  Names'
<1> DEFINE b == call[r][t]
           sent == [b EXCEPT !.at = "read"]
           outcome == IF TooLong(b) THEN "toolong" ELSE "lost"
           none == <<>>
           failed == Over(b, outcome, none)
<1>1. /\ Alive(r) /\ b.at = "write"
      /\ UNCHANGED <<world, fd, inited, mutex, stream, entered, left, pub, pm, ans>>
  BY DEF PMIi_WriteSimpleCommand
<1>2. /\ Types /\ Named(r) /\ b \in CallRec /\ Busy(b) /\ b.todo # <<>> /\ Commands(b)
      /\ mixed \subseteq Ranks /\ InCall(r, t) /\ (r \notin mixed => Justified(r, b))
  BY <1>1, CallType DEF Wire, Busy, Names, Named, Types, InCall
<1>3. /\ sent \in CallRec /\ Busy(sent) /\ sent.at = "read" /\ sent.op = b.op
      /\ sent.key = b.key /\ sent.val = b.val /\ sent.due = b.due /\ sent.todo = b.todo
      /\ sent.res = b.res /\ sent.got = b.got
  BY <1>1, <1>2 DEF CallRec, Busy
<1>4. /\ failed \in CallRec /\ Busy(failed) /\ failed.at = "done" /\ failed.op = b.op
      /\ failed.key = b.key /\ failed.val = b.val /\ failed.due = b.due /\ failed.todo = <<>>
      /\ failed.res = IF b.res = "ok" THEN outcome ELSE b.res
  <2>1. none \in Seq(Cmds) /\ outcome \in Outcomes
    BY CmdSeqs DEF Outcomes
  <2>2. none = <<>>
    OBVIOUS
  <2> HIDE DEF outcome, none
  <2>3. /\ failed \in CallRec /\ Busy(failed) /\ failed.op = b.op /\ failed.todo = none
        /\ failed.key = b.key /\ failed.val = b.val /\ failed.due = b.due
        /\ (failed.at = "done" <=> none = <<>>)
        /\ failed.res = IF b.res = "ok" THEN outcome ELSE b.res
    BY <1>2, <2>1, OverType
  <2> HIDE DEF failed
  <2> QED  BY <2>2, <2>3
<1>5. PICK next \in {sent, failed} :
         /\ IF next.at = "read"
            THEN /\ ~TooLong(b) /\ Sent(r, t)
                 /\ mixed' = IF Mixing(r, t) THEN mixed \cup {r} ELSE mixed
            ELSE /\ TooLong(b) \/ SendFails(r)
                 /\ UNCHANGED <<req, mixed>>
         /\ IF b.op = "PMI2_Abort"
            THEN /\ phase' = [phase EXCEPT ![r] = "killed"]
                 /\ call' = [call EXCEPT ![r] = [u \in Threads |-> Idle]]
            ELSE /\ call' = [call EXCEPT ![r][t] = next]
                 /\ UNCHANGED phase
  BY DEF PMIi_WriteSimpleCommand
<1> HIDE DEF sent, failed
<1>6. /\ mixed \subseteq mixed' /\ \A q \in Ranks \ {r} : q \in mixed' <=> q \in mixed
      /\ r \in mixed' => r \in mixed \/ Mixing(r, t)
  BY <1>5
<1>7. Mixing(r, t) => entered[r] >= 1
  <2>1. Mixing(r, t) => InCall(r, "helper")
    BY <1>2 DEF Mixing, OnWire, InCall, Threads
  <2> QED  BY <1>2, <2>1 DEF Named, Life
<1>8. /\ TooLong(b) => b.op \notin Gets /\ b.op \notin Barriers
      /\ b.op = "PMI2_Abort" => Head(b.todo) \notin {"put", "barrier"}
  <2>1. b.op = "PMI2_Abort" => b.op \notin Barriers \cup Publications \cup Gets
    BY Kinds
  <2> QED  BY <1>2, <2>1, Kinds, CommandHead DEF TooLong
<1>9. CASE b.op = "PMI2_Abort"
  <2>1. /\ phase' = [phase EXCEPT ![r] = "killed"]
        /\ call' = [call EXCEPT ![r] = [u \in Threads |-> Idle]]
        /\ Sent(r, t) \/ UNCHANGED req
    BY <1>5, <1>9
  <2>2. /\ call \in [Ranks -> [Threads -> CallRec]] /\ req[r] \in Seq(Requests)
        /\ phase \in [Ranks -> {"new", "ready", "final", "killed"}]
    BY <1>2 DEF Types, TypeOK
  <2>3. /\ \A q \in Ranks \ {r} : req'[q] = req[q]
        /\ \/ req'[r] = req[r]
           \/ \E m \in Requests : m.cmd \notin {"put", "barrier"} /\ Sends(r, m)
    BY <1>2, <1>8, <1>9, <2>1, SentEffect
  <2>4. /\ \A u \in Threads : call'[r][u] = Idle
        /\ phase'[r] = "killed"
        /\ \A q \in Ranks \ {r} : Same(q) /\ inited'[q] = inited[q] /\ pub'[q] = pub[q]
    BY <1>1, <1>6, <2>1, <2>2, <2>3 DEF Same
  <2>5. \A i \in 1 .. Len(req[r]) : /\ req[r][i].cmd # "put"
                                    /\ req[r][i].cmd = "barrier" => entered[r] >= 1
    <3>1. ASSUME NEW i \in 1 .. Len(req[r]), req[r][i].cmd = "put"  PROVE FALSE
      <4>1. call[r]["main"].op \in Publications /\ ~InCall(r, "helper")
        BY <3>1, NoPut
      <4>2. t = "main"
        BY <1>2, <4>1 DEF Threads
      <4> QED  BY <1>9, <4>1, <4>2, Kinds
    <3> QED  BY <1>2, <3>1 DEF Named, Asked
  <2>6. \A i \in 1 .. Len(req'[r]) : /\ req'[r][i].cmd # "put"
                                     /\ req'[r][i].cmd = "barrier" => entered[r] >= 1
    <3>1. CASE req'[r] = req[r]
      BY <2>5, <3>1
    <3>2. ASSUME NEW m \in Requests, m.cmd \notin {"put", "barrier"}, Sends(r, m)
          PROVE  \A i \in 1 .. Len(req'[r]) : /\ req'[r][i].cmd # "put"
                                              /\ req'[r][i].cmd = "barrier" => entered[r] >= 1
      <4> DEFINE n == Len(req[r])
      <4>1. /\ Len(req'[r]) = n + 1 /\ n \in Nat
            /\ \A i \in 1 .. n : req'[r][i] = req[r][i]
            /\ req'[r][n + 1] = m
        BY <2>2, <3>2, AppendProperties DEF Sends
      <4>2. \A i \in 1 .. n : /\ req[r][i].cmd # "put"
                              /\ req[r][i].cmd = "barrier" => entered[r] >= 1
        BY <2>5
      <4> HIDE DEF n
      <4>3. \A i \in 1 .. n + 1 : i \in 1 .. n \/ i = n + 1
        BY <4>1
      <4> QED  BY <3>2, <4>1, <4>2, <4>3
    <3> QED  BY <2>3, <3>1, <3>2
  <2>7. Named(r)' /\ (Through(r)' => Through(r))
    BY <1>1, <1>6, <1>7, <2>4, <2>6, EndKeepsNamed
  <2> QED  BY <1>1, <2>4, <2>7, NamesElsewhere
<1>10. CASE b.op # "PMI2_Abort" /\ next = sent
  <2>1. call' = [call EXCEPT ![r][t] = sent] /\ UNCHANGED phase /\ Sent(r, t)
    BY <1>3, <1>5, <1>10
  <2>2. Commands(sent) /\ (r \notin mixed' => Justified(r, sent))
    BY <1>2, <1>3, <1>6, JustifiedSame DEF Commands
  <2> QED  BY <1>1, <1>3, <1>6, <1>7, <2>1, <2>2, SendKeepsNames
<1>11. CASE b.op # "PMI2_Abort" /\ next = failed
  <2>1. /\ call' = [call EXCEPT ![r][t] = failed] /\ UNCHANGED <<phase, req>>
        /\ TooLong(b) \/ SendFails(r)
    BY <1>4, <1>5, <1>11
  <2>2. Commands(failed)
    BY <1>2, <1>4, CommandRest
  <2>3. r \notin mixed' => Justified(r, failed)
    <3>1. outcome \in {"lost", "toolong"}
      OBVIOUS
    <3>2. /\ outcome = "lost" => fd[r] # "open" \/ ~pm.up
          /\ outcome = "toolong" => b.op \notin Gets
      BY <1>8, <2>1 DEF SendFails
    <3> HIDE DEF outcome
    <3> QED  BY <1>2, <1>4, <1>6, <3>1, <3>2, FailedJustified
  <2> QED  BY <1>1, <1>4, <1>6, <1>7, <1>8, <2>1, <2>2, <2>3, SendKeepsNames
<1> QED  BY <1>5, <1>9, <1>10, <1>11

\* A read step finds nothing of its rank on the way to the manager.
LEMMA NothingAsked ==
    ASSUME Wire, Names, NEW r \in Ranks \ mixed, NEW t \in Threads, OnWire(r, t),
           ans[r] # <<>> \/ Eof(r)
    PROVE  req[r] = <<>>
<1>1. /\ Local(r) /\ Alive(r) /\ fd[r] \in {"none", "open"}
  <2>1. InCall(r, t)
    BY DEF OnWire, InCall
  <2> QED  BY <2>1, Connected DEF Wire
<1>2. CASE ans[r] # <<>>
  BY <1>1, <1>2, AnswerAwaited
<1>3. CASE fd[r] = "none" \/ ~pm.up
  BY <1>1, <1>3 DEF Local, Socket, Quiet
<1> QED  BY <1>1, <1>2, <1>3 DEF Eof

\* What an answer makes of a call is justified.
LEMMA TakenJustified ==
    ASSUME Wire, Names, NEW r \in Ranks \ mixed, NEW t \in Threads, OnWire(r, t),
           ans[r] # <<>>, NEW a \in Answers, a = ans[r][1],
           NEW o \in {Outcome(call[r][t], a), Verdict(call[r][t], a)},
           NEW d, d.op = call[r][t].op, d.due = call[r][t].due, d.val = call[r][t].val,
           d.todo \in {After(call[r][t], o), AfterAnswer(call[r][t], o)},
           d.got = Value(call[r][t], a), call[r][t].res # "ok" => d.res = call[r][t].res,
           call[r][t].res = "ok" => d.res \in {o, Noticed(call[r][t], o)}
    PROVE  Justified(r, d)
<1> DEFINE c == call[r][t]
           h == Head(c.todo)
<1>1. /\ InCall(r, t) /\ Named(r) /\ c \in CallRec /\ c.todo # <<>> /\ Commands(c)
      /\ Justified(r, c)
  BY CallType DEF Wire, Names, Named, Busy, OnWire, InCall
<1>2. Alive(r) /\ fd[r] = "open"
  <2>1. fd[r] \in {"none", "open"} /\ Alive(r)
    BY <1>1, Connected
  <2> QED  BY <2>1 DEF Wire, Local, Socket, Quiet
<1>3. a.by = t /\ a.cmd = h
  BY <1>2, AnswerIsOwn DEF For
<1>4. /\ a.cmd = "put" /\ a.rc = 0 /\ pm.up /\ ~world.rankless => pm.kvs[r] = c.val
      /\ a.cmd = "get" /\ c.due # 0 /\ ~world.rankless => a.val = c.due
      /\ a.cmd \in {"get", "my_kvsname"} => a.rc = 0
  BY <1>1, <1>2, <1>3 DEF Named, Told
<1>5. /\ h = "get" => c.op \in Gets
      /\ c.op \in Publications => h = "put" \/ (h = "my_kvsname" /\ Tail(c.todo) = <<"put">>)
      /\ c.op \in Gets => h = "get" \/ (h = "my_kvsname" /\ Tail(c.todo) = <<"get">>)
  BY <1>1, CommandHead
<1>6. /\ o \in {"refused", "absent", "notimpl", "ok"}
      /\ o = "refused" => a.rc # 0
      /\ o = "absent" => h = "get" /\ a.val = 0
      /\ o = "notimpl" => h = "job-connect"
      /\ o = "ok" => a.rc = 0
  BY <1>3 DEF Outcome, Verdict
<1>n. /\ Noticed(c, o) \in {o, "ok"}
      /\ c.op \in Gets \cup Publications => Noticed(c, o) = o
  <2>1. c.op \in Gets \cup Publications => h \in {"put", "get", "barrier", "my_kvsname"}
    BY <1>5
  <2> QED  BY <1>6, <2>1, NoticedIs
<1>7. o = "absent" => c.op \in Gets /\ (c.due = 0 \/ world.rankless)
  BY <1>3, <1>4, <1>5, <1>6
<1>8. c.op \in Gets /\ c.due # 0 /\ ~world.rankless => o = "ok"
  BY <1>3, <1>4, <1>5, <1>6
<1>9. d.todo = <<>> /\ o = "ok" =>
         /\ c.op \in Gets => h = "get"
         /\ c.op \in Publications => h = "put"
  <2>1. o = "ok" => d.todo = Tail(c.todo)
    BY DEF After, AfterAnswer
  <2>2. <<"put">> # <<>> /\ <<"get">> # <<>>
    OBVIOUS
  <2> QED  BY <1>5, <2>1, <2>2
<1>10. c.op \in Gets /\ c.due # 0 /\ ~world.rankless =>
          /\ d.res # "ok" => ~pm.up \/ fd[r] = "none"
          /\ d.res = "ok" /\ d.todo = <<>> => d.got = MPIU_Strncpy(d.due)
  <2>1. ASSUME c.op \in Gets, c.due # 0, ~world.rankless, d.res # "ok"
        PROVE  ~pm.up \/ fd[r] = "none"
    BY <1>1, <1>n, <1>8, <2>1 DEF Justified
  <2>2. ASSUME c.op \in Gets, c.due # 0, ~world.rankless, d.todo = <<>>
        PROVE  d.got = MPIU_Strncpy(d.due)
    <3>1. a.cmd = "get" /\ a.val = c.due
      BY <1>3, <1>4, <1>8, <1>9, <2>2
    <3> QED  BY <3>1 DEF Value
  <2> QED  BY <2>1, <2>2
<1>11. c.op \in Publications /\ d.res = "ok" /\ d.todo = <<>> /\ pm.up /\ ~world.rankless
          => pm.kvs[r] = d.val
  <2>1. d.res = "ok" /\ c.op \in Publications => o = "ok"
    BY <1>n
  <2> QED  BY <1>3, <1>4, <1>6, <1>9, <2>1
<1>12. /\ d.res \in {"lost", "unready"} => c.res \in {"lost", "unready"}
       /\ d.res = "wrong" => c.res = "wrong"
       /\ d.res = "absent" => c.res = "absent" \/ o = "absent"
  BY <1>6, <1>n
<1> HIDE DEF c, h
<1> QED  BY <1>1, <1>7, <1>10, <1>11, <1>12 DEF Justified, c

\* A read, whatever it finds.
LEMMA ReadStepKeepsNames ==
    ASSUME Wire, Names, NEW r \in Ranks, NEW t \in Threads, NEW d \in CallRec, ReadStep(r, t, d)
    PROVE  Names'
<1> DEFINE c == call[r][t]
<1>1. /\ Busy(d) /\ call' = [call EXCEPT ![r][t] = d] /\ Alive(r) /\ OnWire(r, t)
      /\ d.op = c.op /\ d.key = c.key /\ d.val = c.val /\ d.due = c.due /\ Reads(r, t, d)
      /\ \A q \in Ranks \ {r} : ans'[q] = ans[q] /\ stream'[q] = stream[q]
      /\ UNCHANGED <<world, fd, inited, phase, mutex, mixed, entered, left, pub, pm, req>>
  BY DEF ReadStep
<1>2. /\ Types /\ Named(r) /\ Asked(r) /\ Told(r) /\ c \in CallRec /\ c.todo # <<>> /\ Commands(c)
      /\ InCall(r, t) /\ (r \notin mixed => Justified(r, c)) /\ entered[r] \in Nat
  BY <1>1, CallType, CountTypes DEF Wire, Names, Named, Busy, OnWire, InCall
<1>3. call'[r][t] = d /\ \A u \in Threads \ {t} : call'[r][u] = call[r][u]
  BY <1>1, <1>2, CallSet, ZenonT(40)
<1>4. /\ d.at \in {"body", "write", "done"}
      /\ \/ d.todo = c.todo /\ d.at = "body"
         \/ d.todo = <<>> \/ \E o : d.todo \in {After(c, o), AfterAnswer(c, o)}
      /\ ans[r] # <<>> \/ (ans'[r] = ans[r] /\ d.at # "body" /\ (Eof(r) \/ r \in mixed))
      /\ ans'[r] \in {ans[r], Tail(ans[r])}
      /\ d.at = "body" => ans'[r] = ans[r]
  BY <1>1 DEF Reads
<1>5. Commands(d)
  BY <1>1, <1>2, <1>4, CommandRest DEF Commands
<1>6. Asked(r)'
  <2>1. \/ OnWire(r, t)' /\ call'[r][t].todo = call[r][t].todo
           /\ call'[r][t].key = call[r][t].key /\ call'[r][t].val = call[r][t].val
        \/ r \in mixed \/ req[r] = <<>>
    <3>1. CASE d.todo = c.todo /\ d.at = "body"
      BY <1>1, <1>3, <3>1 DEF OnWire
    <3>2. CASE r \notin mixed
      BY <1>1, <1>4, <3>2, NothingAsked
    <3> QED  BY <3>2
  <2>2. Alive(r)' <=> Alive(r)
    BY <1>1 DEF Alive
  <2> QED  BY <1>1, <1>2, <1>3, <2>1, <2>2, AskedKept
<1>7. Told(r)'
  <2>1. CASE ans'[r] = ans[r]
    <3>1. Alive(r)' => Alive(r)
      BY <1>1 DEF Alive
    <3> QED  BY <1>1, <1>2, <1>3, <2>1, <3>1, ToldKept
  <2>2. CASE r \notin mixed /\ ans[r] # <<>> /\ ans'[r] = Tail(ans[r])
    <3>1. fd[r] # "closed"
      BY <1>2, Connected
    <3>2. ans'[r] = <<>>
      BY <1>1, <2>2, <3>1, AnswerAwaited
    <3> QED  BY <3>2 DEF Told
  <2>3. CASE r \in mixed
    BY <1>1, <2>3 DEF Told
  <2> QED  BY <1>4, <2>1, <2>2, <2>3
<1>8. r \notin mixed' => Justified(r, d)
  <2> SUFFICES ASSUME r \notin mixed PROVE Justified(r, d)
    BY <1>1
  <2>1. CASE /\ d.at = "body" /\ d.todo = c.todo /\ d.res = c.res /\ d.got = c.got
             /\ ans[r] # <<>> /\ ans'[r] = ans[r]
    BY <1>1, <1>2, <2>1, JustifiedSame
  <2>2. ASSUME NEW a \in Answers, NEW o \in Outcomes,
               ans[r] # <<>>, a = ans[r][1], o \in {Outcome(c, a), Verdict(c, a)},
               d.todo \in {After(c, o), AfterAnswer(c, o)},
               d.got = Value(c, a), c.res # "ok" => d.res = c.res,
               c.res = "ok" => d.res \in {o, Noticed(c, o)}
        PROVE  Justified(r, d)
    <3>1. PICK p \in {Outcome(c, a), Verdict(c, a)} : p = o
      BY <2>2
    <3>2. /\ d.todo \in {After(c, p), AfterAnswer(c, p)}
          /\ c.res # "ok" => d.res = c.res
          /\ c.res = "ok" => d.res \in {p, Noticed(c, p)}
      BY <2>2, <3>1
    <3> QED  BY <1>1, <2>2, <3>2, TakenJustified
  <2>3. CASE Eof(r) /\ IF c.res = "ok" THEN d.res \in {"lost", Noticed(c, "lost")}
                                       ELSE d.res = c.res
    <3>1. fd[r] # "open" \/ ~pm.up
      BY <2>3 DEF Eof
    <3>2. c.op \in Gets \cup Publications => Head(c.todo) \in {"put", "get", "barrier", "my_kvsname"}
      BY <1>2, CommandHead
    <3>3. /\ Noticed(c, "lost") \in {"lost", "unready", "ok"}
          /\ Noticed(c, "lost") = "ok" => c.op \notin Gets \cup Publications
      BY <3>2, NoticedIs
    <3>4. PICK o \in {"lost", "unready", "toolong", "ok"} :
             /\ o \in {"lost", Noticed(c, "lost")}
             /\ d.res = IF c.res = "ok" THEN o ELSE c.res
      BY <2>3, <3>3
    <3>5. o # "toolong" /\ (o = "ok" => c.op \notin Gets \cup Publications)
      BY <3>3, <3>4
    <3> QED  BY <1>1, <1>2, <2>3, <3>1, <3>4, <3>5, FailedJustified
  <2> QED  BY <1>1, <2>1, <2>2, <2>3 DEF Reads
<1>9. ASSUME Good(r)', Answered(r)'  PROVE Answered(r)
  <2>1. ans[r] # <<>>
    <3>1. ~Eof(r) \/ ans[r] # <<>>
      BY <1>1, <1>9 DEF Good, Eof
    <3> QED  BY <1>1, <1>4, <1>9, <3>1 DEF Good
  <2>2. CASE t = "main"
    BY <1>1, <1>3, <1>9, <2>1, <2>2 DEF Answered
  <2>3. CASE t # "main"
    BY <1>3, <1>9, <2>1, <2>3, Distinct DEF Answered, OnWire
  <2> QED  BY <2>2, <2>3
<1> QED  BY <1>1, <1>2, <1>4, <1>5, <1>6, <1>7, <1>8, <1>9, StepKeepsNames

\* A function returns.
LEMMA LeaveKeepsNames ==
    ASSUME Wire, Names, NEW r \in Ranks, NEW t \in Threads,
           NEW conn, NEW state, NEW stage, Leave(r, t, conn, state, stage),
           \/ call[r][t].op = InitOp /\ conn = fd[r] /\ stage = "ready"
              /\ (world.api = "pmi1" /\ pm.up /\ fd[r] = "open" => state = "pm")
           \/ stage = "final" /\ call[r][t].op = FinalOp /\ conn \in {fd[r], "closed"}
           \/ stage = phase[r] /\ phase[r] # "new" /\ conn = fd[r] /\ state = inited[r]
    PROVE  Names'
<1> DEFINE c == call[r][t]
           p == [val |-> IF c.res = "ok" /\ fd[r] = "open" THEN c.val ELSE 0,
                 at |-> entered[r] + 1]
<1>1. /\ Alive(r) /\ c.at = "done"
      /\ call' = [call EXCEPT ![r][t] = Idle]
      /\ fd' = [fd EXCEPT ![r] = conn]
      /\ inited' = [inited EXCEPT ![r] = state]
      /\ phase' = [phase EXCEPT ![r] = stage]
      /\ mutex' = [mutex EXCEPT ![r] = IF @ = t THEN None ELSE @]
      /\ left' = [left EXCEPT ![r] = IF c.op \in Barriers THEN @ + 1 ELSE @]
      /\ pub' = [pub EXCEPT ![r] = IF c.op \notin Publications THEN @ ELSE p]
      /\ UNCHANGED <<world, stream, mixed, entered, pm, req, ans>>
  BY DEF Leave, Release, managerVars
<1>2. /\ Types /\ Local(r) /\ Named(r) /\ entered[r] \in Nat /\ left[r] \in Nat
      /\ c \in CallRec /\ InCall(r, t) /\ c.todo = <<>>
      /\ "main" \in Threads /\ "helper" \in Threads
  BY <1>1, CallType, CountTypes, Distinct DEF Wire, Names, InCall, Busy, Threads
<1>3. /\ call \in [Ranks -> [Threads -> CallRec]]
      /\ fd \in [Ranks -> {"none", "open", "closed"}]
      /\ inited \in [Ranks -> {"no", "single", "pm"}]
      /\ phase \in [Ranks -> {"new", "ready", "final", "killed"}]
      /\ mutex \in [Ranks -> Threads \cup {None}]
      /\ left \in [Ranks -> 0 .. MaxBarriers]
      /\ pub \in [Ranks -> [val : Nat, at : Nat]]
  BY <1>2 DEF Types, TypeOK
<1>4. p.at = entered[r] + 1 /\ p.val = IF c.res = "ok" /\ fd[r] = "open" THEN c.val ELSE 0
  OBVIOUS
<1> HIDE DEF c, p
<1>5. /\ call'[r][t] = Idle /\ \A u \in Threads \ {t} : call'[r][u] = call[r][u]
      /\ fd'[r] = conn /\ inited'[r] = state /\ phase'[r] = stage
      /\ left'[r] = IF c.op \in Barriers THEN left[r] + 1 ELSE left[r]
      /\ pub'[r] = IF c.op \notin Publications THEN pub[r] ELSE p
      /\ \A q \in Ranks \ {r} : Same(q) /\ inited'[q] = inited[q] /\ pub'[q] = pub[q]
  BY <1>1, <1>3 DEF Same
<1>6. /\ call'[r][t].at = "idle" /\ call'[r][t].todo = <<>> /\ ~InCall(r, t)' /\ ~OnWire(r, t)'
      /\ \A u \in Threads : InCall(r, u)' => u # t /\ InCall(r, u) /\ call'[r][u] = call[r][u]
  BY <1>5 DEF Idle, InCall, OnWire
<1>7. fd[r] \in {"none", "open"} /\ phase[r] \in {"new", "ready"}
  BY <1>2, Connected
<1>8. phase[r] = "new" => t = "main" /\ ~InCall(r, "helper")
  BY <1>2 DEF Local, Socket, Threads
<1>9. c.op = FinalOp => t = "main" /\ ~InCall(r, "helper")
  BY <1>2 DEF c, Named, Life, Threads
<1>10. \/ c.op = InitOp /\ phase[r] = "new" /\ conn = fd[r] /\ stage = "ready" /\ t = "main"
          /\ (world.api = "pmi1" /\ pm.up /\ fd[r] = "open" => state = "pm")
       \/ stage = "final" /\ t = "main" /\ ~InCall(r, "helper") /\ conn \in {fd[r], "closed"}
       \/ stage = "ready" /\ phase[r] = "ready" /\ conn = fd[r] /\ state = inited[r]
  BY <1>2, <1>7, <1>8, <1>9 DEF c, Named, Life
<1>11. /\ stage \in {"ready", "final"} /\ conn \in {fd[r], "closed"}
       /\ (\E u \in Threads \ {t} : InCall(r, u)) => stage = "ready" /\ conn = fd[r]
                                                      /\ phase[r] = "ready"
  BY <1>7, <1>8, <1>10 DEF Threads
<1>12. Life(r)'
  <2>1. /\ phase'[r] # "new" /\ phase'[r] # "killed"
        /\ fd'[r] = "closed" => phase'[r] = "final"
        /\ fd'[r] = "open" => fd[r] = "open"
    BY <1>5, <1>7, <1>10, <1>11
  <2>2. world.env = "fd" /\ (phase'[r] = "ready" \/ InCall(r, "main")') => fd'[r] = "open"
    <3>1. InCall(r, "main")' => stage = "ready"
      BY <1>2, <1>6, <1>11
    <3>2. world.env = "fd" /\ stage = "ready" => fd[r] = "open" /\ conn = fd[r]
      BY <1>2, <1>10 DEF Named, Life
    <3> QED  BY <1>5, <3>1, <3>2
  <2>3. world.api = "pmi1" /\ phase'[r] = "ready" /\ pm'.up /\ fd'[r] = "open" => inited'[r] = "pm"
    BY <1>1, <1>2, <1>5, <1>10 DEF Named, Life
  <2>4. phase'[r] = "final" => \A u \in Threads : ~InCall(r, u)'
    BY <1>5, <1>6, <1>11
  <2>5. \A u \in Threads : ~(InCall(r, u)' /\ call'[r][u].op = InitOp)
    BY <1>2, <1>6, <1>11 DEF Named, Life
  <2>6. InCall(r, "helper")' => /\ entered[r] >= 1 /\ call'[r]["helper"].op # FinalOp
                                /\ ~InCall(r, "main")'
    <3>1. InCall(r, "helper")' => t = "main"
      BY <1>6 DEF Threads
    <3> QED  BY <1>2, <1>6, <3>1 DEF Named, Life
  <2>7. InitOp' = InitOp /\ FinalOp' = FinalOp /\ world' = world /\ entered' = entered
        /\ (fd[r] = "open" => world.env # "none")
    BY <1>1, <1>2 DEF InitOp, FinalOp, Named, Life
  <2> QED  BY <2>1, <2>2, <2>3, <2>4, <2>5, <2>6, <2>7 DEF Life
<1>13. c.op \in Publications => t = "main" /\ entered[r] = 0 /\ pub[r].at = 0 /\ r \notin mixed
  BY <1>2 DEF c, Named, Published
<1>14. Published(r)'
  <2>1. ASSUME NEW u \in Threads, InCall(r, u)', call'[r][u].op \in Publications
        PROVE  /\ u = "main" /\ entered[r] = 0 /\ pub'[r].at = 0
               /\ ~world.rankless /\ pm.up /\ fd'[r] = "open" => call'[r][u].key = r
    <3>1. /\ u # t /\ InCall(r, u) /\ call'[r][u] = call[r][u]
      BY <1>6, <2>1
    <3>2. /\ u = "main" /\ entered[r] = 0 /\ pub[r].at = 0
          /\ ~world.rankless /\ pm.up /\ fd[r] = "open" => call[r][u].key = r
      BY <1>2, <2>1, <3>1 DEF Named, Published
    <3>3. c.op \notin Publications /\ fd'[r] = fd[r]
      BY <1>5, <1>11, <1>13, <3>1, <3>2
    <3> QED  BY <1>5, <3>1, <3>2, <3>3
  <2>2. pub'[r].at = 0 => pub'[r].val = 0 /\ entered[r] = 0
    BY <1>2, <1>4, <1>5 DEF Named, Published
  <2>3. pub'[r].val # 0 => world.env # "none"
    BY <1>2, <1>4, <1>5 DEF Named, Published, Life
  <2>4. ~world.rankless /\ pm.up /\ pub'[r].val # 0 => pm.kvs[r] = pub'[r].val
    <3>1. CASE c.op \notin Publications
      BY <1>2, <1>5, <3>1 DEF Named, Published
    <3>2. CASE c.op \in Publications
      <4>1. Justified(r, c)
        BY <1>2, <1>13, <3>2 DEF c, Named
      <4> QED  BY <1>2, <1>4, <1>5, <3>2, <4>1 DEF Justified
    <3> QED  BY <3>1, <3>2
  <2>5. r \in mixed => entered[r] >= 1
    BY <1>2 DEF Named, Published
  <2> QED  BY <1>1, <2>1, <2>2, <2>3, <2>4, <2>5 DEF Published
<1>15. ~OnWire(r, t) /\ Alive(r)'
  BY <1>1, <1>5, <1>11 DEF c, OnWire, Alive
<1>16. Asked(r) /\ Told(r)
  BY <1>2 DEF Named
<1>17. Asked(r)'
  BY <1>1, <1>2, <1>5, <1>15, <1>16, AskedKept
<1>18. Told(r)'
  <2>1. fd'[r] = "open" => fd[r] = "open"
    BY <1>5, <1>11
  <2> QED  BY <1>1, <1>5, <1>15, <1>16, <2>1, ToldKept
<1>19. \A k \in Ranks : pub[k].val # 0 => pub'[k] = pub[k]
  <2>1. pub[r].val # 0 => pub[r].at # 0
    BY <1>2 DEF Named, Published
  <2> QED  BY <1>5, <1>13, <2>1
<1>20. ASSUME NEW u \in Threads
       PROVE  /\ Commands(call'[r][u])
              /\ InCall(r, u)' => Expects(r, call[r][u])'
              /\ InCall(r, u)' /\ r \notin mixed' => Justified(r, call[r][u])'
  <2>1. CASE u = t
    BY <1>6, <2>1, NoCommands
  <2>2. CASE u # t
    <3>1. /\ Commands(call[r][u]) /\ call'[r][u] = call[r][u]
          /\ InCall(r, u)' => InCall(r, u) /\ fd'[r] = fd[r]
          /\ InCall(r, u) => Expects(r, call[r][u])
          /\ InCall(r, u) /\ r \notin mixed => Justified(r, call[r][u])
      BY <1>2, <1>5, <1>6, <1>11, <2>2 DEF Named
    <3>2. left[r] >= 1 => left'[r] >= 1
      BY <1>2, <1>5
    <3>3. InCall(r, u)' => Expects(r, call[r][u])'
      BY <1>19, <3>1, <3>2 DEF Expects
    <3>4. InCall(r, u)' /\ r \notin mixed' => Justified(r, call[r][u])'
      BY <1>1, <3>1 DEF Justified
    <3> QED  BY <3>1, <3>3, <3>4
  <2> QED  BY <2>1, <2>2
<1>21. Named(r)'
  BY <1>12, <1>14, <1>17, <1>18, <1>20 DEF Named, Commands
<1>22. Through(r)' => Through(r)
  <2>1. /\ Good(r)' => Good(r)
        /\ InPm(r)' <=> InPm(r)
    BY <1>1, <1>5, <1>11 DEF Good, InPm
  <2>2. c.op \in Barriers => Answered(r)
    <3>1. c.op \in Barriers => t = "main"
      BY <1>2 DEF c, Local, Counts
    <3> QED  BY <1>1, <3>1 DEF c, Answered
  <2>3. Answered(r)' => Answered(r)
    <3>1. CASE t = "main"
      BY <1>6, <3>1 DEF Answered, OnWire
    <3>2. CASE t # "main"
      BY <1>1, <1>2, <1>5, <3>2 DEF Answered, OnWire
    <3> QED  BY <3>1, <3>2
  <2> QED  BY <1>5, <2>1, <2>2, <2>3 DEF Through
<1>23. pub[r].at # 0 => pub'[r] = pub[r]
  BY <1>5, <1>13
<1> QED  BY <1>1, <1>5, <1>21, <1>22, <1>23, NamesElsewhere

\* The functions of PMI1 and PMI2 return.
LEMMA ReturnKeepsNames ==
    ASSUME Wire, Names, NEW r \in Ranks, NEW t \in Threads,
           \/ world.api = "pmi1" /\ t = "main" /\ Return1(r)
           \/ world.api = "pmi2" /\ Return2(r, t)
    PROVE  Names'
<1>1. Types /\ Local(r) /\ call[r][t].at = "done"
  BY DEF Wire, Return1, Return2, Leave
<1>2. phase[r] = "new" => call[r][t].op = InitOp
  BY <1>1 DEF Local, Socket, InCall, Threads
<1>3. CASE world.api = "pmi1" /\ t = "main" /\ Return1(r)
  <2> DEFINE op == call[r]["main"].op
             conn == IF op = "PMI_Finalize" /\ WithManager(r) THEN "closed" ELSE fd[r]
             state == Initialized1(r, call[r]["main"])
             stage == CASE op = "PMI_Init"     -> "ready"
                        [] op = "PMI_Finalize" -> "final"
                        [] OTHER               -> phase[r]
  <2>1. Leave(r, "main", conn, state, stage)
    BY <1>3 DEF Return1
  <2>2. \/ op = InitOp /\ conn = fd[r] /\ stage = "ready"
           /\ (world.api = "pmi1" /\ pm.up /\ fd[r] = "open" => state = "pm")
        \/ stage = "final" /\ op = FinalOp /\ conn \in {fd[r], "closed"}
        \/ stage = phase[r] /\ phase[r] # "new" /\ conn = fd[r] /\ state = inited[r]
    <3>1. inited[r] # "single" /\ Named(r) /\ InCall(r, "main") /\ "main" \in Threads
      BY <1>1, <1>3, Distinct DEF Types, Names, InCall
    <3>2. op # "PMI_Init" => state = inited[r]
      BY <3>1 DEF Initialized1, Promoting
    <3>3. op = "PMI_Init" => phase[r] = "new" /\ entered[r] = 0 /\ r \notin mixed
      BY <1>3, <3>1 DEF Named, Life, Published, InitOp
    <3>4. op = "PMI_Init" /\ pm.up /\ fd[r] = "open" => call[r]["main"].res # "unready"
      BY <3>1, <3>3 DEF Named, Justified
    <3>5. op = "PMI_Init" /\ pm.up /\ fd[r] = "open" => state = "pm"
      BY <3>4 DEF Initialized1, Succeeds1, NameService, Promoting
    <3> HIDE DEF state
    <3> QED  BY <1>2, <1>3, <3>2, <3>5 DEF InitOp, FinalOp
  <2> HIDE DEF conn, state, stage
  <2> QED  BY <1>3, <2>1, <2>2, LeaveKeepsNames
<1>4. CASE world.api = "pmi2" /\ Return2(r, t)
  <2> DEFINE c == call[r][t]
             op == c.op
             conn == IF Closes(r, c) THEN "closed" ELSE fd[r]
             state == CASE op = "PMI2_Init" /\ world.env = "none"  -> "single"
                        [] op = "PMI2_Init" /\ Succeeds2(r, c)     -> "pm"
                        [] OTHER                                   -> inited[r]
             stage == CASE op = "PMI2_Init"     -> "ready"
                        [] op = "PMI2_Finalize" -> "final"
                        [] OTHER                -> phase[r]
  <2>1. Leave(r, t, conn, state, stage)
    BY <1>4 DEF Return2
  <2>2. \/ op = InitOp /\ conn = fd[r] /\ stage = "ready"
           /\ (world.api = "pmi1" /\ pm.up /\ fd[r] = "open" => state = "pm")
        \/ stage = "final" /\ op = FinalOp /\ conn \in {fd[r], "closed"}
        \/ stage = phase[r] /\ phase[r] # "new" /\ conn = fd[r] /\ state = inited[r]
    BY <1>2, <1>4 DEF InitOp, FinalOp, Closes
  <2> HIDE DEF conn, state, stage
  <2> QED  BY <2>1, <2>2, LeaveKeepsNames
<1> QED  BY <1>3, <1>4

\* Entering a function.
LEMMA EntryKeepsNames ==
    ASSUME Wire, Names, NEW r \in Ranks, NEW t, NEW op, NEW todo, NEW key,
           NEW val, NEW first, NEW conn, Entry(r, t, op, todo, key, val, first, conn),
           r \notin mixed
    PROVE  Names'
<1> DEFINE c == [Idle EXCEPT !.op = op, !.todo = todo, !.key = key, !.val = val,
                             !.at = IF todo = <<>> THEN "done" ELSE first,
                             !.due = DueFor(r, key)]
<1>1. /\ t \in Threads /\ todo \in Seq(Cmds) /\ first \in {"lock", "write"}
      /\ Alive(r) /\ ~InCall(r, t) /\ key \in Keys
      /\ call' = [call EXCEPT ![r][t] = c]
      /\ fd' = [fd EXCEPT ![r] = conn]
      /\ entered' = [entered EXCEPT ![r] = IF op \in Barriers THEN @ + 1 ELSE @]
      /\ UNCHANGED <<world, inited, phase, mutex, stream, mixed, left, pub, pm, req, ans>>
      /\ Exchanges(r, t, op, todo, key) /\ Allowed(r, t, op)
      /\ \/ /\ phase[r] = "new" /\ t = "main" /\ op = InitOp /\ conn \in {"none", "open"}
            /\ conn = "open" => world.env # "none"
            /\ conn = "none" => world.env # "fd"
         \/ phase[r] = "ready" /\ conn = fd[r] /\ op # InitOp
  BY DEF Entry, Enter, managerVars
<1>2. /\ Types /\ Local(r) /\ Named(r) /\ entered[r] \in Nat /\ left[r] \in Nat
      /\ "main" \in Threads /\ "helper" \in Threads /\ world \in Worlds
      /\ \A k \in Ranks : pub[k].at \in Nat
  BY CountTypes DEF Wire, Names, Threads, Types, TypeOK
<1>3. /\ c.op = op /\ c.todo = todo /\ c.at = (IF todo = <<>> THEN "done" ELSE first)
      /\ c.key = key /\ c.val = val /\ c.res = "ok" /\ c.due = DueFor(r, key)
  BY DEF Idle
<1> HIDE DEF c
<1>4. /\ call \in [Ranks -> [Threads -> CallRec]] /\ fd \in [Ranks -> {"none", "open", "closed"}]
      /\ entered \in [Ranks -> 0 .. MaxBarriers]
  BY <1>2 DEF Types, TypeOK
<1>5. /\ call'[r][t] = c /\ \A u \in Threads \ {t} : call'[r][u] = call[r][u]
      /\ \A q \in Ranks \ {r} : call'[q] = call[q]
      /\ fd'[r] = conn /\ \A q \in Ranks \ {r} : fd'[q] = fd[q]
      /\ entered'[r] = IF op \in Barriers THEN entered[r] + 1 ELSE entered[r]
      /\ \A q \in Ranks \ {r} : entered'[q] = entered[q]
  BY <1>1, <1>4
<1>6. \A q \in Ranks \ {r} : Same(q) /\ inited'[q] = inited[q] /\ pub'[q] = pub[q]
  BY <1>1, <1>5 DEF Same
<1>7. /\ op \in Barriers => /\ t = "main" /\ phase[r] = "ready" /\ pub[r].at # 0
                            /\ todo = <<>> => world.api = "pmi1" /\ inited[r] # "pm"
      /\ op \in Publications =>
            /\ t = "main" /\ pub[r].at = 0 /\ key \in lcm_pm_get_rank(r) /\ phase[r] = "ready"
            /\ op \notin Barriers
            /\ todo = <<>> => world.api = "pmi1" /\ inited[r] = "single"
      /\ op \in Gets => todo # <<>>
  <2>1. op = InitOp => op \notin Barriers \cup Publications \cup Gets
    BY Kinds DEF InitOp
  <2>2. <<"barrier">> # <<>> /\ <<"put">> # <<>> /\ <<"my_kvsname", "put">> # <<>>
        /\ <<"get">> # <<>> /\ <<"my_kvsname", "get">> # <<>>
    OBVIOUS
  <2> QED  BY <1>1, <2>1, <2>2, Kinds DEF Exchanges
<1>8. /\ phase[r] = "new" => /\ fd[r] = "none" /\ entered[r] = 0 /\ left[r] = 0
                             /\ t = "main" /\ ~InCall(r, "helper")
      /\ fd[r] = "open" => world.env # "none"
      /\ phase[r] = "ready" => fd[r] # "closed" /\ (world.env = "fd" => fd[r] = "open")
      /\ phase[r] = "ready" /\ world.api = "pmi1" /\ pm.up /\ fd[r] = "open" => inited[r] = "pm"
  BY <1>1, <1>2 DEF Local, Socket, Counts, Named, Life
<1>9. t = "helper" => entered[r] >= 1 /\ entered'[r] = entered[r]
  BY <1>1, <1>5, <1>7 DEF Allowed
<1>10. /\ \A u \in Threads \ {t} : /\ InCall(r, u)' <=> InCall(r, u)
                                   /\ InCall(r, u) => phase[r] = "ready" /\ fd'[r] = fd[r]
       /\ InCall(r, t)' /\ ~OnWire(r, t) /\ (Alive(r)' <=> Alive(r))
  BY <1>1, <1>3, <1>5, <1>8 DEF InCall, OnWire, Alive, Threads
<1>11. Life(r)'
  <2>1. /\ InitOp' = InitOp /\ FinalOp' = FinalOp /\ phase' = phase
        /\ inited' = inited /\ world' = world /\ pm' = pm
    BY <1>1 DEF InitOp, FinalOp
  <2>2. phase[r] = "new" => entered'[r] = 0
    BY <1>5, <1>7, <1>8
  <2>3. /\ fd'[r] # "closed" /\ (fd'[r] = "open" => world.env # "none")
        /\ world.env = "fd" => fd'[r] = "open"
        /\ world.api = "pmi1" /\ phase[r] = "ready" /\ pm.up /\ fd'[r] = "open" => inited[r] = "pm"
    BY <1>1, <1>5, <1>8
  <2>4. \A u \in Threads : InCall(r, u)' /\ call'[r][u].op = InitOp => phase[r] = "new"
    BY <1>1, <1>2, <1>3, <1>5, <1>10 DEF Named, Life
  <2>5. InCall(r, "helper")' =>
           /\ entered'[r] >= 1 /\ call'[r]["helper"].op # FinalOp
           /\ ~(InCall(r, "main")' /\ call'[r]["main"].op = FinalOp)
    <3>1. CASE t = "helper"
      BY <1>1, <1>2, <1>3, <1>5, <1>9, <1>10, <3>1 DEF Allowed
    <3>2. CASE t = "main"
      <4>1. /\ InCall(r, "helper")' <=> InCall(r, "helper")
            /\ call'[r]["helper"] = call[r]["helper"] /\ call'[r]["main"].op = op
        BY <1>2, <1>3, <1>5, <1>10, <3>2
      <4>2. InCall(r, "helper") => /\ op # FinalOp /\ entered[r] >= 1
                                   /\ call[r]["helper"].op # FinalOp
        BY <1>1, <1>2 DEF Allowed, Named, Life
      <4> QED  BY <1>2, <1>5, <4>1, <4>2
    <3> QED  BY <1>1, <3>1, <3>2 DEF Threads
  <2>6. phase[r] \notin {"final", "killed"}
    BY <1>1
  <2> QED  BY <2>1, <2>2, <2>3, <2>4, <2>5, <2>6 DEF Life
<1>12. Published(r)'
  <2>1. ASSUME NEW u \in Threads, InCall(r, u)', call'[r][u].op \in Publications
        PROVE  /\ u = "main" /\ entered'[r] = 0 /\ pub[r].at = 0
               /\ ~world.rankless /\ pm.up /\ fd'[r] = "open" => call'[r][u].key = r
    <3>1. CASE u = t
      <4>1. /\ u = "main" /\ pub[r].at = 0 /\ key \in lcm_pm_get_rank(r) /\ phase[r] = "ready"
            /\ entered'[r] = entered[r] /\ call'[r][u].key = key /\ fd'[r] = fd[r]
        BY <1>1, <1>3, <1>5, <1>7, <2>1, <3>1
      <4>2. entered[r] = 0
        BY <1>2, <4>1 DEF Named, Published
      <4>3. ~world.rankless /\ pm.up /\ fd[r] = "open" => lcm_pm_get_rank(r) = {r}
        <5>1. world.api \in {"pmi1", "pmi2"}
          BY <1>2 DEF Worlds
        <5> QED  BY <1>8, <4>1, <5>1 DEF lcm_pm_get_rank, PMI2_Job_GetRank
      <4> QED  BY <4>1, <4>2, <4>3
    <3>2. CASE u # t
      <4>1. InCall(r, u) /\ call'[r][u] = call[r][u]
        BY <1>5, <1>10, <2>1, <3>2
      <4>2. u = "main" /\ entered[r] = 0
        BY <1>2, <2>1, <4>1 DEF Named, Published
      <4>3. t = "helper"
        BY <1>1, <3>2, <4>2 DEF Threads
      <4> QED  BY <1>9, <4>2, <4>3
    <3> QED  BY <3>1, <3>2
  <2>2. pub[r].at = 0 => pub[r].val = 0 /\ entered'[r] = 0
    BY <1>2, <1>5, <1>7 DEF Named, Published
  <2>3. /\ pub[r].val # 0 => world.env # "none"
        /\ ~world.rankless /\ pm.up /\ pub[r].val # 0 => pm.kvs[r] = pub[r].val
    BY <1>2 DEF Named, Published
  <2> QED  BY <1>1, <2>1, <2>2, <2>3 DEF Published
<1>13. Asked(r)'
  <2>1. Asked(r) /\ entered'[r] \in Nat /\ entered'[r] >= entered[r]
    BY <1>2, <1>5 DEF Named
  <2>2. (\E i \in 1 .. Len(req[r]) : req[r][i].cmd = "put") => entered'[r] = entered[r]
    <3>1. ASSUME NEW i \in 1 .. Len(req[r]), req[r][i].cmd = "put", op \in Barriers
          PROVE  FALSE
      BY <1>1, <1>7, <1>10, <3>1, NoPut
    <3> QED  BY <1>5, <3>1
  <2> QED  BY <1>1, <1>2, <1>5, <1>10, <2>1, <2>2, AskedKept
<1>14. Told(r)'
  <2>1. fd[r] = "none" => ans[r] = <<>>
    BY <1>2 DEF Local, Socket, Quiet
  <2>2. Told(r) /\ (fd'[r] = "open" => fd[r] = "open" \/ ans[r] = <<>>)
    BY <1>1, <1>2, <1>5, <1>8, <2>1 DEF Named
  <2> QED  BY <1>1, <1>5, <1>10, <2>2, ToldKept
<1>15. /\ Commands(c) /\ Expects(r, c) /\ c.res = "ok" /\ (c.op \in Gets => c.todo # <<>>)
       /\ c.op \in Publications => c.todo # <<>>
  <2>1. Commands(c)
    BY <1>1, <1>3, Kinds DEF Exchanges, Commands
  <2>2. Expects(r, c)
    <3>1. c.due # 0 => key \in Ranks /\ pub[key].at # 0 /\ pub[key].at <= left[r]
                       /\ c.due = pub[key].val
      BY <1>3 DEF DueFor
    <3>2. c.due # 0 => left[r] >= 1
      BY <1>2, <3>1
    <3> QED  BY <1>3, <3>1, <3>2 DEF Expects
  <2>3. c.op \in Publications => c.todo # <<>>
    BY <1>2, <1>3, <1>7 DEF Types
  <2>4. c.op \in Gets => c.todo # <<>>
    BY <1>3, <1>7
  <2>5. c.res = "ok"
    BY <1>3
  <2> QED  BY <2>1, <2>2, <2>3, <2>4, <2>5
<1>16. ASSUME NEW u \in Threads
       PROVE  /\ Commands(call'[r][u])
              /\ InCall(r, u)' => Expects(r, call[r][u])'
              /\ InCall(r, u)' /\ r \notin mixed' => Justified(r, call[r][u])'
  <2>1. CASE u = t
    <3>1. Commands(call'[r][u])
      BY <1>5, <1>15, <2>1
    <3>2. Expects(r, call[r][u])'
      BY <1>1, <1>5, <1>15, <2>1 DEF Expects
    <3>3. Justified(r, call[r][u])'
      BY <1>5, <1>15, <2>1 DEF Justified
    <3> QED  BY <3>1, <3>2, <3>3
  <2>2. CASE u # t
    <3>1. /\ Commands(call[r][u]) /\ call'[r][u] = call[r][u]
          /\ InCall(r, u)' => InCall(r, u) /\ fd'[r] = fd[r]
          /\ InCall(r, u) => Expects(r, call[r][u])
          /\ InCall(r, u) => Justified(r, call[r][u])
      BY <1>2, <1>5, <1>10, <2>2 DEF Named
    <3>2. InCall(r, u)' => Expects(r, call[r][u])'
      BY <1>1, <3>1 DEF Expects
    <3>3. InCall(r, u)' => Justified(r, call[r][u])'
      BY <1>1, <3>1 DEF Justified
    <3> QED  BY <3>1, <3>2, <3>3
  <2> QED  BY <2>1, <2>2
<1>17. Named(r)'
  BY <1>11, <1>12, <1>13, <1>14, <1>16 DEF Named, Commands
<1>18. Through(r)' => Through(r)
  <2>1. InPm(r)' <=> InPm(r)
    BY <1>1 DEF InPm
  <2>2. t = "main" /\ Answered(r)' => op \in Barriers /\ todo = <<>>
    BY <1>1, <1>3, <1>5 DEF Answered, OnWire
  <2>3. t # "main" => (Answered(r)' <=> Answered(r))
    BY <1>1, <1>2, <1>5 DEF Answered, OnWire
  <2>4. CASE phase[r] = "new"
    <3>1. ~Answered(r)' /\ left'[r] = 0
      BY <1>1, <1>7, <1>8, <2>2, <2>4
    <3> QED  BY <3>1 DEF Through
  <2>5. CASE phase[r] = "ready"
    <3>1. Good(r)' => Good(r) /\ fd[r] = "open" /\ pm.up
      BY <1>1, <1>5, <2>5 DEF Good
    <3>2. t = "main" /\ Good(r)' => ~Answered(r)'
      BY <1>7, <1>8, <2>2, <2>5, <3>1
    <3> QED  BY <1>1, <2>1, <2>3, <3>1, <3>2 DEF Through
  <2> QED  BY <1>1, <2>4, <2>5
<1> QED  BY <1>1, <1>6, <1>17, <1>18, NamesElsewhere

-----------------------------------------------------------------------------
\* What the manager does for rank q, whose client does nothing meanwhile.
LEMMA ManagerNamed ==
    ASSUME Wire, Names, NEW q \in Ranks, UNCHANGED <<clientVars, history>>, pm'.up = pm.up,
           Asked(q)', Told(q)',
           ~world.rankless => \/ pm'.kvs[q] = pm.kvs[q]
                              \/ /\ pub[q].at = 0
                                 /\ \A t \in Threads : InCall(q, t) => call[q][t].todo # <<>>
    PROVE  Named(q)'
<1>1. UNCHANGED <<world, fd, inited, phase, mutex, stream, call, mixed, entered, left, pub>>
  BY DEF clientVars, history
<1>2. Named(q)
  BY DEF Names
<1>3. Life(q)'
  BY <1>1, <1>2 DEF Named, Life, InCall, InitOp, FinalOp
<1>4. Published(q)'
  BY <1>1, <1>2 DEF Named, Published, InCall
<1>5. ASSUME NEW t \in Threads
      PROVE  /\ Commands(call'[q][t])
             /\ InCall(q, t)' => Expects(q, call[q][t])'
             /\ InCall(q, t)' /\ q \notin mixed' => Justified(q, call[q][t])'
  <2>1. /\ Commands(call[q][t])
        /\ InCall(q, t) => Expects(q, call[q][t])
        /\ InCall(q, t) /\ q \notin mixed => Justified(q, call[q][t])
        /\ InCall(q, t)' <=> InCall(q, t)
    BY <1>1, <1>2 DEF Named, InCall
  <2>2. InCall(q, t)' => Expects(q, call[q][t])'
    BY <1>1, <2>1 DEF Expects
  <2>3. InCall(q, t)' /\ q \notin mixed' => Justified(q, call[q][t])'
    BY <1>1, <2>1 DEF Justified
  <2> QED  BY <1>1, <2>1, <2>2, <2>3
<1> QED  BY <1>3, <1>4, <1>5 DEF Named, Commands

\* The requests that are left when the manager has taken one.
LEMMA AskedLess ==
    ASSUME NEW q \in Ranks, Asked(q), UNCHANGED <<call, phase, mixed, entered>>,
           \A j \in 1 .. Len(req'[q]) : \E k \in 1 .. Len(req[q]) : req'[q][j] = req[q][k],
           InPm(q)' => entered[q] >= 1
    PROVE  Asked(q)'
<1>1. Alive(q)' <=> Alive(q)
  BY DEF Alive
<1>2. ASSUME NEW j \in 1 .. Len(req'[q])
      PROVE  (LET x == req[q][j]
              IN  /\ x.cmd = "put" => entered[q] = 0 /\ Alive(q)
                  /\ x.cmd = "barrier" => entered[q] >= 1
                  /\ x.cmd \in {"put", "get"} /\ q \notin mixed /\ Alive(q) =>
                        /\ For(q, x)
                        /\ x.key = call[q][x.by].key /\ x.val = call[q][x.by].val)'
  <2>1. PICK k \in 1 .. Len(req[q]) : req'[q][j] = req[q][k]
    OBVIOUS
  <2>2. PICK x : x = req[q][k]
    OBVIOUS
  <2>3. /\ x.cmd = "put" => entered[q] = 0 /\ Alive(q)
        /\ x.cmd = "barrier" => entered[q] >= 1
        /\ x.cmd \in {"put", "get"} /\ q \notin mixed /\ Alive(q) =>
              /\ For(q, x)
              /\ x.key = call[q][x.by].key /\ x.val = call[q][x.by].val
    BY <2>2 DEF Asked
  <2>4. For(q, x) => For(q, x)'
    BY DEF For, OnWire
  <2> QED  BY <1>1, <2>1, <2>2, <2>3, <2>4 DEF For, OnWire
<1> QED  BY <1>2 DEF Asked, For, OnWire

\* The manager takes a request out of the sequence.
LEMMA TakenReq ==
    ASSUME Types, NEW r \in Ranks, NEW i \in 1 .. Len(req[r]),
           req' = [req EXCEPT ![r] = RemoveAt(@, i)]
    PROVE  /\ \A q \in Ranks \ {r} : req'[q] = req[q]
           /\ \A q \in Ranks : \A j \in 1 .. Len(req'[q]) :
                 \E k \in 1 .. Len(req[q]) : req'[q][j] = req[q][k]
<1> DEFINE s == req[r]
           u == RemoveAt(s, i)
           n == Len(s)
<1>1. s \in Seq(Requests) /\ req \in [Ranks -> Seq(Requests)]
  BY DEF Types
<1>2. /\ Len(u) = n - 1 /\ n \in Nat /\ i \in 1 .. n
      /\ \A j \in 1 .. n - 1 : u[j] = IF j < i THEN s[j] ELSE s[j + 1]
  BY <1>1, Removed, SMTT(30)
<1>3. req'[r] = u /\ req[r] = s /\ \A q \in Ranks \ {r} : req'[q] = req[q]
  BY <1>1
<1>4. \A j \in 1 .. Len(u) : \E k \in 1 .. n : u[j] = s[k]
  <2> HIDE DEF s, u, n
  <2>1. ASSUME NEW j \in 1 .. n - 1  PROVE \E k \in 1 .. n : u[j] = s[k]
    <3>1. CASE j < i
      BY <1>2, <3>1
    <3>2. CASE ~(j < i)
      <4>1. j + 1 \in 1 .. n /\ u[j] = s[j + 1]
        BY <1>2, <3>2
      <4> QED  BY <4>1
    <3> QED  BY <3>1, <3>2
  <2> QED  BY <1>2, <2>1
<1>5. ASSUME NEW q \in Ranks
      PROVE  \A j \in 1 .. Len(req'[q]) : \E k \in 1 .. Len(req[q]) : req'[q][j] = req[q][k]
  <2>1. CASE q = r
    BY <1>3, <1>4, <2>1
  <2>2. CASE q # r
    BY <1>3, <2>2
  <2> QED  BY <2>1, <2>2
<1> QED  BY <1>3, <1>5

\* A new answer is the only one, and it is for the thread that waits.
LEMMA NewAnswer ==
    ASSUME Wire, Wire', NEW q \in Ranks, q \notin mixed', Alive(q)', fd'[q] # "closed",
           NEW a \in Answers, ans'[q] = Append(ans[q], a)
    PROVE  /\ ans[q] = <<>> /\ ans'[q][1] = a /\ ans'[q] # <<>>
           /\ OnWire(q, a.by)' /\ a.cmd = Head(call'[q][a.by].todo) /\ a.by \in Threads
<1>1. ans[q] \in Seq(Answers) /\ Exchange(q)'
  BY DEF Wire, Types, Local
<1>2. /\ ans'[q] # <<>> /\ (ans[q] = <<>> => ans'[q][1] = a)
  BY <1>1, Appended
<1>3. Pending(q)'
  BY <1>1, <1>2 DEF Exchange
<1>4. Len(ans'[q]) = 1 /\ For(q, ans[q][1])'
  BY <1>2, <1>3 DEF Pending
<1>5. ans[q] = <<>>
  <2> DEFINE n == Len(ans[q])
  <2>1. Len(ans'[q]) = n + 1 /\ n \in Nat
    BY <1>1, AppendProperties
  <2>2. n = 0 => ans[q] = <<>>
    BY <1>1, EmptySeq
  <2> HIDE DEF n
  <2> QED  BY <1>4, <2>1, <2>2
<1>6. a.by \in Threads
  BY DEF Answers
<1> QED  BY <1>2, <1>4, <1>5, <1>6 DEF For

\* An answer to another request is not taken for the answer to a barrier.
LEMMA NoBarrierAnswer ==
    ASSUME Wire, Wire', Names, NEW q \in Ranks, UNCHANGED <<call, phase>>, Good(q)',
           NEW a \in Answers, a.cmd # "barrier", ans'[q] = Append(ans[q], a)
    PROVE  Answered(q)' => Answered(q)
<1> SUFFICES ASSUME OnWire(q, "main"), call[q]["main"].op \in Barriers, ans[q] = <<>>
             PROVE  FALSE
  BY DEF Answered, OnWire
<1> DEFINE c == call[q]["main"]
<1>1. "main" \in Threads /\ InCall(q, "main")
  BY DEF OnWire, InCall, Threads
<1>2. Alive(q)'
  BY <1>1, Connected DEF Alive
<1>3. OnWire(q, a.by)' /\ a.cmd = Head(call'[q][a.by].todo) /\ a.by \in Threads
  BY <1>2, NewAnswer DEF Good
<1>4. Exchange(q)'
  BY <1>2 DEF Wire, Local, Good
<1>5. a.by = "main"
  BY <1>1, <1>3, <1>4 DEF Exchange, OnWire
<1>6. c \in CallRec /\ c.todo # <<>> /\ Commands(c)
  BY <1>1, CallType DEF Wire, Busy, Names, Named, OnWire
<1>7. Head(c.todo) = "barrier"
  BY <1>6, CommandHead
<1> QED  BY <1>3, <1>5, <1>7

\* A request of all ranks completes the round, or waits.
LEMMA CollectRound ==
    ASSUME Types, NEW r \in Ranks, NEW m \in Requests, Collect(r, m)
    PROVE  \/ /\ \A q \in Ranks \ {r} : pm.in[q] # None /\ pm.in[q].cmd = m.cmd
              /\ pm'.due = {k \in Keys : pm.kvs[k] # 0}
              /\ \A q \in Ranks : pm'.in[q] = None
           \/ /\ pm'.due = pm.due /\ pm'.in[r] = m
              /\ \A q \in Ranks \ {r} : pm'.in[q] = pm.in[q] /\ ans'[q] = ans[q]
              /\ m.cmd = "ring" => ans' = ans
<1> DEFINE in == [pm.in EXCEPT ![r] = m]
           all == \A q \in Ranks : in[q] # None /\ in[q].cmd = m.cmd
           early == pm.lazy /\ m.cmd = "barrier"
           first == {q \in Ranks : q = r \/ (all /\ ~early)}
<1>1. /\ pm' = IF all THEN [pm EXCEPT !.in = [q \in Ranks |-> None],
                                      !.due = {k \in Keys : pm.kvs[k] # 0}]
                      ELSE [pm EXCEPT !.in = in]
      /\ ans' = IF all \/ early
                THEN [q \in Ranks |-> IF q \in first THEN Append(ans[q], Answer(in[q], 0, 0))
                                                     ELSE ans[q]]
                ELSE ans
  BY DEF Collect
<1>2. pm \in Managers
  BY DEF Types
<1>3. in[r] = m /\ \A q \in Ranks \ {r} : in[q] = pm.in[q]
  BY <1>2 DEF Managers
<1>4. CASE all
  <2>1. pm' = [pm EXCEPT !.in = [q \in Ranks |-> None], !.due = {k \in Keys : pm.kvs[k] # 0}]
    BY <1>1, <1>4
  <2>2. \A q \in Ranks \ {r} : pm.in[q] # None /\ pm.in[q].cmd = m.cmd
    BY <1>3, <1>4
  <2> QED  BY <1>2, <2>1, <2>2 DEF Managers
<1>5. CASE ~all
  <2>1. pm' = [pm EXCEPT !.in = in]
    BY <1>1, <1>5
  <2>2. \A q \in Ranks \ {r} : q \notin first
    BY <1>5
  <2>3. /\ \A q \in Ranks \ {r} : ans'[q] = ans[q]
        /\ m.cmd = "ring" => ans' = ans
    BY <1>1, <1>5, <2>2
  <2> HIDE DEF in, all, first
  <2> QED  BY <1>2, <1>3, <2>1, <2>3 DEF Managers
<1> QED  BY <1>4, <1>5

\* The manager answers a get with what is due.
LEMMA GetFindsDue ==
    ASSUME Wire, Names, NEW r \in Ranks \ mixed, NEW i \in 1 .. Len(req[r]),
           NEW m \in Requests, m = req[r][i], m.cmd = "get", Alive(r), fd[r] = "open", pm.up,
           r \notin pm.mid, Servable(r, m), ~world.rankless,
           call[r][m.by].due # 0
    PROVE  /\ m.key \in pm.due
           /\ pm.kvs[m.key] = call[r][m.by].due
<1> DEFINE c == call[r][m.by]
<1>1. Named(r) /\ m.by \in Threads
  BY DEF Names, Requests
<1>2. For(r, m) /\ m.key = c.key
  BY <1>1 DEF Named, Asked
<1>3. InCall(r, m.by)
  BY <1>2 DEF For, OnWire, InCall
<1>4. c.key \in Ranks /\ pub[c.key].val = c.due /\ left[r] >= 1
  BY <1>1, <1>3 DEF Named, Expects
<1>5. ~InPm(r)
  BY DEF Servable, InPm
<1>6. Through(r)
  BY <1>4, <1>5 DEF Through, Good
<1>7. Owed
  BY <1>6 DEF Names
<1>8. m.key \in pm.due
  BY <1>2, <1>4, <1>7 DEF Owed
<1>9. pm.kvs[m.key] = c.due
  <2>1. Published(c.key)
    BY <1>4 DEF Names, Named
  <2>2. pub[c.key].val # 0
    BY <1>4
  <2> QED  BY <1>2, <1>4, <2>1, <2>2 DEF Published
<1> QED  BY <1>8, <1>9

\* The manager answers a request of one rank.
LEMMA RespondKeepsNames ==
    ASSUME Wire, Wire', Names, NEW r \in Ranks, UNCHANGED <<clientVars, history>>,
           NEW i \in 1 .. Len(req[r]), NEW m \in Requests, m = req[r][i], Serving(r, i),
           r \notin pm.mid, m.cmd \notin Collective, NEW a \in Answers, Responds(r, m, a)
    PROVE  Names'
<1>1. /\ UNCHANGED <<world, fd, inited, phase, mutex, stream, call, mixed, entered, left, pub>>
      /\ req' = [req EXCEPT ![r] = RemoveAt(@, i)] /\ pm.up /\ Servable(r, m)
  BY DEF clientVars, history, Serving
<1>2. /\ Types /\ \A q \in Ranks : Named(q)
      /\ pm \in Managers /\ ans \in [Ranks -> Seq(Answers)]
  BY DEF Wire, Names, Types
<1>3. /\ a.cmd = m.cmd /\ a.by = m.by /\ a.by \in Threads
      /\ ans'[r] = Append(ans[r], a) /\ \A q \in Ranks \ {r} : ans'[q] = ans[q]
      /\ pm'.up = pm.up /\ pm'.in = pm.in /\ pm'.due = pm.due
  BY <1>2 DEF Responds, Answers
<1>4. /\ \A q \in Ranks \ {r} : req'[q] = req[q]
      /\ \A q \in Ranks : \A j \in 1 .. Len(req'[q]) :
            \E k \in 1 .. Len(req[q]) : req'[q][j] = req[q][k]
  BY <1>1, <1>2, TakenReq
<1>5. ASSUME m.cmd = "put", ~world.rankless
      PROVE  /\ m.key = r /\ pub[r].at = 0 /\ m.val = call[r][m.by].val
             /\ \A t \in Threads : InCall(r, t) => call[r][t].todo # <<>>
  <2>1. /\ call[r]["main"].op \in Publications /\ OnWire(r, "main") /\ m.by = "main"
        /\ pub[r].at = 0 /\ ~InCall(r, "helper") /\ fd[r] = "open"
        /\ m.key = call[r]["main"].key /\ m.val = call[r]["main"].val
    BY <1>5, NoPut
  <2>2. InCall(r, "main") /\ "main" \in Threads
    BY <2>1 DEF OnWire, InCall, Threads
  <2>3. call[r]["main"].key = r
    BY <1>1, <1>2, <1>5, <2>1, <2>2 DEF Named, Published
  <2>4. call[r]["main"].todo # <<>>
    BY <1>2, <2>1, <2>2, CallType DEF Busy, OnWire
  <2> QED  BY <2>1, <2>3, <2>4 DEF Threads
<1>6. ~world.rankless => /\ \A q \in Ranks \ {r} : pm'.kvs[q] = pm.kvs[q]
                         /\ m.cmd # "put" => pm'.kvs = pm.kvs
                         /\ m.cmd = "put" /\ a.rc = 0 => pm'.kvs[r] = m.val
  <2>1. Ranks \subseteq Keys /\ pm.kvs \in [Keys -> Nat]
    BY <1>2, KeyTypes DEF Managers
  <2> QED  BY <1>5, <2>1 DEF Responds
<1>7. ASSUME NEW q \in Ranks  PROVE Asked(q)'
  <2>1. InPm(q)' => entered[q] >= 1
    BY <1>2, <1>3 DEF InPm, Named, Asked
  <2> QED  BY <1>1, <1>2, <1>4, <2>1, AskedLess DEF Named
<1>8. ASSUME NEW q \in Ranks \ {r}  PROVE Told(q)'
  <2>1. Told(q) /\ (Alive(q)' <=> Alive(q))
    BY <1>1, <1>2 DEF Named, Alive
  <2> QED  BY <1>1, <1>3, <1>6, <1>8, <2>1 DEF Told
<1>9. Told(r)'
  <2> SUFFICES ASSUME r \notin mixed, Alive(r), fd[r] = "open"  PROVE Told(r)'
    BY <1>1 DEF Told, Alive
  <2>1. ans'[r][1] = a
    BY <1>1, <1>3, NewAnswer DEF Alive
  <2>2. a.cmd = "put" /\ a.rc = 0 /\ ~world.rankless => pm'.kvs[r] = call[r][a.by].val
    BY <1>3, <1>5, <1>6
  <2>3. a.cmd = "get" /\ call[r][a.by].due # 0 /\ ~world.rankless => a.val = call[r][a.by].due
    <3>1. ASSUME a.cmd = "get", call[r][a.by].due # 0, ~world.rankless
          PROVE  m.key \in pm.due /\ pm.kvs[m.key] = call[r][a.by].due
      <4>1. m.cmd = "get" /\ a.by = m.by /\ call[r][m.by].due # 0 /\ r \in Ranks \ mixed
        BY <1>3, <3>1
      <4> QED  BY <1>1, <3>1, <4>1, GetFindsDue
    <3> QED  BY <1>3, <3>1 DEF Responds
  <2>4. a.cmd \in {"get", "my_kvsname"} => a.rc = 0
    BY <1>3 DEF Responds
  <2> QED  BY <1>1, <2>1, <2>2, <2>3, <2>4 DEF Told
<1>10. ASSUME NEW q \in Ranks  PROVE Named(q)' /\ (Through(q)' => Through(q))
  <2>1. ~world.rankless => \/ pm'.kvs[q] = pm.kvs[q]
                           \/ /\ pub[q].at = 0
                              /\ \A t \in Threads : InCall(q, t) => call[q][t].todo # <<>>
    BY <1>5, <1>6
  <2>2. Told(q)'
    BY <1>8, <1>9
  <2>3. Named(q)'
    BY <1>3, <1>7, <2>1, <2>2, ManagerNamed
  <2>4. (Good(q)' <=> Good(q)) /\ (InPm(q)' <=> InPm(q))
    BY <1>1, <1>3 DEF Good, InPm
  <2>5. ASSUME Good(q)', Answered(q)'  PROVE Answered(q)
    <3>1. CASE q = r
      <4>1. a.cmd # "barrier"
        BY <1>3 DEF Collective
      <4> QED  BY <1>1, <1>3, <2>5, <3>1, <4>1, NoBarrierAnswer
    <3>2. CASE q # r
      BY <1>1, <1>3, <2>5, <3>2 DEF Answered, OnWire
    <3> QED  BY <3>1, <3>2
  <2> QED  BY <1>1, <2>3, <2>4, <2>5 DEF Through
<1>11. Owed' <=> Owed
  BY <1>1, <1>3 DEF Owed
<1> QED  BY <1>1, <1>10, <1>11 DEF Names

\* The manager collects a request of all ranks.
LEMMA CollectKeepsNames ==
    ASSUME Wire, Wire', Names, NEW r \in Ranks, UNCHANGED <<clientVars, history>>,
           NEW i \in 1 .. Len(req[r]), NEW m \in Requests, m = req[r][i], Serving(r, i),
           r \notin pm.mid, Collect(r, m)
    PROVE  Names'
<1>1. /\ UNCHANGED <<world, fd, inited, phase, mutex, stream, call, mixed, entered, left, pub>>
      /\ req' = [req EXCEPT ![r] = RemoveAt(@, i)] /\ pm.up /\ Servable(r, m)
      /\ m.cmd \in {"barrier", "ring"}
  BY DEF clientVars, history, Serving, Collect, Collective
<1>2. /\ Types /\ \A q \in Ranks : Named(q)
      /\ pm \in Managers /\ ans \in [Ranks -> Seq(Answers)] /\ Ranks \subseteq Keys
  BY KeyTypes DEF Wire, Names, Types
<1>3. /\ pm'.up = pm.up /\ pm'.kvs = pm.kvs /\ \A q \in Ranks : Collected(r, m, q)
  BY <1>2, CollectEffect
<1>4. /\ \A q \in Ranks \ {r} : req'[q] = req[q]
      /\ \A q \in Ranks : \A j \in 1 .. Len(req'[q]) :
            \E k \in 1 .. Len(req[q]) : req'[q][j] = req[q][k]
  BY <1>1, <1>2, TakenReq
<1>5. pm.in[r] = None
  BY <1>1 DEF Servable, Collective
<1>6. /\ m.cmd = "barrier" => entered[r] >= 1
      /\ \A q \in Ranks : InPm(q) => entered[q] >= 1
  BY <1>2 DEF Named, Asked
<1>7. ASSUME NEW q \in Ranks
      PROVE  \/ ans'[q] = ans[q]
             \/ \E a \in Answers : a.cmd = m.cmd /\ ans'[q] = Append(ans[q], a)
  <2>1. pm.in[q] # None => pm.in[q] \in Requests
    BY <1>2, Messages
  <2>2. \/ ans'[q] = ans[q]
        \/ \E n \in Requests : n.cmd = m.cmd /\ ans'[q] = Append(ans[q], Answer(n, 0, 0))
    BY <1>3, <2>1 DEF Collected
  <2>3. ASSUME NEW n \in Requests, n.cmd = m.cmd, ans'[q] = Append(ans[q], Answer(n, 0, 0))
        PROVE  \E a \in Answers : a.cmd = m.cmd /\ ans'[q] = Append(ans[q], a)
    <3>1. Answer(n, 0, 0) \in Answers /\ Answer(n, 0, 0).cmd = n.cmd
      BY AnswerFields
    <3> QED  BY <2>3, <3>1
  <2> QED  BY <2>2, <2>3
<1>8. ASSUME NEW q \in Ranks  PROVE Named(q)'
  <2>1. pm'.in[q] \in {pm.in[q], None} \/ (q = r /\ pm'.in[q] = m)
    BY <1>3 DEF Collected
  <2>2. InPm(q)' => entered[q] >= 1
    BY <1>6, <2>1 DEF InPm
  <2>3. Asked(q)'
    BY <1>1, <1>2, <1>4, <2>2, AskedLess DEF Named
  <2>4. Told(q) /\ (Alive(q)' <=> Alive(q))
    BY <1>1, <1>2 DEF Named, Alive
  <2>5. Told(q)'
    <3>1. CASE ans'[q] = ans[q]
      BY <1>1, <1>3, <2>4, <3>1 DEF Told
    <3>2. ASSUME NEW a \in Answers, a.cmd = m.cmd, ans'[q] = Append(ans[q], a)
          PROVE  Told(q)'
      <4> SUFFICES ASSUME q \notin mixed', Alive(q)', fd'[q] = "open"  PROVE Told(q)'
        BY DEF Told
      <4>1. ans'[q][1] = a
        BY <3>2, NewAnswer
      <4>2. ans'[q][1].cmd \notin {"put", "get", "my_kvsname"}
        BY <1>1, <3>2, <4>1
      <4> QED  BY <4>2 DEF Told
    <3> QED  BY <1>7, <3>1, <3>2
  <2> QED  BY <1>3, <2>3, <2>5, ManagerNamed
<1>9. \A q \in Ranks : Good(q)' <=> Good(q)
  BY <1>1, <1>3 DEF Good
<1>10. ASSUME ~world.rankless, NEW k \in Ranks, pub[k].val # 0  PROVE pm.kvs[k] # 0
  BY <1>1, <1>2, <1>10 DEF Named, Published
<1>11. ASSUME NEW q \in Ranks, m.cmd = "ring", Good(q)'  PROVE Answered(q)' => Answered(q)
  <2>1. CASE ans'[q] = ans[q]
    BY <1>1, <2>1 DEF Answered, OnWire
  <2>2. ASSUME NEW a \in Answers, a.cmd = m.cmd, ans'[q] = Append(ans[q], a)
        PROVE  Answered(q)' => Answered(q)
    BY <1>1, <1>11, <2>2, NoBarrierAnswer
  <2> QED  BY <1>7, <2>1, <2>2
<1>12. ASSUME ~world.rankless, NEW q \in Ranks, Through(q)'  PROVE Owed'
  <2>1. CASE /\ \A p \in Ranks \ {r} : pm.in[p] # None /\ pm.in[p].cmd = m.cmd
             /\ pm'.due = {k \in Keys : pm.kvs[k] # 0}
             /\ \A p \in Ranks : pm'.in[p] = None
    <3>1. \A k \in Ranks : pub[k].val # 0 => k \in pm'.due
      BY <1>2, <1>10, <1>12, <2>1
    <3>2. \A k \in Ranks : pub[k].at # 0
      <4>1. CASE m.cmd = "barrier"
        <5>1. \A k \in Ranks : entered[k] >= 1
          BY <1>6, <2>1, <4>1 DEF InPm
        <5> QED  BY <1>2, <5>1 DEF Named, Published
      <4>2. CASE m.cmd = "ring"
        <5>1. ~InPm(q)
          BY <1>5, <2>1, <4>2 DEF InPm
        <5>2. Through(q)
          BY <1>1, <1>9, <1>11, <1>12, <4>2, <5>1 DEF Through
        <5>3. Owed
          BY <1>12, <5>2 DEF Names
        <5> QED  BY <5>3 DEF Owed
      <4> QED  BY <1>1, <4>1, <4>2
    <3> QED  BY <1>1, <3>1, <3>2 DEF Owed
  <2>2. CASE /\ pm'.due = pm.due /\ pm'.in[r] = m
             /\ \A p \in Ranks \ {r} : pm'.in[p] = pm.in[p] /\ ans'[p] = ans[p]
             /\ m.cmd = "ring" => ans' = ans
    <3>1. ~(q = r /\ m.cmd = "barrier")
      <4>1. m # None
        BY RequestsExist
      <4> QED  BY <1>12, <2>2, <4>1 DEF Through, InPm
    <3>2. ~InPm(q)
      BY <1>5, <1>12, <2>2 DEF Through, InPm
    <3>3. Answered(q)' => Answered(q)
      BY <1>1, <2>2, <3>1 DEF Answered, OnWire
    <3>4. Through(q)
      BY <1>1, <1>9, <1>12, <3>2, <3>3 DEF Through
    <3>5. Owed
      BY <1>12, <3>4 DEF Names
    <3> QED  BY <1>1, <2>2, <3>5 DEF Owed
  <2> QED  BY <1>2, <2>1, <2>2, CollectRound
<1> QED  BY <1>1, <1>8, <1>12 DEF Names

\* The manager serves a request.
LEMMA ServeKeepsNames ==
    ASSUME Wire, Wire', Names, NEW r \in Ranks, Serve(r), UNCHANGED <<clientVars, history>>
    PROVE  Names'
<1>1. /\ Types /\ pm \in Managers /\ ans \in [Ranks -> Seq(Answers)] /\ \A q \in Ranks : Named(q)
  BY DEF Wire, Types, Names
<1>2. PICK i \in 1 .. Len(req[r]), m \in Requests :
         /\ m = req[r][i] /\ Serving(r, i)
         /\ \/ TakeLine(r, m)
            \/ r \notin pm.mid /\ Collect(r, m)
            \/ /\ r \notin pm.mid /\ m.cmd \notin Collective \cup {"spawn-part"}
               /\ \E a \in Answers : Responds(r, m, a)
  BY <1>1, ServeEffect
<1>3. CASE TakeLine(r, m)
  <2>1. /\ UNCHANGED <<world, fd, inited, phase, mutex, stream, call, mixed, entered, left, pub>>
        /\ req' = [req EXCEPT ![r] = RemoveAt(@, i)]
    BY <1>2 DEF clientVars, history, Serving
  <2>2. /\ pm'.up = pm.up /\ pm'.kvs = pm.kvs /\ pm'.in = pm.in /\ pm'.due = pm.due
        /\ ans' = ans
    BY <1>1, <1>3 DEF TakeLine, Managers
  <2>3. \A q \in Ranks : \A j \in 1 .. Len(req'[q]) :
           \E k \in 1 .. Len(req[q]) : req'[q][j] = req[q][k]
    BY <1>1, <2>1, TakenReq
  <2>4. ASSUME NEW q \in Ranks  PROVE Named(q)' /\ (Through(q)' <=> Through(q))
    <3>1. Asked(q) /\ Told(q) /\ (InPm(q)' => entered[q] >= 1)
      BY <1>1, <2>2 DEF Named, Asked, InPm
    <3>2. Asked(q)'
      BY <2>1, <2>3, <3>1, AskedLess
    <3>3. Told(q)'
      BY <2>1, <2>2, <3>1 DEF Told, Alive
    <3>4. Named(q)'
      BY <2>2, <3>2, <3>3, ManagerNamed
    <3>5. Through(q)' <=> Through(q)
      BY <2>1, <2>2 DEF Through, Good, InPm, Answered, OnWire
    <3> QED  BY <3>4, <3>5
  <2>5. Owed' <=> Owed
    BY <2>1, <2>2 DEF Owed
  <2> QED  BY <2>1, <2>4, <2>5 DEF Names
<1>4. CASE r \notin pm.mid /\ Collect(r, m)
  BY <1>2, <1>4, CollectKeepsNames
<1>5. ASSUME r \notin pm.mid, m.cmd \notin Collective, NEW a \in Answers, Responds(r, m, a)
      PROVE  Names'
  BY <1>2, <1>5, RespondKeepsNames
<1> QED  BY <1>2, <1>3, <1>4, <1>5

\* The manager kills the processes of a job that one of them has aborted.
LEMMA KillKeepsNames ==
    ASSUME Wire, Names, NEW r \in Ranks, Kill(r)
    PROVE  Names'
<1>1. /\ req' = [q \in Ranks |-> <<>>]
      /\ phase' = [q \in Ranks |-> "killed"]
      /\ call' = [q \in Ranks |-> [t \in Threads |-> Idle]]
      /\ UNCHANGED <<world, fd, inited, mutex, stream, mixed, entered, left, pub, pm, ans>>
  BY DEF Kill, history
<1>2. ASSUME NEW q \in Ranks  PROVE Named(q)' /\ (Through(q)' => Through(q))
  <2>1. /\ \A u \in Threads : call'[q][u] = Idle
        /\ phase'[q] = "killed" /\ req'[q] = <<>> /\ Len(req'[q]) = 0
    BY <1>1
  <2>2. \A i \in 1 .. Len(req'[q]) : /\ req'[q][i].cmd # "put"
                                     /\ req'[q][i].cmd = "barrier" => entered[q] >= 1
    BY <2>1
  <2> QED  BY <1>1, <2>1, <2>2, EndKeepsNamed
<1>3. Owed' <=> Owed
  BY <1>1 DEF Owed
<1> QED  BY <1>1, <1>2, <1>3 DEF Names

\* The manager dies: nobody can be told anything any more.
LEMMA DieKeepsNames ==
    ASSUME Wire, Names, Die, UNCHANGED <<clientVars, history>>
    PROVE  Names'
<1>1. /\ UNCHANGED <<world, fd, inited, phase, mutex, stream, call, mixed, entered, left, pub>>
      /\ UNCHANGED ans /\ req' = [r \in Ranks |-> <<>>]
  BY DEF clientVars, history, Die
<1>2. pm'.up = FALSE /\ ~pm'.up /\ \A q \in Ranks : pm'.in[q] = None
  <2>1. pm.lazy \in BOOLEAN
    BY DEF Wire, Types, Managers
  <2> QED  BY <2>1, ManagerType DEF Die
<1>3. ASSUME NEW q \in Ranks  PROVE Named(q)' /\ ~Through(q)'
  <2>1. Named(q) /\ Len(req'[q]) = 0 /\ ~InPm(q)' /\ ~Good(q)'
    BY <1>1, <1>2 DEF Names, InPm, Good
  <2>2. Life(q)'
    BY <1>1, <1>2, <2>1 DEF Named, Life, InCall, InitOp, FinalOp
  <2>3. Published(q)'
    BY <1>1, <1>2, <2>1 DEF Named, Published, InCall
  <2>4. Asked(q)'
    BY <2>1 DEF Asked
  <2>5. Told(q)'
    BY <1>1, <1>2, <2>1 DEF Named, Told, Alive
  <2>6. ASSUME NEW t \in Threads
        PROVE  /\ Commands(call'[q][t])
               /\ InCall(q, t)' => Expects(q, call[q][t])'
               /\ InCall(q, t)' /\ q \notin mixed' => Justified(q, call[q][t])'
    <3>1. /\ Commands(call[q][t])
          /\ InCall(q, t) => Expects(q, call[q][t])
          /\ InCall(q, t) /\ q \notin mixed => Justified(q, call[q][t])
          /\ InCall(q, t)' <=> InCall(q, t)
      BY <1>1, <2>1 DEF Named, InCall
    <3>2. InCall(q, t)' => Expects(q, call[q][t])'
      BY <1>1, <3>1 DEF Expects
    <3>3. InCall(q, t)' /\ q \notin mixed' => Justified(q, call[q][t])'
      BY <1>1, <1>2, <3>1 DEF Justified
    <3> QED  BY <1>1, <3>1, <3>2, <3>3
  <2> QED  BY <2>1, <2>2, <2>3, <2>4, <2>5, <2>6 DEF Named, Through, Commands
<1> QED  BY <1>3 DEF Names

\* Nothing has been asked for.
LEMMA InitNames == Init => Names
<1> SUFFICES ASSUME Init PROVE Names
  OBVIOUS
<1>1. PICK w \in Worlds : world = w /\ ManagerInit(w.lazy)
  BY DEF Init
<1>2. \A r \in Ranks : pm.in[r] = None
  <2>1. w.lazy \in BOOLEAN
    BY DEF Worlds
  <2> QED  BY <1>1, <2>1, ManagerType DEF ManagerInit
<1>3. \A r \in Ranks : /\ req[r] = <<>> /\ ans[r] = <<>> /\ entered[r] = 0 /\ left[r] = 0
                       /\ fd[r] = "none" /\ phase[r] = "new" /\ r \notin mixed
                       /\ pub[r].val = 0 /\ pub[r].at = 0
                       /\ \A t \in Threads : call[r][t] = Idle
  BY <1>1 DEF ManagerInit, Init, WireInit
<1>4. ASSUME NEW q \in Ranks  PROVE Named(q) /\ ~Through(q)
  <2>1. /\ \A t \in Threads : ~InCall(q, t) /\ call[q][t].todo = <<>>
        /\ "main" \in Threads /\ "helper" \in Threads
    BY <1>3, Distinct DEF Idle, InCall
  <2>2. Life(q)
    BY <1>3, <2>1 DEF Life
  <2>3. Published(q)
    BY <1>3, <2>1 DEF Published
  <2>4. Asked(q) /\ Told(q)
    BY <1>2, <1>3 DEF Asked, Told, InPm
  <2>5. \A t \in Threads : Commands(call[q][t])
    <3>1. <<>> \in Seq(PlainCmds)
      OBVIOUS
    <3> QED  BY <2>1, <3>1, Kinds DEF Commands
  <2>6. ~Through(q)
    BY <1>3 DEF Through, Good
  <2> QED  BY <2>1, <2>2, <2>3, <2>4, <2>5, <2>6 DEF Named
<1> QED  BY <1>4 DEF Names

\* A step that changes nothing.
LEMMA StutterNames == Wire /\ Names /\ UNCHANGED vars => Names'
<1> SUFFICES ASSUME Wire, Names, UNCHANGED vars PROVE Names'
  OBVIOUS
<1>1. /\ UNCHANGED <<world, fd, inited, phase, mutex, stream, call, mixed, entered, left, pub>>
      /\ UNCHANGED <<pm, req, ans, others>>
  BY DEF vars, managerVars, clientVars, history
<1>2. Types /\ \A q \in Ranks : Named(q)
  BY DEF Wire, Names
<1>3. ASSUME NEW q \in Ranks  PROVE Named(q)' /\ (Through(q)' <=> Through(q))
  <2>1. Same(q)
    BY <1>1 DEF Same
  <2>2. Named(q)'
    BY <1>1, <1>2, <2>1, NamedFrame
  <2>3. Through(q)' <=> Through(q)
    BY <1>1 DEF Through, Good, InPm, Answered, OnWire
  <2> QED  BY <2>2, <2>3
<1>4. Owed' <=> Owed
  BY <1>1 DEF Owed
<1> QED  BY <1>1, <1>3, <1>4 DEF Names

\* Every step of the job keeps the invariant.
LEMMA NextNames == Wire /\ Wire' /\ Names /\ Next => Names'
<1> SUFFICES ASSUME Wire, Wire', Names, Next PROVE Names'
  OBVIOUS
<1>1. ASSUME NEW r \in Ranks, WrapperCall(r) \/ \E t \in Threads : OtherCall(r, t)
      PROVE  Names'
  <2>1. Begins(r) /\ r \notin mixed
    BY <1>1, CallsBegin DEF Wire
  <2>2. PICK t \in Threads, op \in Ops, todo \in Seq(Cmds), key \in Keys, val \in Nat,
             first \in {"lock", "write"}, conn \in {"none", "open", "closed"} :
                Entry(r, t, op, todo, key, val, first, conn)
    BY <2>1 DEF Begins
  <2> QED  BY <2>1, <2>2, EntryKeepsNames
<1>2. ASSUME NEW r \in Ranks, NEW t \in Threads, Step(r, t)
      PROVE  Names'
  <2>1. CASE world.api = "pmi1" /\ t = "main" /\ Step1(r)
    <3>1. GetResponse(r) => Names'
      BY <2>1, GetResponseReads, ReadStepKeepsNames
    <3> QED  BY <2>1, <3>1, WritelineKeepsNames, SpawnKeepsNames, ReturnKeepsNames,
                NoSingleton DEF Step1
  <2>2. CASE world.api = "pmi2" /\ Step2(r, t)
    <3>1. ReadLength(r, t) \/ ReadBody(r, t) \/ ReadFails(r, t) => Names'
      BY ReadLengthReads, ReadBodyReads, ReadFailsReads, ReadStepKeepsNames
    <3> QED  BY <2>2, <3>1, LockKeepsNames, WriteKeepsNames, ReturnKeepsNames DEF Step2
  <2>3. CASE Sigpipe(r, t)
    BY <2>3, SigpipeKeepsNames
  <2> QED  BY <1>2, <2>1, <2>2, <2>3 DEF Step
<1>3. ASSUME NEW r \in Ranks, Manages(r)  PROVE Names'
  <2>1. CASE Serve(r) /\ UNCHANGED <<clientVars, history, others>>
    BY <2>1, ServeKeepsNames
  <2>2. CASE Kill(r)
    BY <2>2, KillKeepsNames
  <2> QED  BY <1>3, <2>1, <2>2 DEF Manages
<1>4. CASE ManagerDies
  BY <1>4, DieKeepsNames DEF ManagerDies
<1>5. ASSUME NEW r \in Ranks, Mpiexec(r)  PROVE FALSE
  BY <1>5, NoSingleton DEF Mpiexec
<1> QED  BY <1>1, <1>2, <1>3, <1>4, <1>5 DEF Next

\* The invariant of the names holds in every behaviour of the job.
THEOREM NamesInvariant == Spec => []((Wire /\ Names) \/ Apart)
<1>1. Init => (Wire /\ Names) \/ Apart
  BY InitWire, InitNames, InitApart
<1>2. ((Wire /\ Names) \/ Apart) /\ [Next]_vars => ((Wire /\ Names) \/ Apart)'
  BY NextWire, StutterWire, NextNames, StutterNames, NextApart
<1> QED  BY <1>1, <1>2, PTL DEF Spec

\* What a rank has published is found by every lcm_pm_getname after the
\* barrier, whoever runs in between and however lazy the fences are, while the
\* manager lives, every process knows its rank, and no lock-free function took
\* the answer of another thread on that rank.
THEOREM NamesAreVisible == Spec => []NamesVisible
<1>1. Wire /\ Names => NamesVisible
  <2> SUFFICES ASSUME Wire, Names, NEW r \in Ranks, NEW t \in Threads, Finished(r, t),
                      call[r][t].op \in Gets, call[r][t].due # 0, r \notin mixed, ~world.rankless
               PROVE  IF call[r][t].res = "ok"
                      THEN call[r][t].got = Min({call[r][t].due, 254})
                      ELSE ~pm.up \/ fd[r] = "none"
    BY DEF NamesVisible, Gets
  <2> DEFINE c == call[r][t]
  <2>1. c \in CallRec /\ c.at = "done" /\ c.todo = <<>> /\ InCall(r, t)
    BY CallType DEF Wire, Finished, InCall, Busy
  <2>2. Justified(r, c)
    BY <2>1 DEF Names, Named
  <2>3. /\ c.res # "ok" => ~pm.up \/ fd[r] = "none"
        /\ c.res = "ok" => c.got = MPIU_Strncpy(c.due)
    BY <2>1, <2>2 DEF Justified
  <2>4. MPIU_Strncpy(c.due) = Min({c.due, 254})
    <3>1. c.due \in Nat
      BY <2>1 DEF CallRec
    <3> HIDE DEF c
    <3> QED  BY <3>1 DEF MPIU_Strncpy, GetBuffer, Min
  <2> QED  BY <2>3, <2>4
<1>2. Apart => NamesVisible
  BY ApartHolds
<1> QED  BY <1>1, <1>2, NamesInvariant, PTL

\* A call of the client fails only for a reason outside the library, in every
\* interleaving of the ranks, their threads and the manager, its refusals and
\* its death included.
THEOREM FailuresExplained == Spec => []CallFailuresExplained
<1>1. Wire /\ Names => CallFailuresExplained
  <2> SUFFICES ASSUME Wire, Names, NEW r \in Ranks \ mixed, NEW t \in Threads,
                      Finished(r, t), ~Succeeds(r, call[r][t]), pm.up, fd[r] # "none",
                      call[r][t].op # "PMI_Abort",
                      call[r][t].res \notin {"refused", "rejected", "notimpl", "toolong"}
               PROVE  \/ /\ call[r][t].res = "ok" /\ call[r][t].op = "PMI_Spawn_multiple"
                         /\ call[r][t].val # SpawnFits
                      \/ /\ call[r][t].res = "absent"
                         /\ call[r][t].due = 0 \/ world.rankless
    BY DEF CallFailuresExplained
  <2> DEFINE c == call[r][t]
  <2>1. InCall(r, t) /\ c.res \in Outcomes /\ Types /\ Named(r) /\ Local(r)
    BY DEF Wire, Names, Types, TypeOK, Finished, InCall
  <2>2. Justified(r, c)
    BY <2>1 DEF Named
  <2>3. c.res \in {"ok", "absent"} /\ (c.res = "absent" => c.due = 0 \/ world.rankless)
    BY <2>1, <2>2 DEF Justified, Outcomes
  <2>4. ASSUME c.res = "ok"
        PROVE  c.op = "PMI_Spawn_multiple" /\ c.val # SpawnFits
    <3>1. CASE world.api = "pmi1"
      <4>1. c.op # "PMI_Init" => inited[r] = "pm"
        <5>1. phase[r] \in {"new", "ready", "final", "killed"} /\ fd[r] \in {"none", "open", "closed"}
          BY <2>1 DEF Types, TypeOK
        <5>2. phase[r] \notin {"final", "killed"} /\ fd[r] = "open"
          BY <2>1, <5>1 DEF Named, Life
        <5>3. phase[r] = "new" => c.op = "PMI_Init"
          BY <2>1, <3>1 DEF Local, Socket, InitOp, InCall, Threads
        <5> QED  BY <2>1, <3>1, <5>1, <5>2, <5>3 DEF Named, Life
      <4>2. ~Succeeds1(r, c) /\ c.op # "PMI_Abort" /\ c.res # "refused"
        BY <2>4, <3>1 DEF Succeeds
      <4> HIDE DEF c
      <4>3. c.op # "lcm_pm_publish"
        BY <2>4, <4>1, <4>2 DEF Succeeds1, NameService, Singleton
      <4> QED  BY <2>4, <4>1, <4>2, <4>3 DEF Succeeds1, WithManager, NameService
    <3>2. CASE world.api # "pmi1"
      BY <2>4, <3>2 DEF Succeeds, Succeeds2
    <3> QED  BY <3>1, <3>2
  <2> QED  BY <2>3, <2>4
<1>2. Apart => CallFailuresExplained
  BY ApartHolds
<1> QED  BY <1>1, <1>2, NamesInvariant, PTL
=============================================================================
