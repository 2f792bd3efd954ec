----------------------------- MODULE PmiClients -----------------------------
(***************************************************************************)
(* A job whose ranks reach their process manager through the PMI1 or the   *)
(* PMI2 client: the ranks, the threads of rank 0, the manager.  The order  *)
(* of the calls is the program's, as the users of the wrapper have it:     *)
(* initialize, publish once, a barrier, look the others up any number of   *)
(* times, barriers, finalize.  Between the first two barriers a thread of  *)
(* rank 0 may call any other function of the library, once.                *)
(***************************************************************************)
EXTENDS SimplePmi, Pmi2Client, FiniteSetsExt

CONSTANT Lengths  \* lengths of the values rank 0 publishes

ASSUME LengthsAssumption == Lengths \subseteq Nat \ {0}

VARIABLE others  \* the threads <<r, t>> that called another function

vars == <<managerVars, clientVars, history, others>>

ShortLength == Min(Lengths)

\* What PMI1 exchanges before init: the environment may have PMI_ID beside
\* PMI_PORT, and PMI_TOTALVIEW.
Hellos == {<<>>, <<"initack">>, <<Unasked>>, <<"initack", Unasked>>}

\* The environments: PMI_FD, PMI_PORT, neither of them; for PMI2 PMI_PORT comes
\* with PMI_ID, and the manager may complete fences lazily.
Worlds ==
    {w \in [api : {"pmi1", "pmi2"}, env : {"fd", "port", "none"}, rankless : BOOLEAN,
            lazy : BOOLEAN, hello : Hellos] :
        /\ w.rankless <=> w.api = "pmi2" /\ w.env = "port"
        /\ w.lazy => w.api = "pmi2" /\ w.env = "fd"
        /\ w.hello # <<>> => w.api = "pmi1" /\ w.env # "none"
        /\ w.env = "fd" => w.hello \in {<<>>, <<Unasked>>}}

Init ==
    /\ \E w \in Worlds : world = w /\ ManagerInit(w.lazy)
    /\ WireInit
    /\ others = {}

\* The functions of the wrapper.

\* The ranks lcm_pm_get_rank may return: a manager that died before it has
\* answered initack leaves a PMI1 client with rank 0.
lcm_pm_get_rank(r) ==
    IF world.api = "pmi2" THEN {PMI2_Job_GetRank(r)}
    ELSE IF inited[r] # "pm" \/ fd[r] # "open" THEN {0}
    ELSE IF ~pm.up /\ world.hello \notin {<<>>, <<Unasked>>} THEN {0, r}
    ELSE {r}

\* PMI1 asks for the universe size, PMI2_Init has brought the size of the job.
lcm_pm_get_size(r) == world.api = "pmi1" /\ pub[r].at = 0 /\ PMI_Get_universe_size(r)

\* The keys a program looks for: the other ranks it was told of.  A PMI1 program
\* may have been told of the whole universe, and when PMI_Get_universe_size fails
\* the size is whatever lcm_pm_get_size finds in a variable it never set.
Others(r) ==
    LET size == IF world.api = "pmi1" THEN Universe ELSE IF inited[r] = "pm" THEN NRanks ELSE 1
    IN  {key \in Keys : key # r /\ key < size}

Publish(r, val) ==
    /\ pub[r].at = 0 /\ (r = 0 \/ val = ShortLength)
    /\ \E me \in lcm_pm_get_rank(r) :
          IF world.api = "pmi1" THEN lcm_pm_publish(r, me, val)
                                ELSE PMI2_KVS_Put(r, "main", me, val)

GetName(r, key) ==
    /\ left[r] = 1 /\ entered[r] = 1 /\ key \in Others(r)
    /\ IF world.api = "pmi1" THEN lcm_pm_getname(r, key)
                             ELSE PMI2_KVS_Get(r, "main", key)

lcm_pm_barrier(r) ==
    /\ pub[r].at # 0
    /\ IF world.api = "pmi1" THEN PMI_Barrier(r) ELSE PMI2_KVS_Fence(r, "main")

\* A process without a manager is a job of its own: rank 0 stands for it.
lcm_pm_initialize(r) ==
    /\ world.env = "none" => r = 0
    /\ IF world.api = "pmi1" THEN PMI_Init(r) ELSE PMI2_Init(r)

lcm_pm_finalize(r) ==
    /\ left[r] = MaxBarriers /\ \A t \in Threads : ~InCall(r, t)
    /\ IF world.api = "pmi1" THEN PMI_Finalize(r) ELSE PMI2_Finalize(r)

WrapperCall(r) ==
    /\ r \notin mixed
    /\ \/ lcm_pm_initialize(r)
       \/ \E val \in Lengths : Publish(r, val)
       \/ \E key \in Keys : GetName(r, key)
       \/ lcm_pm_get_size(r)
       \/ lcm_pm_barrier(r)
       \/ lcm_pm_finalize(r)
    /\ UNCHANGED others

Other1 ==
    \/ PMI_Get_appnum(0) \/ PMI_Abort(0)
    \/ PMI_Publish_name(0) \/ PMI_Unpublish_name(0) \/ PMI_Lookup_name(0)
    \/ \E fits \in {SpawnFits, SpawnFirstPieceTooLong, SpawnLaterPieceTooLong} :
          PMI_Spawn_multiple(0, fits)

Other2 ==
    \/ PMI2_Abort(0)
    \/ \E waitfor \in BOOLEAN : PMI2_Info_GetNodeAttr(0, "main", waitfor)
    \/ PMI2_Info_GetNodeAttrIntArray(0, "main")
    \/ PMI2_Info_GetJobAttr(0, "main") \/ PMI2_Info_GetJobAttrIntArray(0, "main")
    \/ PMI2_Nameserv_publish(0, "main") \/ PMI2_Nameserv_lookup(0, "main")
    \/ PMI2_Nameserv_unpublish(0, "main")
    \/ PMI2_Job_Connect(0, "main") \/ PMI2_Job_Disconnect(0, "main")
    \/ \E wanted \in {0, 1} : PMI2_Job_Spawn(0, "main", wanted)

\* The second thread of rank 0 under PMI2: it comes while the first one is in
\* a call, before or after that one has written its request.  No thread calls
\* the library while another one finalizes it.
OtherHelper ==
    /\ InCall(0, "main") /\ call[0]["main"].op # "PMI2_Finalize"
    /\ \/ PMI2_KVS_Get(0, "helper", NRanks - 1) \/ PMI2_Job_GetId(0, "helper")
       \/ PMI2_Info_PutNodeAttr(0, "helper")

\* Calls beyond the wrapper's are explored in a job that is set up, while the
\* other ranks wait at the second barrier: what they would send and what rank 0
\* sends meet only in the manager, which serves one request at a time.
OthersWait ==
    world.env # "none" =>
        /\ \A q \in Ranks : inited[q] = "pm" /\ pub[q].val # 0
        /\ \A q \in Ranks \ {0} : entered[q] = 2 /\ pm.in[q] # None

\* The ring is collective: the other ranks join rank 0 in it.
OtherCall(r, t) ==
    /\ r \notin mixed /\ world.env # "port" /\ ~world.lazy /\ world.hello = <<>>
    /\ left[r] = 1 /\ entered[r] = 1 /\ <<r, t>> \notin others
    /\ others' = others \cup {<<r, t>>}
    /\ \/ world.api = "pmi1" /\ r = 0 /\ t = "main" /\ OthersWait /\ Other1
       \/ world.api = "pmi2" /\ r = 0 /\ t = "main" /\ OthersWait /\ Other2
          /\ <<0, "helper">> \notin others
       \/ world.api = "pmi2" /\ r = 0 /\ t = "helper" /\ OthersWait /\ OtherHelper
       \/ /\ world.api = "pmi2" /\ t = "main"
          /\ r = 0 \/ call[0]["main"].op = "PMIX_Ring"
          /\ PMIX_Ring(r)

Step(r, t) ==
    /\ \/ world.api = "pmi1" /\ t = "main" /\ Step1(r)
       \/ world.api = "pmi2" /\ Step2(r, t)
       \/ Sigpipe(r, t)
    /\ UNCHANGED others

\* What a singleton has to do with its mpiexec, which need not come, or stay.
Mpiexec(r) ==
    world.api = "pmi1" /\ (accept_one_connection(r) \/ MpiexecDies(r)) /\ UNCHANGED others

\* A manager stops at any time; without one there is nothing to stop.
ManagerDies == world.env # "none" /\ Die /\ UNCHANGED <<clientVars, history, others>>
Manages(r) ==
    \/ Serve(r) /\ UNCHANGED <<clientVars, history, others>>
    \/ Kill(r) /\ UNCHANGED others

Next ==
    \/ \E r \in Ranks : WrapperCall(r) \/ Manages(r) \/ Mpiexec(r)
    \/ \E r \in Ranks, t \in Threads : OtherCall(r, t) \/ Step(r, t)
    \/ ManagerDies

\* A thread inside the library runs on, and the manager serves, as does a
\* singleton's mpiexec that is connected; nobody has to call anything, a manager
\* need not die, and an mpiexec need not connect.
Spec ==
    /\ Init /\ [][Next]_vars
    /\ \A r \in Ranks : WF_vars(Manages(r)) /\ \A t \in Threads : WF_vars(Step(r, t))

-----------------------------------------------------------------------------
Outcomes == {"ok", "refused", "absent", "wrong", "lost", "toolong", "notimpl", "unready",
             "rejected"}

\* The variables hold what their comments say; a call is under way
\* while it has a command to exchange.
TypeOK ==
    /\ world \in Worlds /\ others \subseteq Ranks \X Threads
    /\ fd \in [Ranks -> {"none", "open", "closed", "own", "stuck", "left"}]
    /\ inited \in [Ranks -> {"no", "single", "alone", "pm"}]
    /\ phase \in [Ranks -> {"new", "ready", "final", "killed"}]
    /\ mutex \in [Ranks -> Threads \cup {None}]
    /\ stream \in [Ranks -> Threads \cup {None, "broken"}]
    /\ entered \in [Ranks -> 0 .. MaxBarriers] /\ left \in [Ranks -> 0 .. MaxBarriers]
    /\ \A r \in Ranks, t \in Threads :
          LET c == call[r][t]
          IN  /\ c.res \in Outcomes
              /\ c.at \in {"lock", "fork", "accept", "write", "read", "body"} <=> c.todo # <<>>

Finished(r, t) == call[r][t].at = "done"
Succeeds(r, c) == IF world.api = "pmi1" THEN Succeeds1(r, c) ELSE Succeeds2(r, c)

\* Threads share the socket, and answers carry nothing that says whose they
\* are.  As long as no lock-free function met another call, a call reads the
\* answers to its own requests, whole.
OwnAnswers ==
    \A r \in Ranks \ mixed :
        stream[r] # "broken" /\ \A t \in Threads : call[r][t].own

\* pmi.h on PMI_Barrier: "It will not return until all the processes have
\* called".  lcm_pm_barrier keeps that while the manager lives and is reached,
\* unless it completes PMI2 fences lazily or the answer was taken by the wrong
\* thread; when the exchange fails the wrapper returns all the same.
BarrierHolds ==
    \A r, q \in Ranks :
        pm.up /\ fd[r] = "open" /\ ~world.lazy /\ r \notin mixed => left[r] <= entered[q]

\* A value acknowledged by the manager before its publisher entered a barrier
\* the reader has left is found by lcm_pm_getname, its first 254 characters,
\* also after a lazy fence; if it is not, the manager died, or the reader never
\* had a connection to it (PMI_PORT refused, or a singleton), or PMI_ID made all
\* ranks of PMI2 publish as rank 0, or threads mixed up their answers.
NamesVisible ==
    \A r \in Ranks, t \in Threads :
        LET c == call[r][t]
        IN  Finished(r, t) /\ c.op \in {"lcm_pm_getname", "PMI2_KVS_Get"} /\ c.due # 0
                /\ r \notin mixed /\ ~world.rankless
            => IF c.res = "ok" THEN c.got = Min({c.due, 254}) ELSE ~pm.up \/ fd[r] = "none"

\* A call fails only for a reason outside the library: no manager, as after a
\* failed connection to PMI_PORT or for a singleton, or one that died or refused,
\* a singleton's mpiexec too; arguments too long; a key nobody has to find, such
\* as the keys beyond the job that the universe size makes a program look for.
\* (PMI_Abort reports failure whatever happens.)  A failed call costs the calls
\* after it nothing: they do not lose the connection to a living manager.
CallFailuresExplained ==
    \A r \in Ranks \ mixed, t \in Threads :
        LET c == call[r][t]
        IN  Finished(r, t) /\ ~Succeeds(r, c) =>
                \/ ~pm.up \/ fd[r] \in {"none", "left"}
                \/ c.op = "PMI_Abort"
                \/ c.res \in {"refused", "rejected", "notimpl", "toolong"}
                \/ c.op = "PMI_Spawn_multiple" /\ c.val # SpawnFits
                \/ /\ Singleton(r)
                   /\ \/ c.op \in NameService
                      \/ c.op = "lcm_pm_publish" /\ c.val >= SingletonMax
                \/ c.res = "absent" /\ (c.due = 0 \/ world.rankless)

\* A call waits for something the library does not provide: the lock another
\* thread's call holds; the other ranks at a barrier, or before the key values
\* of a lazy fence; an attribute; the connection of a singleton's mpiexec, which
\* accept waits for without a limit; an answer to a line that was never written,
\* or that the manager or mpiexec took for a part of the spawn command before it.
Waits(r, t) ==
    LET c == call[r][t]
        cmd == Head(c.todo)
        alone == \E q \in Ranks : pm.in[q] = None \/ pm.in[q].cmd # pm.in[r].cmd
    IN  \/ c.at = "lock" /\ mutex[r] # None /\ InCall(r, mutex[r])
        \/ c.at = "accept" \/ (c.at = "read" /\ fd[r] = "stuck")
        \/ /\ c.at = "read"
           /\ \/ world.api = "pmi1" /\ Unwritten(c)
              \/ r \in pm.mid
              \/ cmd \in Collective \cup {"get"} /\ pm.in[r] # None /\ alone
              \/ cmd = "getnodeattr-wait" /\ ~pm.attr

\* Every call returns unless it waits for something the library does not
\* provide, or its rank's threads mixed up their answers.
CallsReturn ==
    \A r \in Ranks, t \in Threads :
        []<>(~InCall(r, t) \/ Waits(r, t) \/ r \in mixed)

\* pmi.h and pmi2.h: a function that could not do its work returns an error.
SuccessIsReal ==
    \A r \in Ranks, t \in Threads :
        Finished(r, t) /\ Succeeds(r, call[r][t]) => call[r][t].res = "ok"
=============================================================================
