----------------------------- MODULE Pmi2Client -----------------------------
(***************************************************************************)
(* The PMI2 client, pmi2_api.c and pmi2_util.c, whose PMI2_KVS_Put,        *)
(* PMI2_KVS_Get and PMI2_KVS_Fence are the wrapper's publish, getname and  *)
(* barrier (pmi_wrapper_pmi2.c).  Several threads share the socket.  The   *)
(* functions on key values, attributes and names hold pmi2_mutex from the  *)
(* request to the answer; those on jobs, the ring and Finalize do not.  An *)
(* answer is read in two parts, six digits of length and as many bytes,    *)
(* and nothing in it says which thread asked: the build leaves out the     *)
(* thread id (MPICH_IS_THREADED).                                          *)
(***************************************************************************)
EXTENDS PmiWire

MaxValLen == 1024  \* PMI2_MAX_VALLEN

\* The functions of the interface that take no lock.
LockFree == {"PMI2_Init", "PMI2_Finalize", "PMI2_Abort", "PMI2_Job_Spawn", "PMI2_Job_GetId",
             "PMI2_Job_Connect", "PMI2_Job_Disconnect", "PMIX_Ring"}

pthread_mutex_lock(r, t) ==
    /\ Alive(r) /\ call[r][t].at = "lock" /\ mutex[r] = None
    /\ mutex' = [mutex EXCEPT ![r] = t]
    /\ call' = [call EXCEPT ![r][t].at = "write"]
    /\ UNCHANGED <<world, fd, inited, phase, stream, history, managerVars>>

OnWire(r, t) == call[r][t].at \in {"read", "body"}

\* A request meets another thread's, and one of them takes no lock.
Mixing(r, t) ==
    \E u \in Threads \ {t} : OnWire(r, u) /\ {call[r][t].op, call[r][u].op} \cap LockFree # {}

TooLong(c) == Head(c.todo) = "put" /\ c.val > MaxValLen

\* PMI2_Abort does not wait for an answer, it exits, sent or not.
PMIi_WriteSimpleCommand(r, t) ==
    LET c == call[r][t]
        failed == Over(c, IF TooLong(c) THEN "toolong" ELSE "lost", <<>>)
    IN  /\ Alive(r) /\ c.at = "write"
        /\ \E next \in {[c EXCEPT !.at = "read"], failed} :
              /\ IF next.at = "read"
                 THEN /\ ~TooLong(c) /\ Sent(r, t)
                      /\ mixed' = IF Mixing(r, t) THEN mixed \cup {r} ELSE mixed
                 ELSE /\ TooLong(c) \/ SendFails(r)
                      /\ UNCHANGED <<req, mixed>>
              /\ IF c.op = "PMI2_Abort"
                 THEN /\ phase' = [phase EXCEPT ![r] = "killed"]
                      /\ call' = [call EXCEPT ![r] = [u \in Threads |-> Idle]]
                 ELSE /\ call' = [call EXCEPT ![r][t] = next]
                      /\ UNCHANGED phase
        /\ UNCHANGED <<world, fd, inited, mutex, stream, entered, left, pub, pm, ans>>

\* PMI2_Init gives up after the first exchange that failed.
After(c, outcome) == IF outcome = "ok" THEN Tail(c.todo) ELSE <<>>

\* The length of an answer.  A thread that finds the rest of an answer where it
\* expects a length takes some of it, converts it to 0 and fails; the other
\* thread then reads past the end of its answer.  (The PMI1 line that answers
\* init has no length, and no second thread to tell the difference.)
ReadLength(r, t) ==
    LET c == call[r][t]
    IN  /\ Alive(r) /\ c.at = "read" /\ fd[r] = "open" /\ ans[r] # <<>>
        /\ IF stream[r] = None
           THEN /\ stream' = [stream EXCEPT ![r] = t]
                /\ call' = [call EXCEPT ![r][t].at = "body"]
           ELSE /\ stream' = [stream EXCEPT ![r] = "broken"]
                /\ call' = [call EXCEPT ![r][t] = Over([c EXCEPT !.own = FALSE], "wrong", <<>>)]
        /\ UNCHANGED <<world, fd, inited, phase, mutex, history, managerVars>>

\* PMI2_Job_Connect refuses a manager that wants the key values copied.
Verdict(c, a) ==
    LET o == Outcome(c, a)
    IN  IF o = "ok" /\ a.cmd = "job-connect" /\ a.val = 1 THEN "notimpl" ELSE o

\* The rest of an answer and the checks of PMIi_ReadCommandExp.
ReadBody(r, t) ==
    LET c == call[r][t]
        a == Head(ans[r])
    IN  /\ Alive(r) /\ c.at = "body" /\ stream[r] = t
        /\ call' = [call EXCEPT ![r][t] =
                      [Over(c, Verdict(c, a), After(c, Verdict(c, a))) EXCEPT
                         !.got = Value(c, a),
                         !.own = @ /\ a.by = t]]
        /\ ans' = [ans EXCEPT ![r] = Tail(@)]
        /\ stream' = [stream EXCEPT ![r] = None]
        /\ UNCHANGED <<world, fd, inited, phase, mutex, history, pm, req>>

\* The end of the stream, or garbage in a stream that was misread.
ReadFails(r, t) ==
    LET c == call[r][t]
    IN  /\ Alive(r) /\ OnWire(r, t)
        /\ \/ Eof(r) /\ call' = [call EXCEPT ![r][t] = Over(c, "lost", <<>>)]
           \/ /\ c.at = "body" /\ stream[r] = "broken"
              /\ call' = [call EXCEPT ![r][t] = Over([c EXCEPT !.own = FALSE], "wrong", <<>>)]
        /\ UNCHANGED <<world, fd, inited, phase, mutex, stream, history, managerVars>>

Locked(r, t, op, cmd, key, val) == Call(r, t, op, <<cmd>>, key, val, "lock")
Plain(r, t, op, todo, val) == Call(r, t, op, todo, 0, val, "write")

PMI2_Init(r) ==
    /\ phase[r] = "new"
    /\ \E conn \in getPMIFD :
          Enter(r, "main", "PMI2_Init",
                IF conn = "open" THEN <<"init", "fullinit">> ELSE <<>>, 0, 0, "write", conn)

\* PMI2_Job_GetRank: only an environment with PMI_RANK sets PMI2_rank.
PMI2_Job_GetRank(r) == IF world.rankless \/ world.env = "none" THEN 0 ELSE r

\* Mutant: the lock is not taken.
GetWithoutLock(r, t, key) == Call(r, t, "PMI2_KVS_Get", <<"get">>, key, 0, "write")

PMI2_KVS_Put(r, t, key, val) == Locked(r, t, "PMI2_KVS_Put", "put", key, val)
PMI2_KVS_Get(r, t, key) == Locked(r, t, "PMI2_KVS_Get", "get", key, 0)
PMI2_KVS_Fence(r, t) == Locked(r, t, "PMI2_KVS_Fence", "barrier", 0, 0)

PMI2_Info_GetNodeAttr(r, t, waitfor) ==
    Locked(r, t, "PMI2_Info_GetNodeAttr",
           IF waitfor THEN "getnodeattr-wait" ELSE "getnodeattr", 0, 0)
PMI2_Info_GetNodeAttrIntArray(r, t) ==
    Locked(r, t, "PMI2_Info_GetNodeAttrIntArray", "getnodeattr", 0, 0)
PMI2_Info_PutNodeAttr(r, t) == Locked(r, t, "PMI2_Info_PutNodeAttr", "putnodeattr", 0, 0)
PMI2_Info_GetJobAttr(r, t) == Locked(r, t, "PMI2_Info_GetJobAttr", "getjobattr", 0, 0)
PMI2_Info_GetJobAttrIntArray(r, t) ==
    Locked(r, t, "PMI2_Info_GetJobAttrIntArray", "getjobattr", 0, 0)
PMI2_Nameserv_publish(r, t) == Locked(r, t, "PMI2_Nameserv_publish", "publish", 0, 0)
PMI2_Nameserv_lookup(r, t) == Locked(r, t, "PMI2_Nameserv_lookup", "lookup", 0, 0)
PMI2_Nameserv_unpublish(r, t) == Locked(r, t, "PMI2_Nameserv_unpublish", "unpublish", 0, 0)

PMI2_Finalize(r) ==
    Plain(r, "main", "PMI2_Finalize", IF inited[r] = "pm" THEN <<"finalize">> ELSE <<>>, 0)
PMI2_Abort(r) == Plain(r, "main", "PMI2_Abort", <<"abort">>, 0)
PMIX_Ring(r) ==
    Plain(r, "main", "PMIX_Ring", IF inited[r] = "single" THEN <<>> ELSE <<"ring">>, 0)
PMI2_Job_GetId(r, t) == Plain(r, t, "PMI2_Job_GetId", <<"job-getid">>, 0)
PMI2_Job_Connect(r, t) == Plain(r, t, "PMI2_Job_Connect", <<"job-connect">>, 0)
PMI2_Job_Disconnect(r, t) == Plain(r, t, "PMI2_Job_Disconnect", <<"job-disconnect">>, 0)
\* wanted: the caller asks for the id of the new job, which only an answer
\* that grants the request carries.
PMI2_Job_Spawn(r, t, wanted) == Plain(r, t, "PMI2_Job_Spawn", <<"spawn">>, wanted)

\* The function reports success: the rc of a spawn is read and not looked at.
Succeeds2(r, c) ==
    \/ c.res = "ok" /\ ~(c.op = "PMI2_Init" /\ fd[r] = "none" /\ world.env = "port")
    \/ c.op = "PMI2_Job_Spawn" /\ c.res = "refused" /\ c.val = 0

\* Mutant: every error closes the socket.
ClosesOnError(r, c) == c.res # "ok" \/ (c.op = "PMI2_Finalize" /\ inited[r] = "pm")

\* PMI2_Finalize closes the socket unless its exchange failed.
Closes(r, c) == c.op = "PMI2_Finalize" /\ inited[r] = "pm" /\ c.res = "ok"

\* What a function has done to the library when it returns.
Return2(r, t) ==
    LET c == call[r][t]
        op == c.op
    IN  Leave(r, t,
              IF Closes(r, c) THEN "closed" ELSE fd[r],
              CASE op = "PMI2_Init" /\ world.env = "none"  -> "single"
                [] op = "PMI2_Init" /\ Succeeds2(r, c)     -> "pm"
                [] OTHER                                   -> inited[r],
              CASE op = "PMI2_Init"     -> "ready"
                [] op = "PMI2_Finalize" -> "final"
                [] OTHER                -> phase[r])

Step2(r, t) ==
    \/ pthread_mutex_lock(r, t) \/ PMIi_WriteSimpleCommand(r, t)
    \/ ReadLength(r, t) \/ ReadBody(r, t) \/ ReadFails(r, t) \/ Return2(r, t)
=============================================================================
