----------------------------- MODULE SimplePmi -----------------------------
(***************************************************************************)
(* The PMI1 client, simple_pmi.c and simple_pmiutil.c, and the wrapper     *)
(* over it, pmi_wrapper_pmi1.c: lines of text over one socket, one thread. *)
(* Most functions are one GetResponse.  pmi.h defines USE_PMI_PORT: the    *)
(* socket comes from PMI_FD or from a connection to PMI_PORT, and a        *)
(* process with neither is a singleton, which starts an mpiexec of its own *)
(* the first time it needs a manager.                                      *)
(***************************************************************************)
EXTENDS PmiWire

CONSTANTS NameLen,  \* length of the name of the key value space
          KeyLen    \* length of a key

ASSUME LengthAssumption == NameLen \in Nat /\ KeyLen \in Nat

MaxLine == 1024      \* PMIU_MAXLINE
SingletonMax == 256  \* PMI_vallen_max without a manager

\* "cmd=put kvsname=%s key=%s value=%s\n"
PutLine(val) == 29 + NameLen + KeyLen + val

\* A line cut off by snprintf has no newline at its end: PMIU_writeline prints
\* a message, writes nothing and returns 0.
Unwritten(c) == Head(c.todo) = "put" /\ PutLine(c.val) >= MaxLine

WithManager(r) == inited[r] = "pm"  \* PMI_initialized > SINGLETON_INIT_BUT_NO_PM
Singleton(r) == inited[r] \in {"single", "alone"}  \* SINGLETON_INIT_BUT_NO_PM

\* The exchanges whose failure makes the function return at once: PMI_Init needs
\* the debugger's tv_ready, PMII_singinit the two lines of mpiexec.
Handshake == {Unasked, "greeting", "singinit"}

\* The exchanges whose failure nobody looks at: PMII_Set_from_port, and what
\* PMIi_InitIfSingleton does once it is connected.
Ignored(c) ==
    \/ Head(c.todo) = "initack"
    \/ /\ Head(c.todo) \in {"init", "abort", "get_maxes", "cached-put"}
       /\ c.op \notin {"PMI_Init", "PMI_Abort"}

Noticed(c, outcome) ==
    IF Ignored(c) THEN "ok"
    ELSE IF outcome = "lost" /\ Head(c.todo) \in Handshake THEN "unready" ELSE outcome

\* What a function goes on with when a line could not be written: PMII_getmaxes
\* returns after init.
AfterWrite(c) ==
    CASE Head(c.todo) \in Handshake -> <<>>
      [] Head(c.todo) = "init"      -> SubSeq(c.todo, 3, Len(c.todo))
      [] OTHER                      -> Tail(c.todo)

PMIU_writeline(r) ==
    LET c == call[r]["main"]
    IN  /\ Alive(r) /\ c.at = "write" /\ Head(c.todo) # "spawn-part"
        /\ \/ /\ IF Unwritten(c) THEN UNCHANGED req ELSE Sent(r, "main")
              /\ call' = [call EXCEPT ![r]["main"].at = "read"]
           \/ /\ ~Unwritten(c) /\ SendFails(r) /\ Head(c.todo) # Unasked
              /\ call' = [call EXCEPT ![r]["main"] =
                            Over(c, Noticed(c, "lost"), AfterWrite(c))]
              /\ UNCHANGED req
        /\ UNCHANGED <<world, fd, inited, phase, mutex, stream, history, pm, ans>>

\* PMII_getmaxes aborts the job when the manager has another version, and
\* goes on with the next command should that return.
AfterAnswer(c, outcome) ==
    CASE outcome # "ok" /\ Head(c.todo) \in Handshake -> <<>>
      [] outcome # "ok" /\ Head(c.todo) = "init"      -> <<"abort">> \o Tail(c.todo)
      [] OTHER                                        -> Tail(c.todo)

\* PMIU_readline and the checks of GetResponse.
GetResponse(r) ==
    LET c == call[r]["main"]
    IN  /\ Alive(r) /\ c.at = "read"
        /\ \/ /\ Eof(r)
              /\ call' = [call EXCEPT ![r]["main"] =
                            Over(c, Noticed(c, "lost"), AfterAnswer(c, "lost"))]
              /\ UNCHANGED ans
           \/ /\ fd[r] = "open" /\ ans[r] # <<>>
              /\ LET a == Head(ans[r])
                     o == Outcome(c, a)
                 IN  call' = [call EXCEPT ![r]["main"] =
                                [Over(c, Noticed(c, o), AfterAnswer(c, o)) EXCEPT
                                   !.got = Value(c, a),
                                   !.own = @ /\ a.by = "main"]]
              /\ ans' = [ans EXCEPT ![r] = Tail(@)]
        /\ UNCHANGED <<world, fd, inited, phase, mutex, stream, history, pm, req>>

\* One exchange if there is a manager, otherwise an answer of the client's own.
Ask(r, op, cmd) == Call(r, "main", op, IF WithManager(r) THEN <<cmd>> ELSE <<>>, 0, 0, "write")

PMII_getmaxes == <<"init", "get_maxes">>

\* With PMI_ID in the environment of PMI_PORT the manager is asked for rank and
\* size (PMII_Set_from_port), with PMI_TOTALVIEW it says when to begin.
PMI_Init(r) ==
    /\ phase[r] = "new"
    /\ \E conn \in getPMIFD :
          Enter(r, "main", "PMI_Init",
                IF conn = "open" THEN world.hello \o PMII_getmaxes ELSE <<>>,
                0, 0, "write", conn)

-----------------------------------------------------------------------------
\* A singleton's mpiexec.  Nobody but this process is its client: what it holds
\* is not modelled, its answers are any it may give.

\* PMIi_InitIfSingleton, before its first call: mpiexec is started and greets,
\* the client introduces itself, and the value it has cached is put.
PMIi_InitIfSingleton(r) ==
    IF inited[r] = "single"
    THEN <<"greeting", "singinit">> \o PMII_getmaxes \o <<"cached-put">> ELSE <<>>

Promoting == {"PMI_Get_universe_size", "lcm_pm_getname", "PMI_Spawn_multiple"}

Promote(r, op, todo, key, val) ==
    Call(r, "main", op, PMIi_InitIfSingleton(r) \o todo, key, val,
         IF inited[r] = "single" THEN "fork" ELSE "write")

\* PMII_singinit forks.  The model goes on with either process: the parent, or the
\* child, which returns into the program when there is no mpiexec to execute.
PMII_singinit(r) ==
    LET c == call[r]["main"]
    IN  /\ Alive(r) /\ c.at = "fork"
        /\ \/ call' = [call EXCEPT ![r]["main"].at = "accept"] /\ UNCHANGED phase
           \/ call' = [call EXCEPT ![r]["main"] = Over(c, "unready", <<>>)] /\ UNCHANGED phase
           \/ Exits(r)
        /\ UNCHANGED <<world, fd, inited, mutex, stream, history, managerVars>>

\* mpiexec connects, in its own time, first for the commands and, when it has
\* agreed to, for the standard streams; an error of accept ends the process.
accept_one_connection(r) ==
    LET c == call[r]["main"]
    IN  /\ Alive(r) /\ c.at = "accept"
        /\ \/ /\ fd[r] # "left"
              /\ fd' = [fd EXCEPT ![r] = "own"]
              /\ call' = [call EXCEPT ![r]["main"].at =
                            IF Head(c.todo) = "greeting" THEN "read" ELSE "write"]
              /\ UNCHANGED phase
           \/ Exits(r) /\ UNCHANGED fd
        /\ UNCHANGED <<world, inited, mutex, stream, history, managerVars>>

\* The answers of mpiexec: it may want another authentication or version, or
\* refuse.  It kills the process that aborts.
MpiexecSays(cmd) ==
    CASE cmd \in {"greeting", "singinit"}                   -> {"ok", "rejected"}
      [] cmd \in Refusable \cup {"unpublish", "lookup"}     -> {"ok", "refused"}
      [] cmd = "get"                                        -> {"ok", "absent"}
      [] cmd = "abort"                                      -> {}
      [] OTHER                                              -> {"ok"}

MpiexecAnswers(r) ==
    LET c == call[r]["main"]
    IN  /\ Alive(r) /\ c.at = "read" /\ fd[r] = "own"
        /\ \/ /\ \E o \in MpiexecSays(Head(c.todo)) :
                    LET d == Over(c, Noticed(c, o), AfterAnswer(c, o))
                    IN  \E at \in IF Head(c.todo) = "singinit" /\ d.at = "write"
                                 THEN {"accept", "write"} ELSE {d.at} :
                           call' = [call EXCEPT ![r]["main"] = [d EXCEPT !.at = at]]
              /\ UNCHANGED phase
           \/ Head(c.todo) = "abort" /\ Exits(r)
        /\ UNCHANGED <<world, fd, inited, mutex, stream, history, managerVars>>

MpiexecDies(r) ==
    /\ Alive(r) /\ fd[r] \in {"own", "stuck"}
    /\ fd' = [fd EXCEPT ![r] = "left"]
    /\ UNCHANGED <<world, inited, phase, mutex, stream, call, history, managerVars>>

-----------------------------------------------------------------------------
PMI_Get_universe_size(r) ==
    Promote(r, "PMI_Get_universe_size",
            IF inited[r] \in {"single", "pm"} THEN <<"universe_size">> ELSE <<>>, 0, 0)
PMI_Get_appnum(r) == Ask(r, "PMI_Get_appnum", "appnum")
\* Mutant: the test for a manager is inverted.
BarrierInverted(r) ==
    Call(r, "main", "PMI_Barrier", IF WithManager(r) THEN <<>> ELSE <<"barrier">>, 0, 0, "write")

PMI_Barrier(r) == Ask(r, "PMI_Barrier", "barrier")
PMI_Finalize(r) == Ask(r, "PMI_Finalize", "finalize")
PMI_Abort(r) == Call(r, "main", "PMI_Abort", <<"abort">>, 0, 0, "write")

\* Mutant: the value is cached with a manager too.
PutCached(r) == <<>>

PMI_KVS_Get_my_name(r) == IF Singleton(r) THEN <<>> ELSE <<"my_kvsname">>
PMI_KVS_Put(r) == IF Singleton(r) THEN <<>> ELSE <<"put">>
PMI_KVS_Get == <<"get">>

lcm_pm_publish(r, key, val) ==
    Call(r, "main", "lcm_pm_publish", PMI_KVS_Get_my_name(r) \o PMI_KVS_Put(r),
         key, val, "write")
lcm_pm_getname(r, key) ==
    Promote(r, "lcm_pm_getname", PMI_KVS_Get_my_name(r) \o PMI_KVS_Get, key, 0)

PMI_Publish_name(r) == Ask(r, "PMI_Publish_name", "publish")
PMI_Unpublish_name(r) == Ask(r, "PMI_Unpublish_name", "unpublish")
PMI_Lookup_name(r) == Ask(r, "PMI_Lookup_name", "lookup")

\* val: what of the command fits into the line buffer.  Every argument of a
\* command line is written at once with what the buffer holds, the rest is one
\* more line; when a piece does not fit, the function returns with the lines
\* it has written and without endcmd.
SpawnFits == 0
SpawnFirstPieceTooLong == 1
SpawnLaterPieceTooLong == 2

PMI_Spawn_multiple(r, fits) ==
    Promote(r, "PMI_Spawn_multiple",
            CASE fits = SpawnFits -> <<"spawn">>
              [] fits = SpawnFirstPieceTooLong -> <<>>
              [] fits = SpawnLaterPieceTooLong -> <<"spawn-part">>,
            0, fits)

\* The lines before the piece that does not fit are written, their result is
\* not looked at, and no answer is awaited.
SpawnGivesUp(r) ==
    LET c == call[r]["main"]
    IN  /\ Alive(r) /\ c.at = "write" /\ Head(c.todo) = "spawn-part"
        /\ Sent(r, "main") \/ (SendFails(r) /\ UNCHANGED req)
        /\ call' = [call EXCEPT ![r]["main"] = Over(c, "ok", <<>>)]
        /\ fd' = [fd EXCEPT ![r] = IF @ = "own" THEN "stuck" ELSE @]
        /\ UNCHANGED <<world, inited, phase, mutex, stream, history, pm, ans>>

NameService == {"PMI_Publish_name", "PMI_Unpublish_name", "PMI_Lookup_name"}

\* The function reports success.
Succeeds1(r, c) ==
    CASE c.op = "PMI_Init"  -> c.res # "unready" /\ (fd[r] = "none" => world.env = "none")
      [] c.op = "PMI_Abort" -> FALSE
      [] c.op \in NameService -> WithManager(r) /\ c.res # "refused"
      [] c.op = "lcm_pm_publish" ->
            c.res = "ok" /\ (Singleton(r) => c.val < SingletonMax)
      [] c.op = "PMI_Spawn_multiple" -> c.res = "ok" /\ c.val = SpawnFits
      [] OTHER -> c.res = "ok"

\* PMI_initialized when a function returns.
Initialized1(r, c) ==
    CASE c.op = "PMI_Init" /\ ~Succeeds1(r, c)      -> "no"
      [] c.op = "PMI_Init" /\ Succeeds1(r, c)       -> IF fd[r] = "none" THEN "single" ELSE "pm"
      [] c.op \in Promoting /\ inited[r] = "single" ->
            IF c.res \in {"unready", "rejected"} THEN "alone" ELSE "pm"
      [] OTHER                                      -> inited[r]

\* What a function has done to the library when it returns.
Return1(r) ==
    LET c == call[r]["main"]
    IN  Leave(r, "main",
              IF c.op = "PMI_Finalize" /\ WithManager(r) THEN "closed" ELSE fd[r],
              Initialized1(r, c),
              CASE c.op = "PMI_Init"     -> "ready"
                [] c.op = "PMI_Finalize" -> "final"
                [] OTHER                 -> phase[r])

Step1(r) ==
    \/ PMIU_writeline(r) \/ SpawnGivesUp(r) \/ GetResponse(r) \/ Return1(r)
    \/ PMII_singinit(r) \/ MpiexecAnswers(r)
=============================================================================
