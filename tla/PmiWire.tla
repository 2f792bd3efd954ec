------------------------------ MODULE PmiWire ------------------------------
(***************************************************************************)
(* What the PMI1 and the PMI2 client library have in common: the state of  *)
(* a rank's connection to the process manager and a call of a library      *)
(* function in progress.  A function is the list of commands it exchanges  *)
(* with the manager; each exchange is a write and a read, two steps other  *)
(* threads and other ranks come between.  The clients' own modules say     *)
(* which commands a function has, how an answer is taken from the socket   *)
(* and what a failed exchange does to the rest of the function.            *)
(***************************************************************************)
EXTENDS ProcessManager

CONSTANT MaxBarriers  \* bounds the barriers a rank enters

ASSUME BarriersAssumption == MaxBarriers \in Nat

Threads == {"main", "helper"}

\* The commands a client sends, and its requests: by is the thread that waits
\* for the answer.
Cmds == Queries \cup Refusable \cup Collective \cup
    {"put", "get", "abort", "spawn-part", "publish", "unpublish", "lookup", "putnodeattr",
     "getnodeattr", "getnodeattr-wait", "greeting", "singinit", "cached-put"}
Requests == [cmd : Cmds, key : Keys, val : Nat, by : Threads]

ASSUME NoneAssumption == None \notin Threads \cup {"broken"} \cup Requests

VARIABLES world,   \* api: the client linked; env: how the manager is found;
                   \* rankless: the environment has PMI_ID, which PMI2 does not
                   \* turn into a rank; hello: what PMI1 exchanges before init
          fd,      \* PMI_fd, PMI2_fd: "none" (-1), "open" to the manager of the
                   \* job, "closed"; to the mpiexec a singleton has started:
                   \* "own", "stuck" in an unfinished command, "left" by it
          inited,  \* PMI_initialized: "no", "single", "alone" (a singleton that
                   \* has tried to reach an mpiexec) or "pm"
          phase,   \* "new", "ready", "final", or "killed"
          mutex,   \* pmi2_mutex: the thread that holds it
          stream,  \* the thread that took the length of the next answer,
                   \* "broken" once two threads took parts of one answer
          call     \* call[r][t]: the call in progress

\* History: the ranks where a call that takes no lock met another one, the
\* barriers a rank entered and left, and what it published: the length (0: not
\* acknowledged) and the barrier after which all ranks must find it (0: none).
VARIABLES mixed, entered, left, pub

clientVars == <<world, fd, inited, phase, mutex, stream, call>>
history == <<mixed, entered, left, pub>>

\* key, val: the arguments; todo: the commands left, the first in progress;
\* res: the first thing that went wrong; got: the value a get returned; own:
\* only answers to its own requests were read; due: see NamesVisible.
Idle == [op |-> None, key |-> 0, val |-> 0, todo |-> <<>>, at |-> "idle",
         res |-> "ok", got |-> 0, own |-> TRUE, due |-> 0]

WireInit ==
    /\ fd = [r \in Ranks |-> "none"]
    /\ inited = [r \in Ranks |-> "no"]
    /\ phase = [r \in Ranks |-> "new"]
    /\ mutex = [r \in Ranks |-> None]
    /\ stream = [r \in Ranks |-> None]
    /\ call = [r \in Ranks |-> [t \in Threads |-> Idle]]
    /\ mixed = {}
    /\ entered = [r \in Ranks |-> 0]
    /\ left = [r \in Ranks |-> 0]
    /\ pub = [r \in Ranks |-> [val |-> 0, at |-> 0]]

Alive(r) == phase[r] # "killed"
InCall(r, t) == call[r][t].at # "idle"
Barriers == {"PMI_Barrier", "PMI2_KVS_Fence"}
Publications == {"lcm_pm_publish", "PMI2_KVS_Put"}

\* The length every rank must find under key k once rank r has left the
\* barrier after its publication.
DueFor(r, k) ==
    IF k \in Ranks /\ pub[k].at # 0 /\ pub[k].at <= left[r] THEN pub[k].val ELSE 0

\* A call begins: conn is the socket it works with, first how its first exchange
\* starts ("lock", "write" or "fork"); a call that exchanges nothing is over at once.
Enter(r, t, op, todo, key, val, first, conn) ==
    /\ Alive(r) /\ ~InCall(r, t)
    /\ call' = [call EXCEPT ![r][t] =
                  [Idle EXCEPT !.op = op, !.todo = todo, !.key = key, !.val = val,
                               !.at = IF todo = <<>> THEN "done" ELSE first,
                               !.due = DueFor(r, key)]]
    /\ fd' = [fd EXCEPT ![r] = conn]
    /\ op \in Barriers => entered[r] < MaxBarriers
    /\ entered' = [entered EXCEPT ![r] = IF op \in Barriers THEN @ + 1 ELSE @]
    /\ UNCHANGED <<world, inited, phase, mutex, stream, mixed, left, pub, managerVars>>

\* A function of a ready client.
Call(r, t, op, todo, key, val, first) ==
    phase[r] = "ready" /\ Enter(r, t, op, todo, key, val, first, fd[r])

\* Mutant: the last exchange is not noticed.
NeverDone(c, outcome, rest) ==
    [c EXCEPT !.todo = rest, !.at = "write", !.res = IF @ = "ok" THEN outcome ELSE @]

\* An exchange is over with an outcome, rest are the commands to go on with.
Over(c, outcome, rest) ==
    [c EXCEPT !.todo = rest, !.at = IF rest = <<>> THEN "done" ELSE "write",
              !.res = IF @ = "ok" THEN outcome ELSE @]

Outcome(c, a) ==
    CASE a.cmd # Head(c.todo)         -> "wrong"
      [] a.rc # 0                     -> "refused"
      [] a.cmd = "get" /\ a.val = 0   -> "absent"
      [] OTHER                        -> "ok"

\* The buffer lcm_pm_getname offers: what does not fit is cut off.
GetBuffer == 255
MPIU_Strncpy(len) == IF len < GetBuffer THEN len ELSE GetBuffer - 1

\* The value a call has got once it has read answer a.
Value(c, a) == IF a.cmd = "get" THEN MPIU_Strncpy(a.val) ELSE c.got

Request(t, c) == [cmd |-> Head(c.todo), key |-> c.key, val |-> c.val, by |-> t]

\* The request goes out to the manager, or into the socket buffer of one that
\* is gone, or to a singleton's mpiexec (see MpiexecAnswers).
Sent(r, t) ==
    /\ fd[r] \in {"open", "own", "stuck"}
    /\ req' = IF fd[r] = "open" /\ pm.up
              THEN [req EXCEPT ![r] = Append(@, Request(t, call[r][t]))]
              ELSE req

\* The write fails: there is no socket, or nobody at its other end.
SendFails(r) == fd[r] \in {"none", "left", "closed"} \/ (fd[r] = "open" /\ ~pm.up)

\* The process ends within a call.
Exits(r) ==
    /\ phase' = [phase EXCEPT ![r] = "killed"]
    /\ call' = [call EXCEPT ![r] = [u \in Threads |-> Idle]]

\* What the manager sends unasked: a client that waits for it writes nothing.
Unasked == "tv_ready"

\* A write to a socket nobody reads raises SIGPIPE, which nothing here catches.
Sigpipe(r, t) ==
    /\ Alive(r) /\ call[r][t].at = "write" /\ Head(call[r][t].todo) # Unasked
    /\ fd[r] = "left" \/ (fd[r] = "open" /\ ~pm.up)
    /\ Exits(r)
    /\ UNCHANGED <<world, fd, inited, mutex, stream, history, managerVars>>

\* The end of the stream: nothing more will come.
Eof(r) ==
    fd[r] \in {"none", "left", "closed"} \/ (fd[r] = "open" /\ ~pm.up /\ ans[r] = <<>>)

\* The connection to PMI_PORT may be refused or time out.
PMII_Connect_to_pm == {"open", "none"}

getPMIFD ==
    CASE world.env = "fd"   -> {"open"}
      [] world.env = "port" -> PMII_Connect_to_pm
      [] world.env = "none" -> {"none"}

\* Mutant: the lock is given back on the path of success only.
ReleaseOnSuccess(r, t) ==
    [mutex EXCEPT ![r] = IF @ = t /\ call[r][t].res = "ok" THEN None ELSE @]

\* pthread_mutex_unlock on the way out, which an error path joins (fn_exit).
Release(r, t) == [mutex EXCEPT ![r] = IF @ = t THEN None ELSE @]

\* The call returns: the connection and the state of the library are left as
\* conn and state, the thread gives the lock back.
Leave(r, t, conn, state, stage) ==
    LET c == call[r][t]
    IN  /\ Alive(r) /\ c.at = "done"
        /\ call' = [call EXCEPT ![r][t] = Idle]
        /\ fd' = [fd EXCEPT ![r] = conn]
        /\ inited' = [inited EXCEPT ![r] = state]
        /\ phase' = [phase EXCEPT ![r] = stage]
        /\ mutex' = Release(r, t)
        /\ left' = [left EXCEPT ![r] = IF c.op \in Barriers THEN @ + 1 ELSE @]
        /\ pub' = [pub EXCEPT ![r] =
                      IF c.op \notin Publications THEN @
                      ELSE [val |-> IF c.res = "ok" /\ fd[r] = "open" THEN c.val ELSE 0,
                            at |-> entered[r] + 1]]
        /\ UNCHANGED <<world, stream, mixed, entered, managerVars>>

\* The manager kills the processes of the job when one of them aborts it.
Kill(r) ==
    /\ pm.up /\ r \notin pm.mid
    /\ \E i \in DOMAIN req[r] : req[r][i].cmd = "abort"
    /\ req' = [q \in Ranks |-> <<>>]
    /\ phase' = [q \in Ranks |-> "killed"]
    /\ call' = [q \in Ranks |-> [t \in Threads |-> Idle]]
    /\ UNCHANGED <<world, fd, inited, mutex, stream, history, pm, ans>>
=============================================================================
