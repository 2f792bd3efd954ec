--------------------------- MODULE ProcessManager ---------------------------
(***************************************************************************)
(* The process manager (mpiexec, slurmd) as its PMI1 and PMI2 clients see  *)
(* it: one socket per rank carries requests to it and answers back.  It is *)
(* no part of the repository; what it does is taken from the requests the  *)
(* clients send and the answers they expect, and from the contracts in     *)
(* pmi.h and pmi2.h.  A request is answered by an answer of the same cmd   *)
(* (a put by "put_result", a kvs-get by "kvs-get-response"), which is all  *)
(* the clients compare.  The manager may refuse requests, may finish a     *)
(* fence lazily as pmi2.h allows, and may die.                             *)
(***************************************************************************)
EXTENDS Integers, Sequences, SequencesExt

CONSTANTS NRanks,    \* the size of the job
          Universe,  \* the universe size the manager reports, at least NRanks
          MaxRefusals,  \* bounds the requests the manager refuses for its own reasons
          None       \* nobody, nothing

ASSUME RanksAssumption == NRanks \in Nat \ {0}
ASSUME UniverseAssumption == Universe \in Nat /\ Universe >= NRanks
ASSUME RefusalsAssumption == MaxRefusals \in Nat

Ranks == 0 .. NRanks - 1
Keys == 0 .. Universe - 1  \* a rank publishes under its number and looks for all

VARIABLES pm,   \* the manager
          req,  \* req[r]: requests of rank r it has not served
          ans   \* ans[r]: answers rank r has not read

managerVars == <<pm, req, ans>>

\* kvs: published values (a value is its length; 0: not published), in: the
\* request each rank waits with in a collective call, due: the keys every
\* rank must find, names: a service is published, attr: the node attribute
\* is set, mid: the ranks that left a command of several lines unfinished.
Manager(up, lazy) ==
    [up |-> up, lazy |-> lazy, kvs |-> [k \in Keys |-> 0], in |-> [r \in Ranks |-> None],
     due |-> {}, names |-> FALSE, attr |-> FALSE, mid |-> {}, refusals |-> 0]

ManagerInit(lazy) ==
    /\ pm = Manager(TRUE, lazy)
    /\ req = [r \in Ranks |-> <<>>]
    /\ ans = [r \in Ranks |-> <<>>]

Collective == {"barrier", "ring"}

\* A request that must wait: a wait for the attribute, and whatever depends
\* on a lazy fence the others have not entered.
Servable(r, m) ==
    \/ r \in pm.mid
    \/ CASE m.cmd = "getnodeattr-wait" -> pm.attr
         [] m.cmd = "get" -> IF pm.in[r] = None THEN TRUE ELSE pm.in[r].cmd = "ring"
         [] m.cmd \in Collective -> pm.in[r] = None
         [] OTHER -> TRUE

Answer(m, rc, val) == [cmd |-> m.cmd, rc |-> rc, val |-> val, by |-> m.by]
Reply(r, m, rc, val) == ans' = [ans EXCEPT ![r] = Append(@, Answer(m, rc, val))]

\* Of the requests of rank r the manager takes the first it can serve.
Serving(r, i) ==
    /\ pm.up
    /\ i \in DOMAIN req[r]
    /\ Servable(r, req[r][i])
    /\ \A j \in 1 .. i - 1 : ~Servable(r, req[r][j])
    /\ req' = [req EXCEPT ![r] = RemoveAt(@, i)]

\* A line of an unfinished command, or the line that leaves it unfinished: the
\* manager waits for endcmd and answers nothing.
TakeLine(r, m) ==
    /\ r \in pm.mid \/ m.cmd = "spawn-part"
    /\ pm' = [pm EXCEPT !.mid = @ \cup {r}]
    /\ UNCHANGED ans

\* Another version, no such job, no room for the processes or the value.
Refusable == {"init", "fullinit", "put", "spawn", "job-connect", "job-disconnect"}

Refuse(r, m) ==
    /\ m.cmd \in Refusable /\ pm.refusals < MaxRefusals
    /\ pm' = [pm EXCEPT !.refusals = @ + 1]
    /\ Reply(r, m, 1, 0)

Put(r, m) ==
    /\ m.cmd = "put"
    /\ pm' = [pm EXCEPT !.kvs[m.key] = m.val]
    /\ Reply(r, m, 0, 0)

\* A value put before the last completed fence is found; a later one may be.
Get(r, m) ==
    /\ m.cmd = "get"
    /\ \/ Reply(r, m, 0, pm.kvs[m.key])
       \/ m.key \notin pm.due /\ Reply(r, m, 0, 0)
    /\ UNCHANGED pm

\* A collective request waits for the same request of all other ranks; a lazy
\* manager answers a fence at once and lets the next get wait instead.
Collect(r, m) ==
    /\ m.cmd \in Collective
    /\ LET in == [pm.in EXCEPT ![r] = m]
           all == \A q \in Ranks : in[q] # None /\ in[q].cmd = m.cmd
           early == pm.lazy /\ m.cmd = "barrier"
           first == {q \in Ranks : q = r \/ (all /\ ~early)}
       IN  /\ pm' = IF all THEN [pm EXCEPT !.in = [q \in Ranks |-> None],
                                           !.due = {k \in Keys : pm.kvs[k] # 0}]
                           ELSE [pm EXCEPT !.in = in]
           /\ ans' = IF all \/ early
                     THEN [q \in Ranks |-> IF q \in first
                                           THEN Append(ans[q], Answer(in[q], 0, 0))
                                           ELSE ans[q]]
                     ELSE ans

Name(r, m) ==
    \/ m.cmd = "publish" /\ pm' = [pm EXCEPT !.names = TRUE] /\ Reply(r, m, 0, 0)
    \/ /\ m.cmd = "unpublish"
       /\ pm' = [pm EXCEPT !.names = FALSE]
       /\ Reply(r, m, IF pm.names THEN 0 ELSE 1, 0)
    \/ /\ m.cmd = "lookup"
       /\ Reply(r, m, IF pm.names THEN 0 ELSE 1, 1)
       /\ UNCHANGED pm

Attribute(r, m) ==
    \/ m.cmd = "putnodeattr" /\ pm' = [pm EXCEPT !.attr = TRUE] /\ Reply(r, m, 0, 0)
    \/ /\ m.cmd \in {"getnodeattr", "getnodeattr-wait"}
       /\ Reply(r, m, 0, IF pm.attr THEN 1 ELSE 0)
       /\ UNCHANGED pm

\* Requests without effect on what is modelled.  The answer to job-connect says
\* whether the client has to copy key values.
Queries == {"initack", "tv_ready", "init", "fullinit", "get_maxes", "universe_size", "appnum",
            "my_kvsname",
            "finalize", "spawn", "job-getid", "job-connect", "job-disconnect", "getjobattr"}

Query(r, m) ==
    /\ m.cmd \in Queries
    /\ \E val \in IF m.cmd = "job-connect" THEN {0, 1} ELSE {1} : Reply(r, m, 0, val)
    /\ UNCHANGED pm

Serve(r) ==
    \E i \in 1 .. Len(req[r]) :
        LET m == req[r][i]
        IN  /\ Serving(r, i)
            /\ \/ TakeLine(r, m)
               \/ /\ r \notin pm.mid
                  /\ \/ Put(r, m) \/ Get(r, m) \/ Collect(r, m) \/ Name(r, m)
                     \/ Attribute(r, m) \/ Query(r, m) \/ Refuse(r, m)

\* What it held is gone, what it has answered can still be read.
Die ==
    /\ pm.up
    /\ pm' = Manager(FALSE, pm.lazy)
    /\ req' = [r \in Ranks |-> <<>>]
    /\ UNCHANGED ans
=============================================================================
