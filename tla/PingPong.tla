------------------------------ MODULE PingPong ------------------------------
(***************************************************************************)
(* What a two-sided ping-pong benchmark promises: round trips with one     *)
(* message in flight at a time, each message received exactly once, before *)
(* its receiver answers it.  One-way latency is measured as half a round   *)
(* trip; it means nothing if two messages overlap.                         *)
(***************************************************************************)
EXTENDS Integers

VARIABLES sent,  \* sent[r]: messages rank r has sent
          got    \* got[r]: messages rank r has received (and checked)

vars == <<sent, got>>

Init ==
    /\ sent = [r \in {0, 1} |-> 0]
    /\ got = [r \in {0, 1} |-> 0]

\* Rank 0 sends the ping once it has the pong of the previous round trip.
Ping == sent[0] = got[0] /\ sent' = [sent EXCEPT ![0] = @ + 1]
        /\ UNCHANGED got

\* Rank 1 answers a ping it has received.
Pong == sent[1] < got[1] /\ sent' = [sent EXCEPT ![1] = @ + 1] /\ UNCHANGED got

\* Rank r receives a message its peer has sent.
Receive(r) == got[r] < sent[1 - r] /\ got' = [got EXCEPT ![r] = @ + 1]
              /\ UNCHANGED sent

Next == Ping \/ Pong \/ \E r \in {0, 1} : Receive(r)

Spec == Init /\ [][Next]_vars
============================================================================
