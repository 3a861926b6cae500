------------------------------ MODULE MCSwarm ------------------------------
(* Instances of Swarm: up to two peers and two Noise messages.             *)
EXTENDS Swarm

CONSTANTS p1, p2, m1, m2

\* Which key the messages authenticate: one message of p1, ...
OwnerOnly == [m \in {m1} |-> p1]
\* ... or one message each of p1 and p2.
OwnerTwo == [m \in {m1, m2} |-> IF m = m1 THEN p1 ELSE p2]
=============================================================================
