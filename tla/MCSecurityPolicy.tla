--------------------------- MODULE MCSecurityPolicy ---------------------------
(* Two workers, two peers and two accounts; tables of one record. *)
EXTENDS SecurityPolicy, TLC

CONSTANTS w1, w2, p1, p2, a1, a2

Symmetric == Permutations(Worker) \cup Permutations(Peer) \cup Permutations(Account)
=============================================================================
