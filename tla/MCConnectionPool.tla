-------------------------- MODULE MCConnectionPool --------------------------
(* A pool of two connections, three cursors, and names enough for a connection *)
(* that close_all or an eviction took out of the pool.                         *)
EXTENDS ConnectionPool, TLC

CONSTANTS c1, c2, c3, c4, k1, k2, k3

MCSymmetry == Permutations({c1, c2, c3, c4}) \cup Permutations({k1, k2, k3})

=============================================================================
