----------------------------- MODULE MCServiceDns -----------------------------
(* Instances of ServiceDns: replicas that may each move to a spare address.    *)
EXTENDS ServiceDns, TLC

CONSTANTS v1, v2, v3, a1, a2, a3, a4

Pair   == {v1, v2}
Trio   == {v1, v2, v3}
Three  == {a1, a2, a3}
Perms  == Permutations(Replica) \cup Permutations(Addr)
=============================================================================
