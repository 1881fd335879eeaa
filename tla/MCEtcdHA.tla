------------------------------ MODULE MCEtcdHA ------------------------------
(***************************************************************************)
(* Small instances of EtcdHA: two candidates compete for one service.      *)
(***************************************************************************)
EXTENDS EtcdHA, TLC

CONSTANTS n1, n2, n3, l1, l2, l3, l4

Pair    == {n1, n2}
Trio    == {n1, n2, n3}
Leases3 == {l1, l2, l3}
Leases4 == {l1, l2, l3, l4}

Perms == Permutations(Node) \cup Permutations(Lease)

AllFaults == FaultKind
\* The service misbehaves and commands are slow; etcd and the hosts are well.
ServiceFaults == {"stall", "start", "health", "playbook"}
OneEtcdFault  == {"etcd"}
=============================================================================
