---------------------------- MODULE MCNetBoxIpam ----------------------------
(***************************************************************************)
(* An instance of NetBoxIpam: two managed interfaces on a prefix of two    *)
(* addresses, and two static interfaces outside of it that were given the  *)
(* same address by mistake; somebody may have reserved that address.       *)
(***************************************************************************)
EXTENDS NetBoxIpam, TLC

CONSTANTS m1, m2, s1, s2, a1, a2, a3

Interfaces  == {m1, m2, s1, s2}
FromPrefix  == {m1, m2}
SameStatic  == [n \in {s1, s2} |-> a1]
Addresses   == {a1, a2, a3}
ThePrefix   == {a2, a3}
OneReserved == {a1}
AllPrimary  == Nic

Perms == Permutations(FromPrefix) \cup Permutations({s1, s2}) \cup Permutations({a2, a3})
=============================================================================
