---------------------------- MODULE EtcdHA_proofs ----------------------------
(***************************************************************************)
(* Proofs about EtcdHA, for every set of candidates, every set of lease    *)
(* identifiers and every fault budget.                                     *)
(*   TypeCorrect         the shell variables and etcd keep their types     *)
(*   LeaderIsHolder      a leader with a live lease holds the key          *)
(*   QuietHolderRuns     without etcd, host and signal faults only the    *)
(*                       holder of the key runs the service under a live   *)
(*                       lease, however long its commands take             *)
(*   QuietHandsOver      and the controllers implement ActiveService         *)
(*   HandoverIsStopped   whoever gives the key up has stopped the payload    *)
(*                       before, whatever fails but the stop command         *)
(***************************************************************************)
EXTENDS EtcdHA, TLAPS

-----------------------------------------------------------------------------
(* Type correctness, one group of variables at a time. *)

EtcdType ==
  /\ live \subseteq Lease
  /\ keyOwner \in Node \cup {NoNode}
  /\ keyLease \in Lease \cup {NoLease}

ControlType ==
  /\ pc \in [Node -> Point]
  /\ resume \in [Node -> LoopPoint \cup {"exit", "down"}]

ShellType ==
  /\ lease \in [Node -> Lease \cup {NoLease}]
  /\ leader \in [Node -> BOOLEAN]
  /\ ready \in [Node -> BOOLEAN]

HostType ==
  /\ unit \in [Node -> BOOLEAN]
  /\ app \in [Node -> BOOLEAN]

\* etcd's variables keep their types.
LEMMA EtcdTypeStep ==
  ASSUME TypeOK, Next PROVE EtcdType'
<1> USE DEF EtcdType, TypeOK
<1>1. ASSUME NEW n \in Node, Boot(n) PROVE EtcdType'
  BY <1>1 DEF Boot, etcdVars
<1>2. ASSUME NEW n \in Node, Grant(n) PROVE EtcdType'
  BY <1>2 DEF Grant
<1>3. ASSUME NEW n \in Node, KeepAlive(n) PROVE EtcdType'
  BY <1>3 DEF KeepAlive, etcdVars
<1>4. ASSUME NEW n \in Node, Txn(n) PROVE EtcdType'
  BY <1>4 DEF Txn, PutKey, CanPut
<1>5. ASSUME NEW n \in Node, Owner(n) PROVE EtcdType'
  BY <1>5 DEF Owner, etcdVars
<1>6. ASSUME NEW n \in Node, Start(n) PROVE EtcdType'
  BY <1>6 DEF Start, etcdVars
<1>7. ASSUME NEW n \in Node, WaitHealth(n) PROVE EtcdType'
  BY <1>7 DEF WaitHealth, etcdVars
<1>8. ASSUME NEW n \in Node, Check(n) PROVE EtcdType'
  BY <1>8 DEF Check, etcdVars
<1>9. ASSUME NEW n \in Node, Stop(n) PROVE EtcdType'
  BY <1>9 DEF Stop, etcdVars
<1>10. ASSUME NEW n \in Node, GiveUp(n) PROVE EtcdType'
  BY <1>10 DEF GiveUp, etcdVars
<1>11. ASSUME NEW n \in Node, Revoke(n) PROVE EtcdType'
  BY <1>11 DEF Revoke, RevokeLease, DropLease, etcdVars
<1>12. ASSUME NEW n \in Node, Sleep(n) PROVE EtcdType'
  BY <1>12 DEF Sleep, etcdVars
<1>13. ASSUME NEW n \in Node, TrapStop(n) PROVE EtcdType'
  BY <1>13 DEF TrapStop, etcdVars
<1>14. ASSUME NEW n \in Node, TrapRevoke(n) PROVE EtcdType'
  BY <1>14 DEF TrapRevoke, RevokeLease, DropLease, etcdVars
<1>15. ASSUME NEW n \in Node, Term(n) PROVE EtcdType'
  BY <1>15 DEF Term, etcdVars
<1>16. ASSUME NEW n \in Node, Crash(n) PROVE EtcdType'
  BY <1>16 DEF Crash, etcdVars
<1>17. ASSUME NEW n \in Node, Reset(n) PROVE EtcdType'
  BY <1>17 DEF Reset, etcdVars
<1>18. ASSUME NEW n \in Node, PlaybookStop(n) PROVE EtcdType'
  BY <1>18 DEF PlaybookStop, etcdVars
<1>19. ASSUME NEW l \in Lease, Expire(l) PROVE EtcdType'
  BY <1>19 DEF Expire, DropLease
<1>20. ASSUME NEW n \in Node, RetriesEnd(n) PROVE EtcdType'
  BY <1>20 DEF RetriesEnd, etcdVars
<1>. QED
  BY <1>1, <1>2, <1>3, <1>4, <1>5, <1>6, <1>7, <1>8, <1>9, <1>10, <1>11,
     <1>12, <1>13, <1>14, <1>15, <1>16, <1>17, <1>18, <1>19, <1>20 DEF Next, Step, Disturb

\* The control points keep their types.
LEMMA ControlTypeStep ==
  ASSUME TypeOK, Next PROVE ControlType'
<1> USE DEF ControlType, TypeOK, Point, LoopPoint, Goto, At
<1>1. ASSUME NEW n \in Node, Boot(n) PROVE ControlType'
  BY <1>1 DEF Boot
<1>2. ASSUME NEW n \in Node, Grant(n) PROVE ControlType'
  BY <1>2 DEF Grant
<1>3. ASSUME NEW n \in Node, KeepAlive(n) PROVE ControlType'
  BY <1>3 DEF KeepAlive
<1>4. ASSUME NEW n \in Node, Txn(n) PROVE ControlType'
  BY <1>4 DEF Txn
<1>5. ASSUME NEW n \in Node, Owner(n) PROVE ControlType'
  BY <1>5 DEF Owner
<1>6. ASSUME NEW n \in Node, Start(n) PROVE ControlType'
  BY <1>6 DEF Start
<1>7. ASSUME NEW n \in Node, WaitHealth(n) PROVE ControlType'
  BY <1>7 DEF WaitHealth
<1>8. ASSUME NEW n \in Node, Check(n) PROVE ControlType'
  BY <1>8 DEF Check
<1>9. ASSUME NEW n \in Node, Stop(n) PROVE ControlType'
  BY <1>9 DEF Stop
<1>10. ASSUME NEW n \in Node, GiveUp(n) PROVE ControlType'
  BY <1>10 DEF GiveUp
<1>11. ASSUME NEW n \in Node, Revoke(n) PROVE ControlType'
  BY <1>11 DEF Revoke
<1>12. ASSUME NEW n \in Node, Sleep(n) PROVE ControlType'
  BY <1>12 DEF Sleep
<1>13. ASSUME NEW n \in Node, TrapStop(n) PROVE ControlType'
  BY <1>13 DEF TrapStop
<1>14. ASSUME NEW n \in Node, TrapRevoke(n) PROVE ControlType'
  BY <1>14 DEF TrapRevoke
<1>15. ASSUME NEW n \in Node, Term(n) PROVE ControlType'
  BY <1>15 DEF Term
<1>16. ASSUME NEW n \in Node, Crash(n) PROVE ControlType'
  BY <1>16 DEF Crash
<1>17. ASSUME NEW n \in Node, Reset(n) PROVE ControlType'
  BY <1>17 DEF Reset
<1>18. ASSUME NEW n \in Node, PlaybookStop(n) PROVE ControlType'
  BY <1>18 DEF PlaybookStop
<1>19. ASSUME NEW l \in Lease, Expire(l) PROVE ControlType'
  BY <1>19 DEF Expire
<1>20. ASSUME NEW n \in Node, RetriesEnd(n) PROVE ControlType'
  BY <1>20 DEF RetriesEnd
<1>. QED
  BY <1>1, <1>2, <1>3, <1>4, <1>5, <1>6, <1>7, <1>8, <1>9, <1>10, <1>11,
     <1>12, <1>13, <1>14, <1>15, <1>16, <1>17, <1>18, <1>19, <1>20 DEF Next, Step, Disturb

\* The shell variables keep their types.
LEMMA ShellTypeStep ==
  ASSUME TypeOK, Next PROVE ShellType'
<1> USE DEF ShellType, TypeOK
<1>1. ASSUME NEW n \in Node, Boot(n) PROVE ShellType'
  BY <1>1 DEF Boot, FreshShell
<1>2. ASSUME NEW n \in Node, Grant(n) PROVE ShellType'
  BY <1>2 DEF Grant
<1>3. ASSUME NEW n \in Node, KeepAlive(n) PROVE ShellType'
  BY <1>3 DEF KeepAlive
<1>4. ASSUME NEW n \in Node, Txn(n) PROVE ShellType'
  BY <1>4 DEF Txn
<1>5. ASSUME NEW n \in Node, Owner(n) PROVE ShellType'
  BY <1>5 DEF Owner
<1>6. ASSUME NEW n \in Node, Start(n) PROVE ShellType'
  BY <1>6 DEF Start, shell
<1>7. ASSUME NEW n \in Node, WaitHealth(n) PROVE ShellType'
  BY <1>7 DEF WaitHealth
<1>8. ASSUME NEW n \in Node, Check(n) PROVE ShellType'
  BY <1>8 DEF Check, shell
<1>9. ASSUME NEW n \in Node, Stop(n) PROVE ShellType'
  BY <1>9 DEF Stop, StopService
<1>10. ASSUME NEW n \in Node, GiveUp(n) PROVE ShellType'
  BY <1>10 DEF GiveUp, StopService
<1>11. ASSUME NEW n \in Node, Revoke(n) PROVE ShellType'
  BY <1>11 DEF Revoke
<1>12. ASSUME NEW n \in Node, Sleep(n) PROVE ShellType'
  BY <1>12 DEF Sleep, shell
<1>13. ASSUME NEW n \in Node, TrapStop(n) PROVE ShellType'
  BY <1>13 DEF TrapStop, StopService
<1>14. ASSUME NEW n \in Node, TrapRevoke(n) PROVE ShellType'
  BY <1>14 DEF TrapRevoke, FreshShell, shell
<1>15. ASSUME NEW n \in Node, Term(n) PROVE ShellType'
  BY <1>15 DEF Term, shell
<1>16. ASSUME NEW n \in Node, Crash(n) PROVE ShellType'
  BY <1>16 DEF Crash, FreshShell
<1>17. ASSUME NEW n \in Node, Reset(n) PROVE ShellType'
  BY <1>17 DEF Reset, FreshShell
<1>18. ASSUME NEW n \in Node, PlaybookStop(n) PROVE ShellType'
  BY <1>18 DEF PlaybookStop, shell
<1>19. ASSUME NEW l \in Lease, Expire(l) PROVE ShellType'
  BY <1>19 DEF Expire, shell
<1>20. ASSUME NEW n \in Node, RetriesEnd(n) PROVE ShellType'
  BY <1>20 DEF RetriesEnd, shell
<1>. QED
  BY <1>1, <1>2, <1>3, <1>4, <1>5, <1>6, <1>7, <1>8, <1>9, <1>10, <1>11,
     <1>12, <1>13, <1>14, <1>15, <1>16, <1>17, <1>18, <1>19, <1>20 DEF Next, Step, Disturb

\* The units and payloads keep their types.
LEMMA HostTypeStep ==
  ASSUME TypeOK, Next PROVE HostType'
<1> USE DEF HostType, TypeOK
<1>1. ASSUME NEW n \in Node, Boot(n) PROVE HostType'
  BY <1>1 DEF Boot, hostVars
<1>2. ASSUME NEW n \in Node, Grant(n) PROVE HostType'
  BY <1>2 DEF Grant, hostVars
<1>3. ASSUME NEW n \in Node, KeepAlive(n) PROVE HostType'
  BY <1>3 DEF KeepAlive, hostVars
<1>4. ASSUME NEW n \in Node, Txn(n) PROVE HostType'
  BY <1>4 DEF Txn, hostVars
<1>5. ASSUME NEW n \in Node, Owner(n) PROVE HostType'
  BY <1>5 DEF Owner, hostVars
<1>6. ASSUME NEW n \in Node, Start(n) PROVE HostType'
  BY <1>6 DEF Start
<1>7. ASSUME NEW n \in Node, WaitHealth(n) PROVE HostType'
  BY <1>7 DEF WaitHealth, hostVars
<1>8. ASSUME NEW n \in Node, Check(n) PROVE HostType'
  BY <1>8 DEF Check, hostVars
<1>9. ASSUME NEW n \in Node, Stop(n) PROVE HostType'
  BY <1>9 DEF Stop, StopService
<1>10. ASSUME NEW n \in Node, GiveUp(n) PROVE HostType'
  BY <1>10 DEF GiveUp, StopService
<1>11. ASSUME NEW n \in Node, Revoke(n) PROVE HostType'
  BY <1>11 DEF Revoke, hostVars
<1>12. ASSUME NEW n \in Node, Sleep(n) PROVE HostType'
  BY <1>12 DEF Sleep, hostVars
<1>13. ASSUME NEW n \in Node, TrapStop(n) PROVE HostType'
  BY <1>13 DEF TrapStop, StopService
<1>14. ASSUME NEW n \in Node, TrapRevoke(n) PROVE HostType'
  BY <1>14 DEF TrapRevoke, hostVars
<1>15. ASSUME NEW n \in Node, Term(n) PROVE HostType'
  BY <1>15 DEF Term, hostVars
<1>16. ASSUME NEW n \in Node, Crash(n) PROVE HostType'
  BY <1>16 DEF Crash, hostVars
<1>17. ASSUME NEW n \in Node, Reset(n) PROVE HostType'
  BY <1>17 DEF Reset
<1>18. ASSUME NEW n \in Node, PlaybookStop(n) PROVE HostType'
  BY <1>18 DEF PlaybookStop
<1>19. ASSUME NEW l \in Lease, Expire(l) PROVE HostType'
  BY <1>19 DEF Expire, hostVars
<1>20. ASSUME NEW n \in Node, RetriesEnd(n) PROVE HostType'
  BY <1>20 DEF RetriesEnd, hostVars
<1>. QED
  BY <1>1, <1>2, <1>3, <1>4, <1>5, <1>6, <1>7, <1>8, <1>9, <1>10, <1>11,
     <1>12, <1>13, <1>14, <1>15, <1>16, <1>17, <1>18, <1>19, <1>20 DEF Next, Step, Disturb

\* The fault budget is never overdrawn.
LEMMA BudgetStep ==
  ASSUME TypeOK, Next PROVE (budget \in Nat)'
<1> USE DEF TypeOK, Fault, NoFault
<1>1. ASSUME NEW n \in Node, Boot(n) PROVE (budget \in Nat)'
  BY <1>1 DEF Boot
<1>2. ASSUME NEW n \in Node, Grant(n) PROVE (budget \in Nat)'
  BY <1>2 DEF Grant
<1>3. ASSUME NEW n \in Node, KeepAlive(n) PROVE (budget \in Nat)'
  BY <1>3 DEF KeepAlive
<1>4. ASSUME NEW n \in Node, Txn(n) PROVE (budget \in Nat)'
  BY <1>4 DEF Txn
<1>5. ASSUME NEW n \in Node, Owner(n) PROVE (budget \in Nat)'
  BY <1>5 DEF Owner
<1>6. ASSUME NEW n \in Node, Start(n) PROVE (budget \in Nat)'
  BY <1>6 DEF Start
<1>7. ASSUME NEW n \in Node, WaitHealth(n) PROVE (budget \in Nat)'
  BY <1>7 DEF WaitHealth, Healthy, Unhealthy
<1>8. ASSUME NEW n \in Node, Check(n) PROVE (budget \in Nat)'
  BY <1>8 DEF Check, Healthy, Unhealthy
<1>9. ASSUME NEW n \in Node, Stop(n) PROVE (budget \in Nat)'
  BY <1>9 DEF Stop, StopService
<1>10. ASSUME NEW n \in Node, GiveUp(n) PROVE (budget \in Nat)'
  BY <1>10 DEF GiveUp, StopService
<1>11. ASSUME NEW n \in Node, Revoke(n) PROVE (budget \in Nat)'
  BY <1>11 DEF Revoke, RevokeLease
<1>12. ASSUME NEW n \in Node, Sleep(n) PROVE (budget \in Nat)'
  BY <1>12 DEF Sleep
<1>13. ASSUME NEW n \in Node, TrapStop(n) PROVE (budget \in Nat)'
  BY <1>13 DEF TrapStop, StopService
<1>14. ASSUME NEW n \in Node, TrapRevoke(n) PROVE (budget \in Nat)'
  BY <1>14 DEF TrapRevoke, RevokeLease
<1>15. ASSUME NEW n \in Node, Term(n) PROVE (budget \in Nat)'
  BY <1>15 DEF Term
<1>16. ASSUME NEW n \in Node, Crash(n) PROVE (budget \in Nat)'
  BY <1>16 DEF Crash
<1>17. ASSUME NEW n \in Node, Reset(n) PROVE (budget \in Nat)'
  BY <1>17 DEF Reset
<1>18. ASSUME NEW n \in Node, PlaybookStop(n) PROVE (budget \in Nat)'
  BY <1>18 DEF PlaybookStop
<1>19. ASSUME NEW l \in Lease, Expire(l) PROVE (budget \in Nat)'
  BY <1>19 DEF Expire
<1>20. ASSUME NEW n \in Node, RetriesEnd(n) PROVE (budget \in Nat)'
  BY <1>20 DEF RetriesEnd
<1>. QED
  BY <1>1, <1>2, <1>3, <1>4, <1>5, <1>6, <1>7, <1>8, <1>9, <1>10, <1>11,
     <1>12, <1>13, <1>14, <1>15, <1>16, <1>17, <1>18, <1>19, <1>20 DEF Next, Step, Disturb

\* Every step keeps the types of the variables.
LEMMA TypeStep == TypeOK /\ [Next]_vars => TypeOK'
<1>1. ASSUME TypeOK, Next PROVE TypeOK'
  BY <1>1, EtcdTypeStep, ControlTypeStep, ShellTypeStep, HostTypeStep, BudgetStep
     DEF TypeOK, EtcdType, ControlType, ShellType, HostType
<1>2. TypeOK /\ UNCHANGED vars => TypeOK'
  BY DEF TypeOK, vars
<1>. QED
  BY <1>1, <1>2

\* The variables of the controllers, of etcd and of the hosts keep their types.
THEOREM TypeCorrect == Spec => []TypeOK
<1>1. Init => TypeOK
  BY FaultsAssumption DEF Init, TypeOK, Point, LoopPoint
<1>. QED
  BY <1>1, TypeStep, PTL DEF Spec
-----------------------------------------------------------------------------
(* A leader with a live lease holds the key. *)

\* Each shell either keeps its lease, without becoming the leader, or forgets it.
KeepsOrForgets ==
  \A n \in Node :
    \/ lease'[n] = lease[n] /\ (leader'[n] => leader[n])
    \/ lease'[n] = NoLease /\ leader'[n] = FALSE

\* A lease may disappear while shells only keep or forget theirs.
LEMMA DropHolder ==
  ASSUME TypeOK, HolderInv, NEW l \in Lease \cup {NoLease}, DropLease(l),
         KeepsOrForgets
  PROVE  HolderInv'
<1> USE NoNodeAssumption, NoLeaseAssumption DEF DropLease
<1>1. keyOwner' = NoNode <=> keyLease' = NoLease
  BY DEF HolderInv
<1>2. keyLease' # NoLease => keyLease' \in live'
  BY DEF HolderInv
<1>3. \A m, n \in Node : m # n /\ lease'[m] = lease'[n] => lease'[m] = NoLease
  BY DEF HolderInv, KeepsOrForgets
<1>4. \A n \in Node : leader'[n] => lease'[n] # NoLease
  BY DEF HolderInv, KeepsOrForgets
<1>5. ASSUME NEW n \in Node, leader'[n], lease'[n] \in live'
      PROVE  keyOwner' = n /\ keyLease' = lease'[n]
  <2>1. leader[n] /\ lease'[n] = lease[n] /\ lease[n] \in live /\ lease[n] # l
    BY <1>5 DEF KeepsOrForgets
  <2>. QED
    BY <2>1 DEF HolderInv, LeaderHoldsKey
<1>. QED
  BY <1>1, <1>2, <1>3, <1>4, <1>5 DEF HolderInv, LeaderHoldsKey

\* etcd may stay as it is while shells only keep or forget their leases.
LEMMA LocalHolder ==
  ASSUME TypeOK, HolderInv, UNCHANGED etcdVars, KeepsOrForgets
  PROVE  HolderInv'
<1> USE NoNodeAssumption, NoLeaseAssumption DEF etcdVars
<1>1. \A m, n \in Node : m # n /\ lease'[m] = lease'[n] => lease'[m] = NoLease
  BY DEF HolderInv, KeepsOrForgets
<1>2. \A n \in Node : leader'[n] => lease'[n] # NoLease
  BY DEF HolderInv, KeepsOrForgets
<1>3. ASSUME NEW n \in Node, leader'[n], lease'[n] \in live'
      PROVE  keyOwner' = n /\ keyLease' = lease'[n]
  <2>1. leader[n] /\ lease'[n] = lease[n] /\ lease[n] \in live
    BY <1>3 DEF KeepsOrForgets, TypeOK
  <2>. QED
    BY <2>1 DEF HolderInv, LeaderHoldsKey
<1>. QED
  BY <1>1, <1>2, <1>3 DEF HolderInv, LeaderHoldsKey

\* Putting the key, with or without learning of it, keeps the invariant.
LEMMA TxnHolder ==
  ASSUME TypeOK, HolderInv, NEW n \in Node, Txn(n)
  PROVE  HolderInv'
<1> USE NoNodeAssumption, NoLeaseAssumption
<1>1. CASE PutKey(n) /\ leader' \in {leader, [leader EXCEPT ![n] = TRUE]}
  <2>1. UNCHANGED <<live, lease>>
    BY DEF Txn
  <2>2. keyOwner = NoNode /\ lease[n] \in live /\ keyOwner' = n /\ keyLease' = lease[n]
    BY <1>1 DEF PutKey, CanPut
  <2>3. lease[n] # NoLease
    BY <2>2 DEF TypeOK
  <2>4. \A m \in Node : leader'[m] => lease[m] # NoLease
    BY <1>1, <2>3 DEF HolderInv, TypeOK
  <2>5. \A m \in Node : leader[m] => lease[m] \notin live
    BY <2>2 DEF HolderInv, LeaderHoldsKey
  <2>6. LeaderHoldsKey'
    BY <1>1, <2>1, <2>2, <2>5 DEF LeaderHoldsKey, TypeOK
  <2>. QED
    BY <2>1, <2>2, <2>3, <2>4, <2>6 DEF HolderInv
<1>2. CASE UNCHANGED <<keyOwner, keyLease, leader>>
  BY <1>2, LocalHolder DEF Txn, etcdVars, KeepsOrForgets
<1>. QED
  BY <1>1, <1>2 DEF Txn

\* A new lease is nobody else's, and the one who gets it is not a leader.
LEMMA GrantHolder ==
  ASSUME TypeOK, HolderInv, NEW n \in Node, Grant(n)
  PROVE  HolderInv'
<1> USE NoNodeAssumption, NoLeaseAssumption
<1>1. UNCHANGED <<keyOwner, keyLease, leader>>
  BY DEF Grant
<1>2. CASE UNCHANGED <<live, lease>>
  BY <1>1, <1>2, LocalHolder DEF etcdVars, KeepsOrForgets
<1>3. ASSUME lease[n] = NoLease, NEW l \in Lease, Unused(l),
             live' = live \cup {l}, lease' = [lease EXCEPT ![n] = l]
      PROVE  HolderInv'
  <2>1. ~leader[n]
    BY <1>3 DEF HolderInv
  <2>2. \A m \in Node : m # n => lease'[m] = lease[m] /\ lease[m] # l
    BY <1>3 DEF Unused, TypeOK
  <2>3. lease'[n] = l
    BY <1>3 DEF TypeOK
  <2>4. \A i, j \in Node : i # j /\ lease'[i] = lease'[j] => lease'[i] = NoLease
    BY <2>2, <2>3 DEF HolderInv
  <2>5. LeaderHoldsKey'
    BY <1>1, <1>3, <2>1, <2>2 DEF HolderInv, LeaderHoldsKey
  <2>. QED
    BY <1>1, <1>3, <2>1, <2>2, <2>4, <2>5 DEF HolderInv
<1>. QED
  BY <1>2, <1>3 DEF Grant

\* Every step keeps the invariant.
LEMMA HolderStep == TypeOK /\ HolderInv /\ [Next]_vars => HolderInv'
<1> SUFFICES ASSUME TypeOK, HolderInv, [Next]_vars PROVE HolderInv'
  OBVIOUS
<1>1. ASSUME NEW n \in Node, Boot(n) \/ Crash(n) \/ Reset(n) PROVE HolderInv'
  BY <1>1, LocalHolder DEF Boot, Crash, Reset, FreshShell, KeepsOrForgets, TypeOK
<1>2. ASSUME NEW n \in Node, KeepAlive(n) PROVE HolderInv'
  BY <1>2, LocalHolder DEF KeepAlive, KeepsOrForgets, TypeOK
<1>3. ASSUME NEW n \in Node, Owner(n) PROVE HolderInv'
  BY <1>3, LocalHolder DEF Owner, KeepsOrForgets, TypeOK
<1>4. ASSUME NEW n \in Node,
             \/ Start(n) \/ WaitHealth(n) \/ Check(n) \/ Stop(n) \/ GiveUp(n)
             \/ Sleep(n) \/ TrapStop(n)   \/ Term(n)  \/ PlaybookStop(n)
             \/ RetriesEnd(n)
      PROVE  HolderInv'
  <2>1. UNCHANGED <<etcdVars, lease, leader>>
    BY <1>4 DEF Start, WaitHealth, Check, Stop, GiveUp, Sleep, TrapStop, Term,
                PlaybookStop, RetriesEnd, shell
  <2>. QED
    BY <2>1, LocalHolder DEF KeepsOrForgets
<1>5. ASSUME NEW n \in Node, Revoke(n) PROVE HolderInv'
  <2>1. KeepsOrForgets
    BY <1>5 DEF Revoke, KeepsOrForgets, TypeOK
  <2>2. lease[n] \in Lease \cup {NoLease}
    BY DEF TypeOK
  <2>. QED
    BY <1>5, <2>1, <2>2, DropHolder, LocalHolder DEF Revoke, RevokeLease
<1>6. ASSUME NEW n \in Node, TrapRevoke(n) PROVE HolderInv'
  <2>1. KeepsOrForgets
    BY <1>6 DEF TrapRevoke, FreshShell, shell, KeepsOrForgets, TypeOK
  <2>2. lease[n] \in Lease \cup {NoLease}
    BY DEF TypeOK
  <2>. QED
    BY <1>6, <2>1, <2>2, DropHolder, LocalHolder DEF TrapRevoke, RevokeLease
<1>7. ASSUME NEW l \in Lease, Expire(l) PROVE HolderInv'
  BY <1>7, DropHolder DEF Expire, shell, KeepsOrForgets
<1>8. CASE UNCHANGED vars
  BY <1>8, LocalHolder DEF vars, etcdVars, KeepsOrForgets
<1>. QED
  BY <1>1, <1>2, <1>3, <1>4, <1>5, <1>6, <1>7, <1>8, GrantHolder, TxnHolder
     DEF Next, Step, Disturb

\* A controller that believes it is the leader holds the key under its own
\* lease, as long as that lease is alive, whatever faults happen.
THEOREM LeaderIsHolder == Spec => []LeaderHoldsKey
<1>1. Init => HolderInv
  BY NoNodeAssumption, NoLeaseAssumption DEF Init, HolderInv, LeaderHoldsKey
<1>2. HolderInv => LeaderHoldsKey
  BY DEF HolderInv
<1>. QED
  BY <1>1, <1>2, TypeCorrect, HolderStep, PTL DEF Spec
-----------------------------------------------------------------------------
(* Only the holder runs the service while etcd and the hosts are well. *)

\* The faults under which the election protects the service: it may fail to
\* start, fail its probes and be stopped by the playbook, and every command may
\* take longer than the lease lives.
Quiet == Faults \subseteq {"stall", "start", "health", "playbook"}

\* The kinds of fault that a quiet behaviour never shows.
LEMMA QuietFaults ==
  ASSUME Quiet
  PROVE  \A kind \in {"etcd", "stop", "term", "crash", "reset"} : ~Fault(kind)
BY DEF Quiet, Fault

\* What QuietInv says of one controller.
QuietNode(n) ==
  /\ pc[n] \notin {"trapstop", "traprevoke"}
  /\ pc[n] = "down" => lease[n] = NoLease /\ ~app[n]
  /\ pc[n] = "revoke" => ~app[n]
  /\ pc[n] = "start" => lease[n] # NoLease
  /\ app[n] /\ lease[n] = NoLease => pc[n] = "stop"
  /\ (app[n] \/ pc[n] = "start") /\ lease[n] \in live => keyOwner = n

\* What it says of etcd and the leases.
QuietEtcd ==
  /\ keyOwner = NoNode <=> keyLease = NoLease
  /\ keyLease # NoLease => keyLease \in live
  /\ keyOwner # NoNode => lease[keyOwner] = keyLease
  /\ \A m, n \in Node : m # n /\ lease[m] = lease[n] => lease[m] = NoLease

LEMMA QuietParts == QuietInv <=> QuietEtcd /\ \A n \in Node : QuietNode(n)
BY DEF QuietInv, QuietEtcd, QuietNode

\* Only the step's own controller, its payload and its lease change.
Elsewhere(n) ==
  \A m \in Node \ {n} : pc'[m] = pc[m] /\ app'[m] = app[m] /\ lease'[m] = lease[m]

\* Steps that leave etcd and the leases alone keep the invariant when their own
\* controller keeps its part of it.
LEMMA QuietLocal ==
  ASSUME QuietInv, NEW n \in Node, UNCHANGED <<etcdVars, lease>>, Elsewhere(n),
         QuietNode(n)'
  PROVE  QuietInv'
<1>1. QuietEtcd'
  BY QuietParts DEF QuietEtcd, etcdVars
<1>2. \A m \in Node : m # n => QuietNode(m)'
  BY QuietParts DEF QuietNode, Elsewhere, etcdVars
<1>. QED
  BY <1>1, <1>2 DEF QuietInv, QuietEtcd, QuietNode

\* A lease is granted to a controller that has none, hence neither to the owner
\* nor to one whose payload runs.
LEMMA QuietGrant ==
  ASSUME TypeOK, QuietInv, Quiet, NEW n \in Node, Grant(n)
  PROVE  QuietInv'
<1> USE NoNodeAssumption, NoLeaseAssumption
<1>1. UNCHANGED <<keyOwner, keyLease, app>> /\ Goto(n, "keepalive") /\ pc[n] = "grant"
  BY QuietFaults DEF Grant, hostVars, At
<1>2. CASE UNCHANGED <<live, lease>>
  <2>1. QuietNode(n)'
    BY <1>1, <1>2 DEF QuietInv, QuietNode, Goto, TypeOK
  <2>2. Elsewhere(n)
    BY <1>1, <1>2 DEF Elsewhere, Goto, TypeOK
  <2>. QED
    BY <1>1, <1>2, <2>1, <2>2, QuietLocal DEF etcdVars
<1>3. ASSUME lease[n] = NoLease, NEW l \in Lease, Unused(l),
             live' = live \cup {l}, lease' = [lease EXCEPT ![n] = l]
      PROVE  QuietInv'
  <2>1. keyOwner # n /\ ~app[n]
    BY <1>1, <1>3 DEF QuietInv
  <2>2. lease'[n] = l /\ \A m \in Node : m # n => lease'[m] = lease[m] /\ lease[m] # l
    BY <1>3 DEF Unused, TypeOK
  <2>3. \A i, j \in Node : i # j /\ lease'[i] = lease'[j] => lease'[i] = NoLease
    BY <2>2 DEF QuietInv
  <2>4. keyOwner' # NoNode => lease'[keyOwner'] = keyLease'
    BY <1>1, <2>1, <2>2 DEF QuietInv, TypeOK
  <2>5. pc'[n] = "keepalive" /\ \A m \in Node : m # n => pc'[m] = pc[m]
    BY <1>1 DEF Goto, TypeOK
  <2>6. QuietEtcd'
    BY <1>1, <1>3, <2>3, <2>4 DEF QuietEtcd, QuietInv
  <2>7. QuietNode(n)'
    BY <1>1, <2>1, <2>2, <2>5 DEF QuietNode
  <2>8. \A m \in Node : m # n => QuietNode(m)'
    BY <1>1, <1>3, <2>2, <2>5 DEF QuietNode, QuietInv
  <2>. QED
    BY <2>6, <2>7, <2>8 DEF QuietInv, QuietEtcd, QuietNode
<1>. QED
  BY <1>2, <1>3, QuietFaults DEF Grant

\* A lost lease is forgotten and the service is stopped next.
LEMMA QuietKeepAlive ==
  ASSUME TypeOK, QuietInv, Quiet, NEW n \in Node, KeepAlive(n)
  PROVE  QuietInv'
<1> USE NoNodeAssumption, NoLeaseAssumption
<1>1. UNCHANGED <<live, keyOwner, keyLease, app>>
  BY DEF KeepAlive, etcdVars, hostVars
<1>2. CASE lease[n] \in live /\ lease' = lease /\ Goto(n, "txn")
  <2>1. pc[n] = "keepalive"
    BY DEF KeepAlive, At
  <2>2. QuietNode(n)'
    BY <1>1, <1>2, <2>1 DEF QuietInv, QuietNode, Goto, TypeOK
  <2>3. Elsewhere(n)
    BY <1>1, <1>2 DEF Elsewhere, Goto, TypeOK
  <2>. QED
    BY <1>1, <1>2, <2>2, <2>3, QuietLocal DEF etcdVars
<1>3. CASE lease[n] \notin live /\ lease' = [lease EXCEPT ![n] = NoLease] /\ Goto(n, "stop")
  <2>1. keyOwner # n
    BY <1>3 DEF QuietInv
  <2>2. lease'[n] = NoLease /\ \A m \in Node : m # n => lease'[m] = lease[m]
    BY <1>3 DEF TypeOK
  <2>3. pc'[n] = "stop" /\ \A m \in Node : m # n => pc'[m] = pc[m]
    BY <1>3 DEF Goto, TypeOK
  <2>4. NoLease \notin live
    BY DEF TypeOK
  <2>5. QuietEtcd'
    BY <1>1, <2>1, <2>2 DEF QuietEtcd, QuietInv, TypeOK
  <2>6. \A m \in Node : QuietNode(m)'
    BY <1>1, <2>2, <2>3, <2>4 DEF QuietNode, QuietInv
  <2>. QED
    BY <2>5, <2>6 DEF QuietInv, QuietEtcd, QuietNode
<1>. QED
  BY <1>2, <1>3, QuietFaults DEF KeepAlive

\* The key is put only when every payload that runs has outlived its lease.
LEMMA QuietTxn ==
  ASSUME TypeOK, QuietInv, Quiet, NEW n \in Node, Txn(n)
  PROVE  QuietInv'
<1> USE NoNodeAssumption, NoLeaseAssumption
<1>1. UNCHANGED <<live, lease, app>> /\ Goto(n, "owner") /\ pc[n] = "txn"
  BY DEF Txn, hostVars, At
<1>2. CASE PutKey(n)
  <2>1. \A m \in Node : app[m] \/ pc[m] = "start" => lease[m] \notin live
    BY <1>2 DEF PutKey, CanPut, QuietInv
  <2>2. keyOwner' = n /\ keyLease' = lease[n] /\ lease[n] # NoLease /\ lease[n] \in live
    BY <1>2 DEF PutKey, CanPut, TypeOK
  <2>3. pc'[n] = "owner" /\ \A m \in Node : m # n => pc'[m] = pc[m]
    BY <1>1 DEF Goto, TypeOK
  <2>4. QuietEtcd'
    BY <1>1, <2>2 DEF QuietEtcd, QuietInv
  <2>5. \A m \in Node : QuietNode(m)'
    BY <1>1, <2>1, <2>3 DEF QuietNode, QuietInv
  <2>. QED
    BY <2>4, <2>5 DEF QuietInv, QuietEtcd, QuietNode
<1>3. CASE UNCHANGED <<keyOwner, keyLease>>
  <2>1. QuietNode(n)'
    BY <1>1, <1>3 DEF QuietInv, QuietNode, Goto, TypeOK
  <2>2. Elsewhere(n)
    BY <1>1 DEF Elsewhere, Goto, TypeOK
  <2>. QED
    BY <1>1, <1>3, <2>1, <2>2, QuietLocal DEF etcdVars
<1>. QED
  BY <1>2, <1>3 DEF Txn

\* Giving the lease up takes the key away from its owner only after the stop.
LEMMA QuietRevoke ==
  ASSUME TypeOK, QuietInv, Quiet, NEW n \in Node, Revoke(n)
  PROVE  QuietInv'
<1> USE NoNodeAssumption, NoLeaseAssumption
<1>1. DropLease(lease[n])
  BY QuietFaults DEF Revoke, RevokeLease
<1>2. lease' = [lease EXCEPT ![n] = NoLease] /\ Goto(n, "sleep") /\ app' = app
  BY DEF Revoke, hostVars
<1>3. ~app[n] /\ pc[n] = "revoke"
  BY DEF Revoke, At, QuietInv
<1>4. lease'[n] = NoLease /\ \A m \in Node : m # n => lease'[m] = lease[m]
  BY <1>2 DEF TypeOK
<1>5. pc'[n] = "sleep" /\ \A m \in Node : m # n => pc'[m] = pc[m]
  BY <1>2 DEF Goto, TypeOK
<1>6. live' = live \ {lease[n]} /\ NoLease \notin live
  BY <1>1 DEF DropLease, TypeOK
<1>7. keyLease = lease[n] /\ keyLease # NoLease => keyOwner = n
  BY DEF QuietInv, TypeOK
<1>8. keyOwner = n => keyLease = lease[n] /\ keyLease # NoLease
  BY DEF QuietInv
<1>9. CASE keyOwner = n
  <2>1. keyOwner' = NoNode /\ keyLease' = NoLease
    BY <1>1, <1>8, <1>9 DEF DropLease
  <2>2. QuietEtcd'
    BY <1>4, <2>1 DEF QuietEtcd, QuietInv
  <2>3. \A m \in Node : (app[m] \/ pc[m] = "start") /\ m # n => lease[m] \notin live
    BY <1>9 DEF QuietInv
  <2>4. \A m \in Node : QuietNode(m)'
    BY <1>2, <1>3, <1>4, <1>5, <1>6, <2>3 DEF QuietNode, QuietInv
  <2>. QED
    BY <2>2, <2>4 DEF QuietInv, QuietEtcd, QuietNode
<1>10. CASE keyOwner # n
  <2>1. UNCHANGED <<keyOwner, keyLease>>
    BY <1>1, <1>7, <1>10 DEF DropLease, QuietInv
  <2>2. QuietEtcd'
    BY <1>4, <1>6, <1>7, <1>10, <2>1 DEF QuietEtcd, QuietInv, TypeOK
  <2>3. \A m \in Node : QuietNode(m)'
    BY <1>2, <1>3, <1>4, <1>5, <1>6, <2>1 DEF QuietNode, QuietInv
  <2>. QED
    BY <2>2, <2>3 DEF QuietInv, QuietEtcd, QuietNode
<1>. QED
  BY <1>9, <1>10

\* When a lease expires its key goes, and its controller has no live lease.
LEMMA QuietExpire ==
  ASSUME TypeOK, QuietInv, NEW l \in Lease, Expire(l)
  PROVE  QuietInv'
<1> USE NoNodeAssumption, NoLeaseAssumption
<1>1. DropLease(l) /\ UNCHANGED <<lease, pc, app>>
  BY DEF Expire, shell, hostVars
<1>2. live' = live \ {l}
  BY <1>1 DEF DropLease
<1>3. QuietEtcd'
  BY <1>1, <1>2 DEF DropLease, QuietEtcd, QuietInv
<1>4. ASSUME NEW n \in Node, (app[n] \/ pc[n] = "start"), lease[n] \in live'
      PROVE  keyOwner' = n
  <2>1. keyOwner = n /\ lease[n] # l
    BY <1>2, <1>4 DEF QuietInv
  <2>2. keyLease # l
    BY <2>1 DEF QuietInv
  <2>. QED
    BY <1>1, <2>1, <2>2 DEF DropLease
<1>5. \A n \in Node : QuietNode(n)'
  BY <1>1, <1>4 DEF QuietNode, QuietInv
<1>. QED
  BY <1>3, <1>5 DEF QuietInv, QuietEtcd, QuietNode

\* In a quiet behaviour every step keeps the invariant.
LEMMA QuietStep ==
  ASSUME Quiet
  PROVE  TypeOK /\ QuietInv /\ [Next]_vars => QuietInv'
<1> SUFFICES ASSUME TypeOK, QuietInv, [Next]_vars PROVE QuietInv'
  OBVIOUS
<1> USE NoNodeAssumption, NoLeaseAssumption
<1>0. ASSUME NEW n \in Node, NEW p \in Point, Goto(n, p),
             UNCHANGED <<etcdVars, lease>>,
             \A m \in Node \ {n} : app'[m] = app[m],
             p \notin {"trapstop", "traprevoke", "down", "revoke", "start"},
             app'[n] => /\ lease[n] # NoLease
                        /\ lease[n] \in live => keyOwner = n
      PROVE  QuietInv'
  <2>1. pc'[n] = p /\ \A m \in Node \ {n} : pc'[m] = pc[m]
    BY <1>0 DEF Goto, TypeOK
  <2>2. Elsewhere(n)
    BY <1>0, <2>1 DEF Elsewhere
  <2>3. QuietNode(n)'
    BY <1>0, <2>1 DEF QuietNode, etcdVars
  <2>. QED
    BY <1>0, <2>2, <2>3, QuietLocal
<1>1. ASSUME NEW n \in Node, Boot(n) PROVE QuietInv'
  <2>1. pc[n] = "down" /\ lease[n] = NoLease /\ ~app[n]
    BY <1>1 DEF Boot, At, QuietInv
  <2>2. UNCHANGED <<etcdVars, app>> /\ lease' = lease /\ Goto(n, "grant")
    BY <1>1, <2>1 DEF Boot, FreshShell, hostVars, TypeOK
  <2>. QED
    BY <1>0, <2>1, <2>2 DEF Point, LoopPoint
<1>2. ASSUME NEW n \in Node, Owner(n) PROVE QuietInv'
  <2>1. UNCHANGED <<etcdVars, lease, app>> /\ pc[n] = "owner"
    BY <1>2 DEF Owner, hostVars, At
  <2>2. PICK p \in {"check", "start", "stop"} : Goto(n, p) /\ (p = "start" => keyOwner = n)
    BY <1>2 DEF Owner
  <2>3. keyOwner = n => lease[n] # NoLease
    BY DEF QuietInv
  <2>4. QuietNode(n)'
    BY <2>1, <2>2, <2>3 DEF QuietNode, QuietInv, Goto, etcdVars, TypeOK
  <2>5. Elsewhere(n)
    BY <2>1, <2>2 DEF Elsewhere, Goto, TypeOK
  <2>. QED
    BY <2>1, <2>4, <2>5, QuietLocal
<1>3. ASSUME NEW n \in Node, Start(n) PROVE QuietInv'
  <2>1. lease[n] # NoLease /\ (lease[n] \in live => keyOwner = n)
    BY <1>3 DEF Start, At, QuietInv
  <2>2. UNCHANGED <<etcdVars, lease>> /\ \A m \in Node \ {n} : app'[m] = app[m]
    BY <1>3 DEF Start, shell, TypeOK
  <2>3. \E p \in {"wait", "giveup"} : Goto(n, p)
    BY <1>3 DEF Start
  <2>. QED
    BY <1>0, <2>1, <2>2, <2>3 DEF Point, LoopPoint
<1>4. ASSUME NEW n \in Node, WaitHealth(n) \/ RetriesEnd(n) \/ Check(n) \/ Sleep(n)
      PROVE  QuietInv'
  <2>1. UNCHANGED <<etcdVars, lease, app>>
    BY <1>4 DEF WaitHealth, RetriesEnd, Check, Sleep, hostVars, shell
  <2>2. \E p \in {"sleep", "retry", "giveup", "stop", "grant"} : Goto(n, p)
    BY <1>4 DEF WaitHealth, RetriesEnd, Check, Sleep
  <2>3. pc[n] \in {"wait", "retry", "check", "sleep"}
    BY <1>4 DEF WaitHealth, RetriesEnd, Check, Sleep, At
  <2>4. app[n] => lease[n] # NoLease /\ (lease[n] \in live => keyOwner = n)
    BY <2>3 DEF QuietInv
  <2>. QED
    BY <1>0, <2>1, <2>2, <2>4 DEF Point, LoopPoint
<1>5. ASSUME NEW n \in Node, Stop(n) \/ GiveUp(n) PROVE QuietInv'
  <2>1. UNCHANGED <<etcdVars, lease>> /\ app' = [app EXCEPT ![n] = FALSE]
    BY <1>5, QuietFaults DEF Stop, GiveUp, StopService
  <2>2. PICK p \in {"sleep", "revoke"} : Goto(n, p)
    BY <1>5 DEF Stop, GiveUp
  <2>3. QuietNode(n)'
    BY <2>1, <2>2 DEF QuietNode, Goto, TypeOK
  <2>4. Elsewhere(n)
    BY <2>1, <2>2 DEF Elsewhere, Goto, TypeOK
  <2>. QED
    BY <2>1, <2>3, <2>4, QuietLocal
<1>6. ASSUME NEW n \in Node, TrapStop(n) \/ TrapRevoke(n) PROVE FALSE
  BY <1>6 DEF TrapStop, TrapRevoke, At, QuietInv
<1>7. ASSUME NEW n \in Node, Term(n) \/ Crash(n) \/ Reset(n) PROVE FALSE
  BY <1>7, QuietFaults DEF Term, Crash, Reset
<1>8. ASSUME NEW n \in Node, PlaybookStop(n) PROVE QuietInv'
  <2>1. UNCHANGED <<etcdVars, lease, pc>> /\ app' = [app EXCEPT ![n] = FALSE]
    BY <1>8 DEF PlaybookStop, shell
  <2>2. QuietNode(n)'
    BY <2>1 DEF QuietNode, QuietInv, etcdVars, TypeOK
  <2>3. Elsewhere(n)
    BY <2>1 DEF Elsewhere, TypeOK
  <2>. QED
    BY <2>1, <2>2, <2>3, QuietLocal
<1>9. CASE UNCHANGED vars
  BY <1>9 DEF vars, QuietInv
<1>. QED
  BY <1>1, <1>2, <1>3, <1>4, <1>5, <1>6, <1>7, <1>8, <1>9,
     QuietGrant, QuietKeepAlive, QuietTxn, QuietRevoke, QuietExpire DEF Next, Step, Disturb

\* As long as etcd answers, hosts and controllers stay up and stops work, only
\* the holder of the key runs the service under a live lease, however many
\* candidates compete, however often the service fails and however long the
\* commands of the loop take.
THEOREM QuietHolderRuns ==
  ASSUME Quiet
  PROVE  Spec => []OnlyHolderRuns
<1>1. Init => QuietInv
  BY NoNodeAssumption, NoLeaseAssumption DEF Init, QuietInv
<1>2. QuietInv => OnlyHolderRuns
  BY NoNodeAssumption DEF QuietInv, OnlyHolderRuns
<1>3. TypeOK /\ QuietInv /\ [Next]_vars => QuietInv'
  BY QuietStep
<1>. QED
  BY <1>1, <1>2, <1>3, TypeCorrect, PTL DEF Spec

-----------------------------------------------------------------------------
(* The controllers implement the abstract service. *)

RunningHosts == {n \in Node : app[n]}

mapped == <<keyOwner, RunningHosts, LateNodes>>

\* Steps that touch neither etcd, the leases nor the payloads do nothing there.
LEMMA StuttersLocal ==
  ASSUME UNCHANGED <<etcdVars, lease, app>>
  PROVE  UNCHANGED mapped
BY DEF mapped, RunningHosts, LateNodes, etcdVars

\* A stop, by the loop or by the playbook, is the host's Passivate.
LEMMA StopRefines ==
  ASSUME TypeOK, QuietInv, NEW n \in Node, UNCHANGED <<etcdVars, lease>>,
         app' = [app EXCEPT ![n] = FALSE]
  PROVE  [Active!Next]_mapped
<1>1. CASE ~app[n]
  <2>1. app' = app
    BY <1>1 DEF TypeOK
  <2>. QED
    BY <2>1, StuttersLocal
<1>2. CASE app[n]
  <2>1. n \in RunningHosts /\ RunningHosts' = RunningHosts \ {n}
    BY <1>2 DEF RunningHosts, TypeOK
  <2>2. LateNodes' \in {LateNodes, LateNodes \ {n}}
    <3>1. \A m \in Node : m # n => (m \in LateNodes' <=> m \in LateNodes)
      BY DEF LateNodes, etcdVars, TypeOK
    <3>2. n \in LateNodes' => n \in LateNodes
      BY <1>2 DEF LateNodes, etcdVars
    <3>3. LateNodes \subseteq Node /\ LateNodes' \subseteq Node
      BY DEF LateNodes
    <3>4. CASE n \in LateNodes'
      BY <3>1, <3>2, <3>3, <3>4
    <3>5. CASE n \notin LateNodes'
      BY <3>1, <3>2, <3>3, <3>5
    <3>. QED
      BY <3>4, <3>5
  <2>3. UNCHANGED keyOwner
    BY DEF etcdVars
  <2>. QED
    BY <2>1, <2>2, <2>3 DEF Active!Next, Active!Passivate, RunningHosts
<1>. QED
  BY <1>1, <1>2

\* A start is the Activate of the owner, or of a host that has become late.
LEMMA StartRefines ==
  ASSUME TypeOK, TypeOK', QuietInv, NEW n \in Node, Start(n)
  PROVE  [Active!Next]_mapped
<1>1. UNCHANGED <<etcdVars, lease>> /\ \A m \in Node : m # n => app'[m] = app[m]
  BY DEF Start, shell, TypeOK
<1>2. lease[n] # NoLease /\ (lease[n] \in live => keyOwner = n)
  BY DEF Start, At, QuietInv
<1>3. LateNodes' = LateNodes
  BY <1>1, <1>2 DEF LateNodes, etcdVars
<1>4. app[n] => app'[n]
  BY DEF Start, TypeOK
<1>5. CASE app'[n]
  <2>1. RunningHosts' = RunningHosts \cup {n}
    BY <1>1, <1>5 DEF RunningHosts
  <2>2. n \in LateNodes \cup {keyOwner}
    BY <1>2 DEF LateNodes
  <2>3. UNCHANGED keyOwner
    BY <1>1 DEF etcdVars
  <2>. QED
    BY <1>3, <2>1, <2>2, <2>3 DEF Active!Next, Active!Activate, RunningHosts
<1>6. CASE ~app'[n]
  <2>1. RunningHosts' = RunningHosts
    BY <1>1, <1>4, <1>6 DEF RunningHosts
  <2>2. UNCHANGED keyOwner
    BY <1>1 DEF etcdVars
  <2>. QED
    BY <1>3, <2>1, <2>2 DEF mapped
<1>. QED
  BY <1>5, <1>6

\* A grant goes to a host that is not late, and takes no host's lease.
LEMMA GrantRefines ==
  ASSUME TypeOK, QuietInv, NEW n \in Node, Grant(n)
  PROVE  UNCHANGED mapped
<1>1. UNCHANGED <<keyOwner, keyLease, app>> /\ pc[n] = "grant"
  BY DEF Grant, hostVars, At
<1>2. CASE UNCHANGED <<live, lease>>
  BY <1>1, <1>2, StuttersLocal DEF etcdVars
<1>3. ASSUME lease[n] = NoLease, NEW l \in Lease, Unused(l),
             live' = live \cup {l}, lease' = [lease EXCEPT ![n] = l]
      PROVE  UNCHANGED mapped
  <2>1. lease'[n] = l /\ \A m \in Node : m # n => lease'[m] = lease[m] /\ lease[m] # l
    BY <1>3 DEF Unused, TypeOK
  <2>2. ~app[n]
    BY <1>1, <1>3 DEF QuietInv
  <2>3. n \notin LateNodes /\ n \notin LateNodes'
    BY <1>1, <1>3, <2>1, <2>2 DEF LateNodes
  <2>4. \A m \in Node : m # n => (m \in LateNodes' <=> m \in LateNodes)
    BY <1>1, <1>3, <2>1 DEF LateNodes
  <2>5. LateNodes' = LateNodes
    BY <2>3, <2>4 DEF LateNodes
  <2>. QED
    BY <1>1, <2>5 DEF mapped, RunningHosts
<1>. QED
  BY <1>2, <1>3 DEF Grant

\* A lost lease that is noticed is the Rejoin of a host that does not run the
\* service; one that runs it stays late until its stop.
LEMMA KeepAliveRefines ==
  ASSUME TypeOK, QuietInv, Quiet, NEW n \in Node, KeepAlive(n)
  PROVE  [Active!Next]_mapped
<1>1. UNCHANGED <<live, keyOwner, keyLease, app>>
  BY DEF KeepAlive, etcdVars, hostVars
<1>2. RunningHosts' = RunningHosts
  BY <1>1 DEF RunningHosts
<1>3. CASE lease' = lease
  BY <1>1, <1>3, StuttersLocal DEF etcdVars
<1>4. CASE lease[n] \notin live /\ lease' = [lease EXCEPT ![n] = NoLease]
  <2>1. lease'[n] = NoLease /\ \A m \in Node : m # n => lease'[m] = lease[m]
    BY <1>4 DEF TypeOK
  <2>2. NoLease \notin live
    BY NoLeaseAssumption DEF TypeOK
  <2>3. \A m \in Node : m # n => (m \in LateNodes' <=> m \in LateNodes)
    BY <1>1, <2>1 DEF LateNodes
  <2>4. n \in LateNodes' <=> app[n]
    BY <1>1, <2>1, <2>2 DEF LateNodes
  <2>5. LateNodes \subseteq Node /\ LateNodes' \subseteq Node
    BY DEF LateNodes
  <2>6. CASE n \in LateNodes' <=> n \in LateNodes
    <3>1. LateNodes' = LateNodes
      BY <2>3, <2>5, <2>6
    <3>. QED
      BY <1>1, <1>2, <3>1 DEF mapped
  <2>7. CASE ~(n \in LateNodes' <=> n \in LateNodes)
    <3>1. app[n] => n \in LateNodes
      BY <1>4 DEF LateNodes
    <3>2. n \in LateNodes /\ n \notin LateNodes'
      BY <2>4, <2>7, <3>1
    <3>3. n \notin RunningHosts
      BY <2>4, <3>2 DEF RunningHosts
    <3>4. LateNodes' = LateNodes \ {n}
      BY <2>3, <2>5, <3>2
    <3>. QED
      BY <1>1, <1>2, <3>2, <3>3, <3>4 DEF Active!Next, Active!Rejoin, RunningHosts
  <2>. QED
    BY <2>6, <2>7
<1>. QED
  BY <1>3, <1>4, QuietFaults DEF KeepAlive

\* Putting the key is Acquire.
LEMMA TxnRefines ==
  ASSUME TypeOK, QuietInv, NEW n \in Node, Txn(n)
  PROVE  [Active!Next]_mapped
<1>1. UNCHANGED <<live, lease, app>>
  BY DEF Txn, hostVars
<1>2. RunningHosts' = RunningHosts /\ LateNodes' = LateNodes
  BY <1>1 DEF RunningHosts, LateNodes
<1>3. CASE PutKey(n)
  <2>1. keyOwner = NoNode /\ keyOwner' = n /\ lease[n] \in live
    BY <1>3 DEF PutKey, CanPut
  <2>2. n \notin LateNodes
    BY <2>1 DEF LateNodes
  <2>3. \A m \in Node : app[m] => lease[m] \notin live
    BY <2>1, NoNodeAssumption DEF QuietInv
  <2>4. RunningHosts \subseteq LateNodes
    BY <2>3 DEF RunningHosts, LateNodes
  <2>. QED
    BY <1>2, <2>1, <2>2, <2>4 DEF Active!Next, Active!Acquire, RunningHosts
<1>4. CASE UNCHANGED <<keyOwner, keyLease>>
  BY <1>2, <1>4 DEF mapped
<1>. QED
  BY <1>3, <1>4 DEF Txn

\* Revoking a live lease that holds the key is Release, noticing on the way that
\* the lease is gone is Rejoin.
LEMMA RevokeRefines ==
  ASSUME TypeOK, QuietInv, Quiet, NEW n \in Node, Revoke(n)
  PROVE  [Active!Next]_mapped
<1> USE NoLeaseAssumption, NoNodeAssumption
<1>1. app' = app /\ ~app[n] /\ lease' = [lease EXCEPT ![n] = NoLease]
  BY DEF Revoke, hostVars, At, QuietInv
<1>2. DropLease(lease[n])
  BY QuietFaults DEF Revoke, RevokeLease
<1>3. lease'[n] = NoLease /\ \A m \in Node : m # n => lease'[m] = lease[m]
  BY <1>1 DEF TypeOK
<1>4. live' = live \ {lease[n]} /\ NoLease \notin live
  BY <1>2 DEF DropLease, TypeOK
<1>5. \A m \in Node : m # n => (m \in LateNodes' <=> m \in LateNodes)
  <2>1. \A m \in Node : m # n => lease[m] # lease[n] \/ lease[m] = NoLease
    BY DEF QuietInv
  <2>. QED
    BY <1>1, <1>3, <1>4, <2>1 DEF LateNodes
<1>6. n \notin LateNodes' /\ n \notin RunningHosts /\ RunningHosts' = RunningHosts
  BY <1>1, <1>3 DEF LateNodes, RunningHosts
<1>7. LateNodes \subseteq Node /\ LateNodes' \subseteq Node
  BY DEF LateNodes
<1>8. CASE lease[n] \in live
  <2>1. n \notin LateNodes
    BY <1>8 DEF LateNodes
  <2>2. LateNodes' = LateNodes
    BY <1>5, <1>6, <1>7, <2>1
  <2>3. keyOwner = n => keyOwner' = NoNode
    BY <1>2 DEF DropLease, QuietInv
  <2>4. keyOwner # n => keyLease # lease[n]
    BY <1>4, <1>8 DEF QuietInv, TypeOK
  <2>5. keyOwner # n => keyOwner' = keyOwner
    BY <1>2, <2>4 DEF DropLease
  <2>6. CASE keyOwner = n
    BY <1>6, <2>2, <2>3, <2>6 DEF Active!Next, Active!Release, RunningHosts
  <2>7. CASE keyOwner # n
    BY <1>6, <2>2, <2>5, <2>7 DEF mapped
  <2>. QED
    BY <2>6, <2>7
<1>9. CASE lease[n] \notin live
  <2>1. keyLease = lease[n] => keyLease = NoLease
    BY <1>9 DEF QuietInv
  <2>2. keyOwner' = keyOwner
    BY <1>2, <2>1 DEF DropLease, QuietInv
  <2>3. LateNodes' = LateNodes \ {n}
    BY <1>5, <1>6, <1>7
  <2>4. CASE n \in LateNodes
    BY <1>6, <2>2, <2>3, <2>4 DEF Active!Next, Active!Rejoin, RunningHosts
  <2>5. CASE n \notin LateNodes
    BY <1>6, <2>2, <2>3, <2>5 DEF mapped
  <2>. QED
    BY <2>4, <2>5
<1>. QED
  BY <1>8, <1>9

\* The expiry of a lease a controller still has is its Lapse.
LEMMA ExpireRefines ==
  ASSUME TypeOK, QuietInv, NEW l \in Lease, Expire(l)
  PROVE  [Active!Next]_mapped
<1> USE NoLeaseAssumption, NoNodeAssumption
<1>1. DropLease(l) /\ UNCHANGED <<lease, app>> /\ l \in live
  BY DEF Expire, shell, hostVars
<1>2. live' = live \ {l}
  BY <1>1 DEF DropLease
<1>3. RunningHosts' = RunningHosts
  BY <1>1 DEF RunningHosts
<1>4. \A m \in Node : lease[m] # l => (m \in LateNodes' <=> m \in LateNodes)
  BY <1>1, <1>2 DEF LateNodes
<1>5. LateNodes \subseteq Node /\ LateNodes' \subseteq Node
  BY DEF LateNodes
<1>6. ASSUME NEW n \in Node, lease[n] = l PROVE [Active!Next]_mapped
  <2>1. n \notin LateNodes /\ n \in LateNodes'
    BY <1>1, <1>2, <1>6 DEF LateNodes
  <2>2. \A m \in Node : m # n => lease[m] # l
    BY <1>6 DEF QuietInv
  <2>3. LateNodes' = LateNodes \cup {n}
    BY <1>4, <1>5, <2>1, <2>2
  <2>4. keyLease = l <=> keyOwner = n
    BY <1>6, <2>2 DEF QuietInv, TypeOK
  <2>5. keyOwner' = IF keyOwner = n THEN NoNode ELSE keyOwner
    BY <1>1, <2>4 DEF DropLease
  <2>. QED
    BY <1>3, <2>1, <2>3, <2>5 DEF Active!Next, Active!Lapse, RunningHosts
<1>7. ASSUME \A n \in Node : lease[n] # l PROVE [Active!Next]_mapped
  <2>1. LateNodes' = LateNodes
    BY <1>4, <1>5, <1>7
  <2>2. keyLease # l
    BY <1>7 DEF QuietInv, TypeOK
  <2>3. keyOwner' = keyOwner
    BY <1>1, <2>2 DEF DropLease
  <2>. QED
    BY <1>3, <2>1, <2>3 DEF mapped
<1>. QED
  BY <1>6, <1>7

\* Every step of the controllers is a step of the abstract service or leaves it
\* alone.
LEMMA QuietRefines ==
  ASSUME Quiet
  PROVE  TypeOK /\ TypeOK' /\ QuietInv /\ [Next]_vars => [Active!Next]_mapped
<1> SUFFICES ASSUME TypeOK, TypeOK', QuietInv, [Next]_vars
             PROVE  [Active!Next]_mapped
  OBVIOUS
<1>1. ASSUME NEW n \in Node, Boot(n) PROVE [Active!Next]_mapped
  <2>1. lease[n] = NoLease
    BY <1>1 DEF Boot, At, QuietInv
  <2>2. UNCHANGED <<etcdVars, lease, app>>
    BY <1>1, <2>1 DEF Boot, FreshShell, hostVars, TypeOK
  <2>. QED
    BY <2>2, StuttersLocal
<1>2. ASSUME NEW n \in Node, Owner(n) \/ WaitHealth(n) \/ RetriesEnd(n)
                               \/ Check(n) \/ Sleep(n)
      PROVE  [Active!Next]_mapped
  <2>1. UNCHANGED <<etcdVars, lease, app>>
    BY <1>2 DEF Owner, WaitHealth, RetriesEnd, Check, Sleep, hostVars, shell
  <2>. QED
    BY <2>1, StuttersLocal
<1>3. ASSUME NEW n \in Node, Stop(n) \/ GiveUp(n) \/ PlaybookStop(n)
      PROVE  [Active!Next]_mapped
  <2>1. UNCHANGED <<etcdVars, lease>> /\ app' = [app EXCEPT ![n] = FALSE]
    BY <1>3, QuietFaults DEF Stop, GiveUp, PlaybookStop, StopService, shell
  <2>. QED
    BY <2>1, StopRefines
<1>4. ASSUME NEW n \in Node, TrapStop(n) \/ TrapRevoke(n) \/ Term(n) \/ Crash(n) \/ Reset(n)
      PROVE  FALSE
  BY <1>4, QuietFaults DEF TrapStop, TrapRevoke, Term, Crash, Reset, At, QuietInv
<1>5. CASE UNCHANGED vars
  BY <1>5, StuttersLocal DEF vars, etcdVars
<1>. QED
  BY <1>1, <1>2, <1>3, <1>4, <1>5, GrantRefines, KeepAliveRefines, TxnRefines,
     StartRefines, RevokeRefines, ExpireRefines DEF Next, Step, Disturb

\* Under the same assumption the controllers hand the service over as
\* ActiveService says: a payload that runs beside the owner's is late, stops
\* before its host can become the owner again, and nothing else ever runs.
THEOREM QuietHandsOver ==
  ASSUME Quiet
  PROVE  Spec => HandsOver
<1>1. Init => QuietInv
  BY NoNodeAssumption, NoLeaseAssumption DEF Init, QuietInv
<1>2. Init => Active!Init
  BY DEF Init, Active!Init, LateNodes
<1>3. TypeOK /\ QuietInv /\ [Next]_vars => QuietInv'
  BY QuietStep
<1>4. TypeOK /\ TypeOK' /\ QuietInv /\ [Next]_vars
        => [Active!Next]_<<keyOwner, {n \in Node : app[n]}, LateNodes>>
  BY QuietRefines DEF mapped, RunningHosts
<1>. QED
  BY <1>1, <1>2, <1>3, <1>4, TypeCorrect, PTL DEF Spec, HandsOver, Active!Spec

-----------------------------------------------------------------------------
(* Whoever gives the key up has stopped its payload. *)

\* Between the stop and the revocation nothing starts the payload again.
StoppedInv == \A n \in Node : pc[n] \in {"revoke", "traprevoke"} => ~app[n]

\* Every step keeps the payload stopped there, unless stop commands fail.
LEMMA StoppedStep ==
  ASSUME "stop" \notin Faults
  PROVE  TypeOK /\ StoppedInv /\ [Next]_vars => StoppedInv'
<1> SUFFICES ASSUME TypeOK, StoppedInv, [Next]_vars PROVE StoppedInv'
  OBVIOUS
<1> USE DEF StoppedInv, Goto, At
<1>1. ASSUME NEW n \in Node, NEW p \in Point, Goto(n, p),
             p \notin {"revoke", "traprevoke"}, \A m \in Node : m # n => app'[m] = app[m]
      PROVE  StoppedInv'
  BY <1>1 DEF TypeOK
<1>2. ASSUME NEW n \in Node, Start(n) PROVE StoppedInv'
  <2>1. \A m \in Node : m # n => app'[m] = app[m]
    BY <1>2 DEF Start, TypeOK
  <2>2. \E p \in {"wait", "giveup"} : Goto(n, p)
    BY <1>2 DEF Start
  <2>. QED
    BY <1>1, <2>1, <2>2 DEF Point, LoopPoint
<1>3. ASSUME NEW n \in Node, Stop(n) \/ GiveUp(n) \/ TrapStop(n) PROVE StoppedInv'
  <2>1. app' = [app EXCEPT ![n] = FALSE]
    BY <1>3 DEF Stop, GiveUp, TrapStop, StopService, Fault
  <2>2. \E p \in {"sleep", "revoke", "traprevoke"} : pc' = [pc EXCEPT ![n] = p]
    BY <1>3 DEF Stop, GiveUp, TrapStop
  <2>. QED
    BY <2>1, <2>2 DEF TypeOK
<1>4. ASSUME NEW n \in Node, PlaybookStop(n) PROVE StoppedInv'
  BY <1>4 DEF PlaybookStop, TypeOK
<1>5. ASSUME NEW n \in Node, TrapRevoke(n) PROVE StoppedInv'
  <2>1. app' = app /\ ~app[n]
    BY <1>5 DEF TrapRevoke, hostVars
  <2>2. \E p \in Point : pc' = [pc EXCEPT ![n] = p]
    BY <1>5 DEF TrapRevoke, Point
  <2>. QED
    BY <2>1, <2>2 DEF TypeOK
<1>6. ASSUME NEW n \in Node, Boot(n) \/ Grant(n) \/ KeepAlive(n) \/ Txn(n) \/ Owner(n)
                               \/ WaitHealth(n) \/ RetriesEnd(n) \/ Check(n)
                               \/ Revoke(n) \/ Sleep(n)
      PROVE  StoppedInv'
  <2>1. app' = app
    BY <1>6 DEF Boot, Grant, KeepAlive, Txn, Owner, WaitHealth, RetriesEnd, Check,
                Revoke, Sleep, hostVars
  <2>2. \E p \in Point \ {"revoke", "traprevoke"} : Goto(n, p)
    BY <1>6 DEF Boot, Grant, KeepAlive, Txn, Owner, WaitHealth, RetriesEnd, Check, Revoke, Sleep,
                Point, LoopPoint
  <2>. QED
    BY <1>1, <2>1, <2>2
<1>7. ASSUME NEW n \in Node, Term(n) \/ Crash(n) \/ Reset(n) PROVE StoppedInv'
  <2>1. app' = app
    BY <1>7 DEF Term, Crash, Reset, hostVars
  <2>2. \E p \in {"trapstop", "down"} : Goto(n, p)
    BY <1>7 DEF Term, Crash, Reset
  <2>. QED
    BY <1>1, <2>1, <2>2 DEF Point
<1>8. ASSUME NEW l \in Lease, Expire(l) PROVE StoppedInv'
  BY <1>8 DEF Expire, hostVars
<1>9. CASE UNCHANGED vars
  BY <1>9 DEF vars
<1>. QED
  BY <1>2, <1>3, <1>4, <1>5, <1>6, <1>7, <1>8, <1>9 DEF Next, Step, Disturb

\* Whatever else fails, crashes or is delayed, as long as the stop command works
\* a controller that gives the key up has stopped its payload before.
THEOREM HandoverIsStopped ==
  ASSUME "stop" \notin Faults
  PROVE  Spec => HandsOverStopped
<1>1. Init => StoppedInv
  BY DEF Init, StoppedInv
<1>2. TypeOK /\ StoppedInv /\ [Next]_vars => StoppedInv'
  BY StoppedStep
<1>3. StoppedInv /\ [Next]_vars =>
        [\A n \in Node :
           keyOwner = n /\ (Revoke(n) \/ TrapRevoke(n)) /\ keyOwner' # n => ~app[n]]_vars
  BY DEF StoppedInv, Revoke, TrapRevoke, At
<1>. QED
  BY <1>1, <1>2, <1>3, TypeCorrect, PTL DEF Spec, HandsOverStopped
=============================================================================
