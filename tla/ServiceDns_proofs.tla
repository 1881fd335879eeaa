-------------------------- MODULE ServiceDns_proofs --------------------------
(***************************************************************************)
(* Proofs about ServiceDns, for any number of replicas, addresses and jobs *)
(* that die.                                                               *)
(*   TypeCorrect        NetBox and the jobs keep their types               *)
(*   EligibleIsChecked  an eligible replica has passed its checks          *)
(*   EligibleIsFound    and NetBox says where it is                        *)
(*   Convergence        the records converge on the eligible replicas      *)
(***************************************************************************)
EXTENDS ServiceDns, TLAPS

\* The world and the jobs keep their types under every step.
LEMMA TypeStep == TypeOK /\ [Next]_vars => TypeOK'
<1> SUFFICES ASSUME TypeOK, [Next]_vars PROVE TypeOK'
  OBVIOUS
<1> USE DeathAssumption DEF TypeOK, Goto, Point, Resting, Reconciling
<1>1. ASSUME NEW v \in Replica, Apply(v) PROVE TypeOK'
  BY <1>1 DEF Apply
<1>2. ASSUME NEW v \in Replica, Configure(v) PROVE TypeOK'
  BY <1>2 DEF Configure, world
<1>3. ASSUME NEW v \in Replica, EnsureVm(v) PROVE TypeOK'
  BY <1>3 DEF EnsureVm
<1>4. ASSUME NEW v \in Replica, ReadZone(v) PROVE TypeOK'
  BY <1>4 DEF ReadZone, world
<1>5. ASSUME NEW v \in Replica, WriteZone(v) PROVE TypeOK'
  BY <1>5 DEF WriteZone
<1>6. ASSUME NEW v \in Replica, WriteOwn(v) PROVE TypeOK'
  BY <1>6 DEF WriteOwn
<1>7. ASSUME NEW v \in Replica, SetPrimary(v) PROVE TypeOK'
  BY <1>7 DEF SetPrimary
<1>8. ASSUME NEW v \in Replica, PassChecks(v) PROVE TypeOK'
  BY <1>8 DEF PassChecks
<1>9. ASSUME NEW v \in Replica, ReadTags(v) PROVE TypeOK'
  BY <1>9 DEF ReadTags, world
<1>10. ASSUME NEW v \in Replica, MarkEligible(v) PROVE TypeOK'
  BY <1>10 DEF MarkEligible
<1>11. ASSUME NEW v \in Replica, ReadRecords(v) PROVE TypeOK'
  BY <1>11 DEF ReadRecords, world
<1>12. ASSUME NEW v \in Replica, ReadVms(v) PROVE TypeOK'
  <2>1. {vm[w].ip : w \in Eligible} \subseteq Addr
    BY DEF Eligible
  <2>2. seen[v] \subseteq Addr
    OBVIOUS
  <2>. QED
    BY <1>12, <2>1, <2>2 DEF ReadVms, world
<1>13. ASSUME NEW v \in Replica, DeleteOne(v) PROVE TypeOK'
  <2>1. PICK a \in todo[v].del :
          /\ records' = records \ {a}
          /\ todo' = [todo EXCEPT ![v].del = @ \ {a}]
          /\ IF a \in records THEN UNCHANGED pc ELSE Goto(v, "failed")
    BY <1>13 DEF DeleteOne
  <2>2. todo' \in [Replica -> [del : SUBSET Addr, add : SUBSET Addr]]
    BY <2>1
  <2>3. pc' \in [Replica -> Point] /\ records' \subseteq Addr
    BY <2>1
  <2>. QED
    BY <1>13, <2>2, <2>3 DEF DeleteOne
<1>14. ASSUME NEW v \in Replica, DeletedAll(v) \/ CreatedAll(v) PROVE TypeOK'
  BY <1>14 DEF DeletedAll, CreatedAll, world
<1>15. ASSUME NEW v \in Replica, CreateOne(v) PROVE TypeOK'
  <2>1. PICK a \in todo[v].add :
          /\ records' = records \cup {a}
          /\ todo' = [todo EXCEPT ![v].add = @ \ {a}]
          /\ IF a \in records THEN Goto(v, "failed") ELSE UNCHANGED pc
    BY <1>15 DEF CreateOne
  <2>2. todo' \in [Replica -> [del : SUBSET Addr, add : SUBSET Addr]]
    BY <2>1
  <2>3. pc' \in [Replica -> Point] /\ records' \subseteq Addr
    BY <2>1
  <2>. QED
    BY <1>15, <2>2, <2>3 DEF CreateOne
<1>16. ASSUME NEW v \in Replica, Die(v) PROVE TypeOK'
  BY <1>16 DEF Die, world
<1>17. CASE UNCHANGED vars
  BY <1>17 DEF vars, world, jobs
<1>. QED
  BY <1>1, <1>2, <1>3, <1>4, <1>5, <1>6, <1>7, <1>8, <1>9, <1>10, <1>11, <1>12,
     <1>13, <1>14, <1>15, <1>16, <1>17 DEF Next, Step

\* NetBox, Terraform's view and the jobs keep their types.
THEOREM TypeCorrect == Spec => []TypeOK
<1>1. Init => TypeOK
  <2>1. NoWork \in [del : SUBSET Addr, add : SUBSET Addr]
    BY DEF NoWork
  <2>2. SUFFICES ASSUME Init PROVE TypeOK
    OBVIOUS
  <2>3. vm \in [Replica -> [ip : Addr \cup {None}, eligible : BOOLEAN]]
    BY <2>2 DEF Init
  <2>4. todo \in [Replica -> [del : SUBSET Addr, add : SUBSET Addr]]
    BY <2>1, <2>2 DEF Init
  <2>5. deaths \in 0..MaxDeaths
    BY <2>2, DeathAssumption DEF Init
  <2>. QED
    BY <2>2, <2>3, <2>4, <2>5 DEF Init, TypeOK, Point, Resting, Reconciling
<1>. QED
  BY <1>1, TypeStep, PTL DEF Spec

-----------------------------------------------------------------------------
(* The tag and the registration. *)

\* A job that is about to set the tag has seen the checks pass; a machine whose
\* registration is complete is where NetBox and its own name say it is.
RegisteredInv ==
  \A v \in Replica :
    /\ pc[v] \in {"tags", "mark"} => checked[v]
    /\ vm[v].eligible => checked[v]
    /\ pc[v] = "primary" => own[v] = host[v]
    /\ ~tainted[v] => vm[v].ip = host[v] /\ own[v] = host[v]

\* Every step keeps the tag behind the checks and the registration current.
LEMMA RegisteredStep == TypeOK /\ RegisteredInv /\ [Next]_vars => RegisteredInv'
<1> SUFFICES ASSUME TypeOK, RegisteredInv, [Next]_vars PROVE RegisteredInv'
  OBVIOUS
<1> USE DEF RegisteredInv, TypeOK, Goto, At
<1>1. ASSUME NEW v \in Replica, Apply(v) PROVE RegisteredInv'
  BY <1>1 DEF Apply
<1>2. ASSUME NEW v \in Replica, EnsureVm(v) PROVE RegisteredInv'
  BY <1>2 DEF EnsureVm
<1>3. ASSUME NEW v \in Replica, WriteZone(v) PROVE RegisteredInv'
  BY <1>3 DEF WriteZone
<1>4. ASSUME NEW v \in Replica, WriteOwn(v) PROVE RegisteredInv'
  BY <1>4 DEF WriteOwn
<1>5. ASSUME NEW v \in Replica, SetPrimary(v) PROVE RegisteredInv'
  BY <1>5 DEF SetPrimary
<1>6. ASSUME NEW v \in Replica, PassChecks(v) PROVE RegisteredInv'
  BY <1>6 DEF PassChecks
<1>7. ASSUME NEW v \in Replica, MarkEligible(v) PROVE RegisteredInv'
  BY <1>7 DEF MarkEligible
<1>8. ASSUME NEW v \in Replica, ReadTags(v) PROVE RegisteredInv'
  BY <1>8 DEF ReadTags, world
<1>9. ASSUME NEW v \in Replica, UNCHANGED <<host, tainted, vm, own, checked>>,
             \/ UNCHANGED pc
             \/ \E p \in Point \ {"tags", "mark", "primary"} : Goto(v, p)
      PROVE  RegisteredInv'
  BY <1>9
<1>10. ASSUME NEW v \in Replica,
              \/ Configure(v) \/ ReadZone(v) \/ ReadRecords(v) \/ ReadVms(v)
              \/ DeleteOne(v) \/ DeletedAll(v) \/ CreateOne(v) \/ CreatedAll(v) \/ Die(v)
       PROVE  RegisteredInv'
  <2>1. UNCHANGED <<host, tainted, vm, own, checked>>
    BY <1>10 DEF Configure, ReadZone, ReadRecords, ReadVms, DeleteOne, DeletedAll,
                 CreateOne, CreatedAll, Die, world
  <2>2. \/ UNCHANGED pc
        \/ \E p \in Point \ {"tags", "mark", "primary"} : Goto(v, p)
    BY <1>10 DEF Configure, ReadZone, ReadRecords, ReadVms, DeleteOne, DeletedAll,
                 CreateOne, CreatedAll, Die, Point, Resting, Reconciling
  <2>. QED
    BY <2>1, <2>2, <1>9
<1>11. CASE UNCHANGED vars
  BY <1>11 DEF vars, world, jobs
<1>. QED
  BY <1>1, <1>2, <1>3, <1>4, <1>5, <1>6, <1>7, <1>8, <1>10, <1>11 DEF Next, Step

\* The invariant holds throughout.
LEMMA RegisteredInvariant == Spec => []RegisteredInv
<1>1. Init => RegisteredInv
  BY DEF Init, RegisteredInv
<1>. QED
  BY <1>1, RegisteredStep, TypeCorrect, PTL DEF Spec

\* An eligible replica has passed its health checks since its registration.
THEOREM EligibleIsChecked == Spec => []EligibleMeansChecked
<1>1. RegisteredInv => EligibleMeansChecked
  BY DEF RegisteredInv, EligibleMeansChecked
<1>. QED
  BY <1>1, RegisteredInvariant, PTL

\* An eligible replica is where NetBox and its own name say it is, unless its
\* registration is still to be repeated.
THEOREM EligibleIsFound == Spec => []EligibleIsCurrent
<1>1. RegisteredInv => EligibleIsCurrent
  BY DEF RegisteredInv, EligibleIsCurrent
<1>. QED
  BY <1>1, RegisteredInvariant, PTL

-----------------------------------------------------------------------------
(* Convergence. *)

Want == {vm[w].ip : w \in Eligible}

\* somebody has yet to begin a reconciliation, or to be rolled out again
Pending == \E w \in Replica : pc[w] \notin Reconciling \cup {"done"}

\* While the last reconciliation is undisturbed it is the only one, what it has
\* read is current, and what it has yet to do leads to the records that are
\* wanted, unless somebody who may have changed them will reconcile later.
ConvergesInv ==
  /\ \A v \in Replica : pc[v] = "create" => todo[v].del = {}
  /\ ~disturbed =>
       /\ \A v, w \in Replica : pc[v] \in Reconciling /\ pc[w] \in Reconciling => v = w
       /\ \A v \in Replica : pc[v] = "vms" => seen[v] = records
       /\ \A v \in Replica : pc[v] \in {"delete", "create"} =>
            Pending \/ (records \ todo[v].del) \cup todo[v].add = Want
       /\ AllEnded => records = Want

\* A job that goes where it has yet to reconcile disturbs nothing.
LEMMA PendingStep ==
  ASSUME TypeOK, ConvergesInv, NEW v \in Replica, NEW p \in Point \ (Reconciling \cup {"done"}),
         Goto(v, p), UNCHANGED <<records, seen, todo, disturbed>>
  PROVE  ConvergesInv'
<1>1. Pending' /\ ~AllEnded'
  BY DEF Pending, AllEnded, Goto, At, TypeOK
<1>2. \A w \in Replica : pc'[w] \in Reconciling => pc'[w] = pc[w]
  BY DEF Goto, TypeOK
<1>. QED
  BY <1>1, <1>2 DEF ConvergesInv, Reconciling

\* A reconciliation begins: it is undisturbed when there is no other.
LEMMA BeginStep ==
  ASSUME TypeOK, ConvergesInv, NEW v \in Replica, ReadRecords(v)
  PROVE  ConvergesInv'
<1>1. /\ pc' = [pc EXCEPT ![v] = "vms"] /\ seen' = [seen EXCEPT ![v] = records]
      /\ disturbed' = \E w \in Replica : pc[w] \in Reconciling
      /\ UNCHANGED <<records, todo>>
  BY DEF ReadRecords, Goto, world
<1>2. ~AllEnded'
  BY <1>1 DEF AllEnded, At, TypeOK
<1>3. ~disturbed' => \A w \in Replica : w # v => pc'[w] \notin Reconciling
  BY <1>1 DEF TypeOK
<1>. QED
  BY <1>1, <1>2, <1>3 DEF ConvergesInv, Reconciling, TypeOK

\* What it has to do follows from what is wanted when it reads the machines.
LEMMA PlanStep ==
  ASSUME TypeOK, ConvergesInv, NEW v \in Replica, ReadVms(v)
  PROVE  ConvergesInv'
<1>1. /\ At(v, "vms") /\ UNCHANGED <<vm, records, disturbed, seen>>
      /\ todo' = [todo EXCEPT ![v] = [del |-> seen[v] \ Want, add |-> Want \ seen[v]]]
  BY DEF ReadVms, Want, world
<1>2. \E p \in {"failed", "delete"} : pc' = [pc EXCEPT ![v] = p]
  BY DEF ReadVms, Goto
<1>3. ~AllEnded' /\ Want' = Want
  BY <1>1, <1>2 DEF AllEnded, At, TypeOK, Want, Eligible
<1>4. todo'[v].del = seen[v] \ Want /\ todo'[v].add = Want \ seen[v]
  BY <1>1 DEF TypeOK
<1>5. \A w \in Replica : w # v => pc'[w] = pc[w] /\ todo'[w] = todo[w]
  BY <1>1, <1>2 DEF TypeOK
<1>6. \A w \in Replica : pc'[w] = "create" => todo'[w].del = {}
  BY <1>2, <1>5 DEF ConvergesInv, TypeOK
<1>7. ASSUME ~disturbed PROVE
        /\ \A u, w \in Replica : pc'[u] \in Reconciling /\ pc'[w] \in Reconciling => u = w
        /\ \A w \in Replica : pc'[w] = "vms" => seen[w] = records
        /\ \A w \in Replica : pc'[w] \in {"delete", "create"} =>
             (records \ todo'[w].del) \cup todo'[w].add = Want
  <2>1. \A w \in Replica : w # v => pc[w] \notin Reconciling
    BY <1>1, <1>7 DEF ConvergesInv, At, Reconciling
  <2>2. \A w \in Replica : pc'[w] \in Reconciling => w = v
    BY <2>1, <1>5
  <2>3. seen[v] = records
    BY <1>1, <1>7 DEF ConvergesInv, At
  <2>4. (records \ todo'[v].del) \cup todo'[v].add = Want
    BY <1>4, <2>3
  <2>. QED
    BY <1>2, <2>2, <2>3, <2>4 DEF Reconciling, TypeOK
<1>. QED
  BY <1>1, <1>3, <1>6, <1>7 DEF ConvergesInv

\* Deleting and creating lead to what is wanted, or the job fails.
LEMMA WriteStep ==
  ASSUME TypeOK, ConvergesInv, NEW v \in Replica, DeleteOne(v) \/ CreateOne(v)
  PROVE  ConvergesInv'
<1>1. /\ pc[v] \in {"delete", "create"} /\ UNCHANGED <<vm, disturbed, seen>>
      /\ UNCHANGED pc \/ pc' = [pc EXCEPT ![v] = "failed"]
  BY DEF DeleteOne, CreateOne, Goto, At
<1>2. ~AllEnded' /\ Want' = Want
  BY <1>1 DEF AllEnded, At, TypeOK, Want, Eligible
<1>3. Pending => Pending'
  BY <1>1 DEF Pending, Reconciling, TypeOK
<1>4. \A w \in Replica : w # v => pc'[w] = pc[w] /\ todo'[w] = todo[w]
  BY <1>1 DEF TypeOK, DeleteOne, CreateOne
<1>5. /\ pc[v] = "create" => todo'[v].del = {}
      /\ (records' \ todo'[v].del) \cup todo'[v].add = (records \ todo[v].del) \cup todo[v].add
  <2>1. CASE DeleteOne(v)
    <3>1. PICK a \in todo[v].del :
            records' = records \ {a} /\ todo' = [todo EXCEPT ![v].del = @ \ {a}]
      BY <2>1 DEF DeleteOne
    <3>2. todo'[v].del = todo[v].del \ {a} /\ todo'[v].add = todo[v].add
      BY <3>1 DEF TypeOK
    <3>. QED
      BY <2>1, <3>1, <3>2 DEF DeleteOne, At
  <2>2. CASE CreateOne(v)
    <3>1. PICK a \in todo[v].add :
            records' = records \cup {a} /\ todo' = [todo EXCEPT ![v].add = @ \ {a}]
      BY <2>2 DEF CreateOne
    <3>2. todo'[v].add = todo[v].add \ {a} /\ todo'[v].del = todo[v].del
      BY <3>1 DEF TypeOK
    <3>3. todo[v].del = {}
      BY <2>2 DEF CreateOne, At, ConvergesInv
    <3>. QED
      BY <3>1, <3>2, <3>3
  <2>. QED
    BY <2>1, <2>2
<1>6. \A w \in Replica : pc'[w] = "create" => todo'[w].del = {}
  BY <1>1, <1>4, <1>5 DEF ConvergesInv, TypeOK
<1>7. ASSUME ~disturbed PROVE
        /\ \A u, w \in Replica : pc'[u] \in Reconciling /\ pc'[w] \in Reconciling => u = w
        /\ \A w \in Replica : pc'[w] # "vms"
        /\ \A w \in Replica : pc'[w] \in {"delete", "create"} =>
             Pending' \/ (records' \ todo'[w].del) \cup todo'[w].add = Want
  <2>1. \A w \in Replica : w # v => pc[w] \notin Reconciling
    BY <1>1, <1>7 DEF ConvergesInv, Reconciling
  <2>2. \A w \in Replica : pc'[w] \in Reconciling => w = v
    BY <2>1, <1>4
  <2>3. Pending \/ (records \ todo[v].del) \cup todo[v].add = Want
    BY <1>1, <1>7 DEF ConvergesInv
  <2>4. pc'[v] # "vms"
    BY <1>1 DEF TypeOK
  <2>. QED
    BY <1>3, <1>5, <2>2, <2>3, <2>4 DEF Reconciling
<1>. QED
  BY <1>1, <1>2, <1>6, <1>7 DEF ConvergesInv

\* When everything is deleted the creations follow; when everything is created
\* and nobody is pending, the records are those that are wanted.
LEMMA EndStep ==
  ASSUME TypeOK, ConvergesInv, NEW v \in Replica, DeletedAll(v) \/ CreatedAll(v)
  PROVE  ConvergesInv'
<1>1. UNCHANGED <<vm, records, disturbed, seen, todo>>
  BY DEF DeletedAll, CreatedAll, world
<1>2. /\ pc[v] = "delete" => pc' = [pc EXCEPT ![v] = "create"] /\ todo[v].del = {}
      /\ pc[v] = "create" => pc' = [pc EXCEPT ![v] = "done"] /\ todo[v].add = {}
      /\ pc[v] \in {"delete", "create"}
  BY DEF DeletedAll, CreatedAll, Goto, At
<1>3. Want' = Want
  BY <1>1 DEF Want, Eligible
<1>4. \A w \in Replica : w # v => pc'[w] = pc[w]
  BY <1>2 DEF TypeOK
<1>5. pc'[v] \in {"create", "done"} /\ (pc'[v] = "create" => todo[v].del = {})
  BY <1>2 DEF TypeOK
<1>6. Pending => Pending'
  BY <1>2, <1>4 DEF Pending, Reconciling
<1>7. \A w \in Replica : pc'[w] = "create" => todo'[w].del = {}
  BY <1>1, <1>4, <1>5 DEF ConvergesInv
<1>8. ASSUME ~disturbed PROVE
        /\ \A u, w \in Replica : pc'[u] \in Reconciling /\ pc'[w] \in Reconciling => u = w
        /\ \A w \in Replica : pc'[w] # "vms"
        /\ \A w \in Replica : pc'[w] \in {"delete", "create"} =>
             Pending' \/ (records \ todo[w].del) \cup todo[w].add = Want
        /\ AllEnded' => records = Want
  <2>1. \A w \in Replica : w # v => pc[w] \notin Reconciling
    BY <1>2, <1>8 DEF ConvergesInv, Reconciling
  <2>2. \A w \in Replica : pc'[w] \in Reconciling => w = v
    BY <2>1, <1>4
  <2>3. Pending \/ (records \ todo[v].del) \cup todo[v].add = Want
    BY <1>2, <1>8 DEF ConvergesInv
  <2>4. ASSUME AllEnded' PROVE records = Want
    <3>1. \A w \in Replica : pc'[w] = "done"
      BY <2>4 DEF AllEnded, At
    <3>2. pc[v] = "create" /\ todo[v].add = {} /\ todo[v].del = {}
      BY <1>2, <3>1 DEF ConvergesInv, TypeOK
    <3>3. ~Pending
      BY <3>1, <3>2, <1>4 DEF Pending, Reconciling
    <3>. QED
      BY <2>3, <3>2, <3>3
  <2>. QED
    BY <1>5, <1>6, <2>2, <2>3, <2>4 DEF Reconciling
<1>. QED
  BY <1>1, <1>3, <1>7, <1>8 DEF ConvergesInv

\* Every step keeps the invariant.
LEMMA ConvergesStep == TypeOK /\ ConvergesInv /\ [Next]_vars => ConvergesInv'
<1> SUFFICES ASSUME TypeOK, ConvergesInv, [Next]_vars PROVE ConvergesInv'
  OBVIOUS
<1>1. ASSUME NEW v \in Replica,
             \/ Apply(v) \/ Configure(v) \/ EnsureVm(v) \/ ReadZone(v) \/ WriteZone(v)
             \/ WriteOwn(v) \/ SetPrimary(v) \/ PassChecks(v) \/ ReadTags(v)
             \/ MarkEligible(v) \/ Die(v)
      PROVE  ConvergesInv'
  <2>1. UNCHANGED <<records, seen, todo, disturbed>>
    BY <1>1 DEF Apply, Configure, EnsureVm, ReadZone, WriteZone, WriteOwn, SetPrimary,
                PassChecks, ReadTags, MarkEligible, Die, world
  <2>2. \E p \in Point \ (Reconciling \cup {"done"}) : Goto(v, p)
    BY <1>1 DEF Apply, Configure, EnsureVm, ReadZone, WriteZone, WriteOwn, SetPrimary,
                PassChecks, ReadTags, MarkEligible, Die, Point, Resting, Reconciling
  <2>. QED
    BY <2>1, <2>2, PendingStep
<1>2. CASE UNCHANGED vars
  <2>1. UNCHANGED <<vm, records, seen, todo, pc, disturbed>>
    BY <1>2 DEF vars, world, jobs
  <2>2. (Want' = Want) /\ (Pending' <=> Pending) /\ (AllEnded' <=> AllEnded)
    BY <2>1 DEF Want, Eligible, Pending, AllEnded, At
  <2>. QED
    BY <2>1, <2>2 DEF ConvergesInv
<1>. QED
  BY <1>1, <1>2, BeginStep, PlanStep, WriteStep, EndStep DEF Next, Step

\* When all rollouts have ended and the last reconciliation overlapped no other,
\* the name resolves to the eligible replicas and to nothing else.
THEOREM Convergence == Spec => []Converges
<1>1. Init => ConvergesInv
  BY DEF Init, ConvergesInv, Want, Eligible, AllEnded, At, Reconciling
<1>2. ConvergesInv => Converges
  BY DEF ConvergesInv, Converges, Published, Want
<1>. QED
  BY <1>1, <1>2, ConvergesStep, TypeCorrect, PTL DEF Spec
=============================================================================
