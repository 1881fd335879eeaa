------------------------------ MODULE ServiceDns ------------------------------
(***************************************************************************)
(* The canonical name of a service with direct DNS routing.                *)
(*                                                                         *)
(* A rollout of a replica registers its machine in NetBox (finalize in     *)
(* netbox_vm_ipam.py; NetBoxIpam models the addresses), configures it and  *)
(* marks it eligible when its health checks pass (mark_eligible in         *)
(* reconcile_service_dns.py), then rewrites the records of the service     *)
(* (reconcile).  Replicas are rolled out concurrently, each HTTP request   *)
(* is one step, and a job may die before any of them.  The rollouts of one *)
(* replica follow each other, as Woodpecker's concurrency groups see to.   *)
(***************************************************************************)
EXTENDS Naturals, FiniteSets

CONSTANTS
  Replica,     \* the service's machines
  Addr,        \* the addresses they may be given
  None,
  MaxDeaths    \* jobs that die or fail their health checks (a bound)

ASSUME NoneAssumption  == None \notin Addr
ASSUME DeathAssumption == MaxDeaths \in Nat

VARIABLES
  host,        \* the address of every machine
  tainted,     \* Terraform: its registration is to be repeated
  vm,          \* NetBox: its primary address, whether it is tagged dns-eligible
  own,         \* NetBox DNS: the record of the machine's own name
  reverse,     \* NetBox DNS: whether the reverse zone exists
  records,     \* NetBox DNS: the records of the canonical name
  checked,     \* whether the machine passed its checks since its registration
  pc,          \* the request every rollout is about to make
  found,       \* what it found: the reverse zone, the tag
  seen,        \* the records it has read
  todo,        \* those it has yet to delete and to create
  disturbed,   \* whether the reconciliation begun last overlapped another
  deaths

world == <<host, tainted, vm, own, reverse, records, checked>>
jobs  == <<pc, found, seen, todo, disturbed, deaths>>
vars  == <<world, jobs>>

Resting     == {"idle", "done", "failed"}
Reconciling == {"vms", "delete", "create"}
Point == Resting \cup Reconciling \cup
  {"vm", "zone", "zone-write", "own", "primary", "playbook", "tags", "mark", "records"}

NoWork == [del |-> {}, add |-> {}]

TypeOK ==
  /\ host \in [Replica -> Addr \cup {None}] /\ tainted \in [Replica -> BOOLEAN]
  /\ vm \in [Replica -> [ip : Addr \cup {None}, eligible : BOOLEAN]]
  /\ own \in [Replica -> Addr \cup {None}]
  /\ reverse \in BOOLEAN /\ records \subseteq Addr
  /\ checked \in [Replica -> BOOLEAN]
  /\ pc \in [Replica -> Point] /\ found \in [Replica -> BOOLEAN]
  /\ seen \in [Replica -> SUBSET Addr]
  /\ todo \in [Replica -> [del : SUBSET Addr, add : SUBSET Addr]]
  /\ disturbed \in BOOLEAN /\ deaths \in 0..MaxDeaths

Init ==
  /\ host = [v \in Replica |-> None] /\ tainted = [v \in Replica |-> TRUE]
  /\ vm = [v \in Replica |-> [ip |-> None, eligible |-> FALSE]]
  /\ own = [v \in Replica |-> None] /\ reverse = FALSE /\ records = {}
  /\ checked = [v \in Replica |-> FALSE]
  /\ pc = [v \in Replica |-> "idle"] /\ found = [v \in Replica |-> FALSE]
  /\ seen = [v \in Replica |-> {}] /\ todo = [v \in Replica |-> NoWork]
  /\ disturbed = FALSE /\ deaths = 0

Goto(v, point) == pc' = [pc EXCEPT ![v] = point]
At(v, point)   == pc[v] = point

Eligible == {v \in Replica : vm[v].eligible /\ vm[v].ip # None}

-----------------------------------------------------------------------------
(* The registration of a machine: finalize. *)

\* Terraform creates the machine, anew or with what changed, or finds that its
\* registration has to be repeated
Apply(v) ==
  /\ pc[v] \in Resting
  /\ \E a \in Addr : /\ a = host[v] \/ \A w \in Replica : host[w] # a /\ vm[w].ip # a
                     /\ host' = [host EXCEPT ![v] = a]
  /\ tainted' = [tainted EXCEPT ![v] = TRUE]
  /\ Goto(v, "vm")
  /\ UNCHANGED <<vm, own, reverse, records, checked, found, seen, todo, disturbed, deaths>>

\* a change of the playbook alone, on a machine that has an address
Configure(v) ==
  /\ pc[v] \in Resting /\ host[v] # None
  /\ Goto(v, "playbook")
  /\ UNCHANGED <<world, found, seen, todo, disturbed, deaths>>

\* mutant: the registration adds its tags to those of the machine
EnsureVmMerges(v) ==
  /\ At(v, "vm")
  /\ checked' = [checked EXCEPT ![v] = FALSE]
  /\ Goto(v, "zone")
  /\ UNCHANGED <<host, tainted, vm, own, reverse, records, found, seen, todo, disturbed, deaths>>

\* ensure_vm: the tags are replaced by Terraform's, which dns-eligible is not of
EnsureVm(v) ==
  /\ At(v, "vm")
  /\ vm' = [vm EXCEPT ![v].eligible = FALSE]
  /\ checked' = [checked EXCEPT ![v] = FALSE]
  /\ Goto(v, "zone")
  /\ UNCHANGED <<host, tainted, own, reverse, records, found, seen, todo, disturbed, deaths>>

\* ensure_reverse_dns_zone: read, then create what was not there
ReadZone(v) ==
  /\ At(v, "zone")
  /\ found' = [found EXCEPT ![v] = reverse]
  /\ Goto(v, "zone-write")
  /\ UNCHANGED <<world, seen, todo, disturbed, deaths>>

WriteZone(v) ==
  /\ At(v, "zone-write")
  /\ reverse' = TRUE
  /\ Goto(v, IF ~found[v] /\ reverse THEN "failed" ELSE "own")
  /\ UNCHANGED <<host, tainted, vm, own, records, checked, found, seen, todo, disturbed, deaths>>

\* mutant: a record that exists is left alone
WriteOwnOnce(v) ==
  /\ At(v, "own")
  /\ own' = [own EXCEPT ![v] = IF own[v] = None THEN host[v] ELSE @]
  /\ Goto(v, "primary")
  /\ UNCHANGED <<host, tainted, vm, reverse, records, checked, found, seen, todo, disturbed, deaths>>

\* ensure_dns_record: the record is found by its marker
WriteOwn(v) ==
  /\ At(v, "own")
  /\ own' = [own EXCEPT ![v] = host[v]]
  /\ Goto(v, "primary")
  /\ UNCHANGED <<host, tainted, vm, reverse, records, checked, found, seen, todo, disturbed, deaths>>

SetPrimary(v) ==
  /\ At(v, "primary")
  /\ vm' = [vm EXCEPT ![v].ip = host[v]]
  /\ tainted' = [tainted EXCEPT ![v] = FALSE]
  /\ Goto(v, "playbook")
  /\ UNCHANGED <<host, own, reverse, records, checked, found, seen, todo, disturbed, deaths>>

-----------------------------------------------------------------------------
(* The playbook: mark_eligible at the end of the health checks. *)

PassChecks(v) ==
  /\ At(v, "playbook")
  /\ checked' = [checked EXCEPT ![v] = TRUE]
  /\ Goto(v, "tags")
  /\ UNCHANGED <<host, tainted, vm, own, reverse, records, found, seen, todo, disturbed, deaths>>

ReadTags(v) ==
  /\ At(v, "tags")
  /\ Goto(v, IF vm[v].eligible THEN "records" ELSE "mark")
  /\ UNCHANGED <<world, found, seen, todo, disturbed, deaths>>

MarkEligible(v) ==
  /\ At(v, "mark")
  /\ vm' = [vm EXCEPT ![v].eligible = TRUE]
  /\ Goto(v, "records")
  /\ UNCHANGED <<host, tainted, own, reverse, records, checked, found, seen, todo, disturbed, deaths>>

-----------------------------------------------------------------------------
(* reconcile *)

ReadRecords(v) ==
  /\ At(v, "records")
  /\ seen' = [seen EXCEPT ![v] = records]
  /\ disturbed' = \E w \in Replica : pc[w] \in Reconciling
  /\ Goto(v, "vms")
  /\ UNCHANGED <<world, found, todo, deaths>>

\* mutant: neither the tag nor the address of a machine is looked at
ReadVmsAll(v) ==
  /\ At(v, "vms")
  /\ LET desired == {vm[w].ip : w \in Replica}
     IN todo' = [todo EXCEPT ![v] = [del |-> seen[v] \ desired, add |-> desired \ seen[v]]]
  /\ Goto(v, "delete")
  /\ UNCHANGED <<world, found, seen, disturbed, deaths>>

\* mutant: what is no longer wanted is not deleted
ReadVmsKeeps(v) ==
  /\ At(v, "vms")
  /\ todo' = [todo EXCEPT ![v] = [del |-> {}, add |-> {vm[w].ip : w \in Eligible} \ seen[v]]]
  /\ Goto(v, IF Eligible = {} THEN "failed" ELSE "delete")
  /\ UNCHANGED <<world, found, seen, disturbed, deaths>>

ReadVms(v) ==
  /\ At(v, "vms")
  /\ LET desired == {vm[w].ip : w \in Eligible}
     IN todo' = [todo EXCEPT ![v] = [del |-> seen[v] \ desired, add |-> desired \ seen[v]]]
  /\ Goto(v, IF Eligible = {} THEN "failed" ELSE "delete")
  /\ UNCHANGED <<world, found, seen, disturbed, deaths>>

\* a record that somebody else has deleted ends the job
DeleteOne(v) ==
  /\ At(v, "delete")
  /\ \E a \in todo[v].del :
       /\ records' = records \ {a}
       /\ todo' = [todo EXCEPT ![v].del = @ \ {a}]
       /\ IF a \in records THEN UNCHANGED pc ELSE Goto(v, "failed")
  /\ UNCHANGED <<host, tainted, vm, own, reverse, checked, found, seen, disturbed, deaths>>

DeletedAll(v) ==
  /\ At(v, "delete") /\ todo[v].del = {}
  /\ Goto(v, "create")
  /\ UNCHANGED <<world, found, seen, todo, disturbed, deaths>>

\* so does one that somebody else has created: NetBox DNS has no record twice
CreateOne(v) ==
  /\ At(v, "create")
  /\ \E a \in todo[v].add :
       /\ records' = records \cup {a}
       /\ todo' = [todo EXCEPT ![v].add = @ \ {a}]
       /\ IF a \in records THEN Goto(v, "failed") ELSE UNCHANGED pc
  /\ UNCHANGED <<host, tainted, vm, own, reverse, checked, found, seen, disturbed, deaths>>

CreatedAll(v) ==
  /\ At(v, "create") /\ todo[v].add = {}
  /\ Goto(v, "done")
  /\ UNCHANGED <<world, found, seen, todo, disturbed, deaths>>

-----------------------------------------------------------------------------

\* the job is cancelled, its host dies, NetBox does not answer, a check fails
Die(v) ==
  /\ pc[v] \notin Resting /\ deaths < MaxDeaths
  /\ deaths' = deaths + 1
  /\ Goto(v, "failed")
  /\ UNCHANGED <<world, found, seen, todo, disturbed>>

\* the jobs of a rollout, but for its beginning
Step(v) ==
  \/ EnsureVm(v) \/ ReadZone(v) \/ WriteZone(v) \/ WriteOwn(v) \/ SetPrimary(v)
  \/ PassChecks(v) \/ ReadTags(v) \/ MarkEligible(v)
  \/ ReadRecords(v) \/ ReadVms(v)
  \/ DeleteOne(v) \/ DeletedAll(v) \/ CreateOne(v) \/ CreatedAll(v)

Next == \E v \in Replica : Apply(v) \/ Configure(v) \/ Step(v) \/ Die(v)

Spec == Init /\ [][Next]_vars

-----------------------------------------------------------------------------
(* Properties. *)

\* An eligible replica has passed its health checks since it was registered
\* last: a machine that is rebuilt loses the tag before anything else.
EligibleMeansChecked == \A v \in Replica : vm[v].eligible => checked[v]

\* What NetBox and the machine's own name say of an eligible replica is where it
\* is, unless its registration is still to be repeated: the address that is
\* published is never the one it had before.
EligibleIsCurrent ==
  \A v \in Replica :
    (vm[v].eligible /\ ~tainted[v]) => vm[v].ip = host[v] /\ own[v] = host[v]

AllEnded == \A v \in Replica : At(v, "done")

Published == records = {vm[v].ip : v \in Eligible}

\* When all rollouts have ended, the name resolves to the eligible replicas and
\* to nothing else, whatever records earlier rollouts and jobs that died left,
\* provided the last reconciliation did not overlap another.
Converges == (AllEnded /\ ~disturbed) => Published

\* "direct publishes one A/AAAA RRset from NetBox VMs tagged dns-eligible"
\* (service_config/README.md:44), without that proviso.  Two reconciliations that
\* overlap break it: the one finds the address it wants and leaves it, the
\* other, whose list of machines is older, then deletes it.
PublishesEligible == AllEnded => Published
=============================================================================
