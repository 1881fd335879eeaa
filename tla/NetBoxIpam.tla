----------------------------- MODULE NetBoxIpam -----------------------------
(***************************************************************************)
(* netbox_vm_ipam.py: how a Terraform run obtains an address from NetBox,  *)
(* creates the machine with it and registers the machine afterwards.       *)
(*                                                                         *)
(* One run per network interface: "prepare" is an external data source     *)
(* evaluated in every plan, "finalize" a local-exec provisioner after the  *)
(* container exists.  Each HTTP request is one step, and runs of different *)
(* interfaces interleave (every root module has its own state, and the     *)
(* state lock serialises the runs of one state).  A run may die before any *)
(* request and may be repeated; a destroyed machine is never deregistered. *)
(***************************************************************************)
EXTENDS Naturals, FiniteSets

CONSTANTS
  Nic,         \* the interfaces that are rolled out, one (VM, NIC) pair each
  Addr,        \* the addresses they may have
  None,        \* no interface, no address
  Managed,     \* interfaces with mode = "netbox"
  Primary,     \* interfaces with ansible_primary = true
  Static,      \* address of every interface that is not managed
  Prefix,      \* the addresses NetBox hands out to managed interfaces
  Reserved,    \* addresses an operator may have reserved in NetBox
  MaxDeaths    \* runs that die half-way (bounds the behaviours)

ASSUME NoneAssumption    == None \notin Nic /\ None \notin Addr /\ "absent" \notin Nic \cup {None}
ASSUME ManagedAssumption == Managed \subseteq Nic /\ Primary \subseteq Nic
ASSUME StaticAssumption  == Static \in [Nic \ Managed -> Addr] /\ Prefix \subseteq Addr
ASSUME ReservedAssumption == Reserved \subseteq Addr /\ MaxDeaths \in Nat

VARIABLES
  ip,          \* NetBox: the IP address object of each address
  primary,     \* NetBox: primary_ip4 of the interface's VM, or None
  pc,          \* the request each run is about to make
  addr,        \* the run's nic["address"]
  seen,        \* what the run's last lookup returned
  host,        \* the address the machine was created with, or None
  deaths       \* runs that died so far

vars == <<ip, primary, pc, addr, seen, host, deaths>>

-----------------------------------------------------------------------------
(* NetBox. *)

\* An address object: its status, the VM/interface custom fields, and the
\* interface it is assigned to.  "free": there is no object.
IpObject == [status : {"free", "reserved", "active"},
             tag    : Nic \cup {None},
             owner  : Nic \cup {None}]

Free         == [status |-> "free",     tag |-> None, owner |-> None]
ByOperator   == [status |-> "reserved", tag |-> None, owner |-> None]
ReservedBy(n) == [status |-> "reserved", tag |-> n, owner |-> None]
AssignedTo(n) == [status |-> "active",   tag |-> n, owner |-> n]

Assigned(n) == {a \in Addr : ip[a].owner = n}

Reservations(n) ==
  {a \in Addr : ip[a].tag = n /\ ip[a].status = "reserved" /\ ip[a].owner = None}

Point == {"idle", "assigned", "reserved", "reserve", "create", "find", "assign",
          "primary", "done", "failed"}

TypeOK ==
  /\ ip \in [Addr -> IpObject]
  /\ primary \in [Nic -> Addr \cup {None}]
  /\ pc \in [Nic -> Point]
  /\ addr \in [Nic -> Addr \cup {None}]
  /\ seen \in [Nic -> Addr \cup Nic \cup {None, "absent"}]
  /\ host \in [Nic -> Addr \cup {None}]
  /\ deaths \in 0..MaxDeaths

Init ==
  /\ \E r \in SUBSET Reserved : ip = [a \in Addr |-> IF a \in r THEN ByOperator ELSE Free]
  /\ primary = [n \in Nic |-> None]
  /\ pc = [n \in Nic |-> "idle"]
  /\ addr = [n \in Nic |-> None]
  /\ seen = [n \in Nic |-> None]
  /\ host = [n \in Nic |-> None]
  /\ deaths = 0

Goto(n, point) == pc' = [pc EXCEPT ![n] = point]
At(n, point)   == pc[n] = point
Use(n, a)      == addr' = [addr EXCEPT ![n] = a]
See(n, x)      == seen' = [seen EXCEPT ![n] = x]

-----------------------------------------------------------------------------
(* prepare *)

Begin(n) ==
  /\ pc[n] \in {"idle", "done", "failed"}
  /\ See(n, None)
  /\ IF n \in Managed
       THEN Goto(n, "assigned") /\ Use(n, None)
       ELSE Goto(n, "create") /\ Use(n, Static[n])
  /\ UNCHANGED <<ip, primary, host, deaths>>

\* existing_assigned_ip: more than one match is fatal.
ReadAssigned(n) ==
  /\ At(n, "assigned")
  /\ IF Cardinality(Assigned(n)) > 1
       THEN Goto(n, "failed") /\ UNCHANGED seen
       ELSE /\ Goto(n, "reserved")
            /\ IF Assigned(n) = {} THEN See(n, None)
               ELSE \E a \in Assigned(n) : See(n, a)
  /\ UNCHANGED <<ip, primary, addr, host, deaths>>

\* Mutant: an earlier reservation is not looked up.
ReadReservedSkipped(n) ==
  /\ At(n, "reserved")
  /\ IF seen[n] # None THEN Goto(n, "create") /\ Use(n, seen[n])
     ELSE Goto(n, "reserve") /\ UNCHANGED addr
  /\ UNCHANGED <<ip, primary, seen, host, deaths>>

\* reserved_ip: more than one match is fatal, and so is a match next to an
\* assigned address.
ReadReserved(n) ==
  /\ At(n, "reserved")
  /\ LET found == Reservations(n)
         ambiguous == Cardinality(found) > 1 \/ (found # {} /\ seen[n] # None)
     IN  \/ ambiguous /\ Goto(n, "failed") /\ UNCHANGED addr
         \/ ~ambiguous /\ seen[n] # None /\ Goto(n, "create") /\ Use(n, seen[n])
         \/ /\ ~ambiguous /\ seen[n] = None /\ found # {}
            /\ Goto(n, "create")
            /\ \E a \in found : Use(n, a)
         \/ ~ambiguous /\ seen[n] = None /\ found = {} /\ Goto(n, "reserve") /\ UNCHANGED addr
  /\ UNCHANGED <<ip, primary, seen, host, deaths>>

\* Mutant: an address counts as available until it is assigned.
ReserveUnassigned(n) ==
  /\ At(n, "reserve")
  /\ \E a \in Prefix :
       /\ ip[a].owner = None
       /\ ip' = [ip EXCEPT ![a] = ReservedBy(n)]
       /\ Use(n, a)
  /\ Goto(n, "create")
  /\ UNCHANGED <<primary, seen, host, deaths>>

\* reserve_next_ip: NetBox picks an address of the prefix that has no object
\* and creates a reserved one, atomically; an exhausted prefix is an error.
Reserve(n) ==
  /\ At(n, "reserve")
  /\ \/ \E a \in Prefix :
          /\ ip[a] = Free
          /\ ip' = [ip EXCEPT ![a] = ReservedBy(n)]
          /\ Use(n, a)
          /\ Goto(n, "create")
     \/ /\ \A a \in Prefix : ip[a] # Free
        /\ Goto(n, "failed")
        /\ UNCHANGED <<ip, addr>>
  /\ UNCHANGED <<primary, seen, host, deaths>>

\* Terraform creates the machine, or changes it if its address moved.
Create(n) ==
  /\ At(n, "create")
  /\ host' = [host EXCEPT ![n] = addr[n]]
  /\ Goto(n, "find")
  /\ UNCHANGED <<ip, primary, addr, seen, deaths>>

-----------------------------------------------------------------------------
(* finalize *)

\* Mutant: the lookup returns the status instead of the assigned interface.
FindIpStatus(n) ==
  /\ At(n, "find")
  /\ See(n, ip[addr[n]].status)
  /\ Goto(n, "assign")
  /\ UNCHANGED <<ip, primary, addr, host, deaths>>

\* ensure_assigned_ip, first half: find_ip returns the object of the address.
FindIp(n) ==
  /\ At(n, "find")
  /\ See(n, IF ip[addr[n]] = Free THEN "absent" ELSE ip[addr[n]].owner)
  /\ Goto(n, "assign")
  /\ UNCHANGED <<ip, primary, addr, host, deaths>>

\* NetBox refuses to create a second object for an address and to reassign an
\* address that is the primary IP of the VM it belongs to.
Accepts(n) ==
  IF seen[n] = "absent"
    THEN ip[addr[n]] = Free
    ELSE \A m \in Nic \ {n} : ip[addr[n]].owner = m => primary[m] # addr[n]

\* Mutant: an unassigned object counts as drift.
AssignIpOnlyOwn(n) ==
  /\ At(n, "assign")
  /\ \/ /\ seen[n] \in {"absent", n} /\ Accepts(n)
        /\ ip' = [ip EXCEPT ![addr[n]] = AssignedTo(n)]
        /\ Goto(n, IF n \in Primary THEN "primary" ELSE "done")
     \/ /\ seen[n] \notin {"absent", n} \/ ~Accepts(n)
        /\ Goto(n, "failed") /\ UNCHANGED ip
  /\ UNCHANGED <<primary, addr, seen, host, deaths>>

\* Mutant: a registered address is never made the VM's primary IP.
AssignIpNoPrimary(n) ==
  /\ At(n, "assign")
  /\ \/ /\ seen[n] \in {"absent", None, n} /\ Accepts(n)
        /\ ip' = [ip EXCEPT ![addr[n]] = AssignedTo(n)]
        /\ Goto(n, "done")
     \/ /\ seen[n] \in Nic \ {n} \/ ~Accepts(n)
        /\ Goto(n, "failed") /\ UNCHANGED ip
  /\ UNCHANGED <<primary, addr, seen, host, deaths>>

\* ensure_assigned_ip, second half: the drift check looks at what find_ip
\* returned, the write applies to what NetBox holds by then.
AssignIp(n) ==
  /\ At(n, "assign")
  /\ \/ /\ seen[n] \in {"absent", None, n}
        /\ Accepts(n)
        /\ ip' = [ip EXCEPT ![addr[n]] = AssignedTo(n)]
        /\ Goto(n, IF n \in Primary THEN "primary" ELSE "done")
     \/ /\ seen[n] \in Nic \ {n} \/ ~Accepts(n)
        /\ Goto(n, "failed")
        /\ UNCHANGED ip
  /\ UNCHANGED <<primary, addr, seen, host, deaths>>

\* NetBox only takes an address that is assigned to the VM as its primary IP.
SetPrimary(n) ==
  /\ At(n, "primary")
  /\ IF ip[addr[n]].owner = n
       THEN primary' = [primary EXCEPT ![n] = addr[n]] /\ Goto(n, "done")
       ELSE Goto(n, "failed") /\ UNCHANGED primary
  /\ UNCHANGED <<ip, addr, seen, host, deaths>>

-----------------------------------------------------------------------------
(* Around the runs. *)

\* A run dies before its next request: CI job cancelled, API timeout, crash.
Die(n) ==
  /\ pc[n] \notin {"idle", "done", "failed"}
  /\ deaths < MaxDeaths
  /\ deaths' = deaths + 1
  /\ Goto(n, "idle")
  /\ UNCHANGED <<ip, primary, addr, seen, host>>

\* Destroying the machine leaves its NetBox objects behind.
Destroy(n) ==
  /\ pc[n] \in {"idle", "done", "failed"}
  /\ host[n] # None
  /\ host' = [host EXCEPT ![n] = None]
  /\ Goto(n, "idle")
  /\ UNCHANGED <<ip, primary, addr, seen, deaths>>

Step(n) ==
  \/ ReadAssigned(n) \/ ReadReserved(n) \/ Reserve(n) \/ Create(n)
  \/ FindIp(n) \/ AssignIp(n) \/ SetPrimary(n)

Next == \E n \in Nic : Begin(n) \/ Step(n) \/ Die(n) \/ Destroy(n)

Spec == Init /\ [][Next]_vars

-----------------------------------------------------------------------------
(* Properties. *)

\* No machine runs with the address of another, except one that was given the
\* same address by hand.
HostsDistinct ==
  \A n \in Managed, m \in Nic : host[m] = host[n] /\ m # n => host[m] = None

\* Repeating a rollout never moves a machine that exists to another address:
\* a run that died after the reservation finds it again, and a registered
\* address is found through the interface.
AddressStable ==
  [][\A n \in Nic : host[n] # None /\ host'[n] # None => host'[n] = host[n]]_vars

\* However often runs die and are repeated, a managed interface never collects
\* a second address: both lookups would refuse it in every later run.
OneAddressEach ==
  \A n \in Managed : Cardinality(Assigned(n) \cup Reservations(n)) <= 1

\* Whoever else is registered, two rollouts never both succeed with the same
\* address: drift and conflicts are detected.
ConflictDetected ==
  \A m, n \in Nic :
    At(m, "done") /\ At(n, "done") /\ m # n => addr[m] # addr[n]

\* A managed rollout that got its address is never refused afterwards: nothing
\* that earlier, dead runs left in NetBox stands in finalize's way.
RolloutSucceeds ==
  [][\A n \in Managed : pc[n] \in {"create", "find", "assign", "primary"}
                          => pc'[n] # "failed"]_vars
=============================================================================
