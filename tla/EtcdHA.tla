------------------------------- MODULE EtcdHA -------------------------------
(***************************************************************************)
(* The etcd ownership controller that the etcd_ha role installs for        *)
(* Forgejo and for Woodpecker: one bash loop per candidate host, an etcd   *)
(* key per service put under a lease, a systemd unit that the loop starts  *)
(* and stops, and the containers (the payload) behind that unit.           *)
(*                                                                         *)
(* A command of the loop is one step.  Time is not counted: a lease that   *)
(* no running controller refreshes expires at some point.  The loop sends  *)
(* one keep-alive per iteration.  A readiness wait that fails has used up  *)
(* all its retries, with the default settings twice the TTL, so the lease  *)
(* may be gone by then, at no cost.  That any other command outlasts the   *)
(* TTL (a slow start, a wait that succeeds late, a slow stop) is possible  *)
(* too: that is a "stall", counted as a fault only so that liveness may    *)
(* assume that some day a start takes less than the TTL.                   *)
(*                                                                         *)
(* Everything that goes wrong is a fault of a named kind, taken from a     *)
(* budget, so that a run chooses what may happen and how often:            *)
(*   etcd      an etcdctl call fails or times out                          *)
(*   stall     a command between two keep-alives outlasts the lease        *)
(*   start     the unit's ExecStart fails                                  *)
(*   stop      ExecStop fails and leaves the payload running               *)
(*   health    a health probe fails although the payload runs              *)
(*   term      the controller receives SIGTERM                             *)
(*   crash     the controller is killed (OOM, SIGKILL after a stop)        *)
(*   reset     the host loses power and boots again                        *)
(*   playbook  the role stops the service unit under a running controller  *)
(***************************************************************************)
EXTENDS Naturals

CONSTANTS
  Node,        \* candidate hosts, named by their inventory_hostname
  Lease,       \* identifiers etcd hands out for leases
  NoNode,      \* the key does not exist
  NoLease,     \* the empty string in the controller's variable "lease"
  Faults,      \* the kinds of fault a behaviour may show
  MaxFaults    \* how many faults a behaviour may show

FaultKind == {"etcd", "stall", "start", "stop", "health",
              "term", "crash", "reset", "playbook"}

ASSUME NoNodeAssumption  == NoNode \notin Node
ASSUME NoLeaseAssumption == NoLease \notin Lease
ASSUME FaultsAssumption  == Faults \subseteq FaultKind /\ MaxFaults \in Nat

VARIABLES
  live,        \* leases etcd has granted and that neither expired nor were revoked
  keyOwner,    \* value of ETCD_HA_KEY, or NoNode when the key is absent
  keyLease,    \* lease the key is attached to, or NoLease
  pc,          \* the command each controller is about to run
  resume,      \* where the loop goes on after the trap handler
  lease,       \* shell variable "lease"
  leader,      \* shell variable "leader"
  ready,       \* shell variable "ready"
  unit,        \* systemd: the service unit is active
  app,         \* the payload's containers run on the host
  budget       \* faults that may still happen

etcdVars == <<live, keyOwner, keyLease>>
hostVars == <<unit, app>>
shell    == <<lease, leader, ready>>
vars     == <<live, keyOwner, keyLease, pc, resume, lease, leader, ready,
              unit, app, budget>>

-----------------------------------------------------------------------------
(* Types. *)

\* Commands of the while loop; "stop" is stop_service before the sleep of the
\* iteration, "giveup" is stop_service before the lease is revoked; "retry" is
\* the rest of wait_health after a probe that no later probe makes good.
LoopPoint == {"grant", "keepalive", "txn", "owner", "start", "wait", "retry",
              "check", "stop", "giveup", "revoke"}

\* "trapstop" and "traprevoke" are the two halves of the trap handler release;
\* "down": no controller process.
Point == LoopPoint \cup {"sleep", "trapstop", "traprevoke", "down"}

TypeOK ==
  /\ live \subseteq Lease
  /\ keyOwner \in Node \cup {NoNode}
  /\ keyLease \in Lease \cup {NoLease}
  /\ pc \in [Node -> Point]
  /\ resume \in [Node -> LoopPoint \cup {"exit", "down"}]
  /\ lease \in [Node -> Lease \cup {NoLease}]
  /\ leader \in [Node -> BOOLEAN]
  /\ ready \in [Node -> BOOLEAN]
  /\ unit \in [Node -> BOOLEAN]
  /\ app \in [Node -> BOOLEAN]
  /\ budget \in Nat

Init ==
  /\ live = {}
  /\ keyOwner = NoNode
  /\ keyLease = NoLease
  /\ pc = [n \in Node |-> "down"]
  /\ resume = [n \in Node |-> "down"]
  /\ lease = [n \in Node |-> NoLease]
  /\ leader = [n \in Node |-> FALSE]
  /\ ready = [n \in Node |-> FALSE]
  /\ unit = [n \in Node |-> FALSE]
  /\ app = [n \in Node |-> FALSE]
  /\ budget = MaxFaults

-----------------------------------------------------------------------------
(* Helpers. *)

Fault(kind) == kind \in Faults /\ budget > 0 /\ budget' = budget - 1
NoFault     == UNCHANGED budget

At(n, point)   == pc[n] = point
Goto(n, point) == pc' = [pc EXCEPT ![n] = point]

\* The process is gone or about to start: every shell variable has its
\* initial value.
FreshShell(n) ==
  /\ lease'  = [lease  EXCEPT ![n] = NoLease]
  /\ leader' = [leader EXCEPT ![n] = FALSE]
  /\ ready'  = [ready  EXCEPT ![n] = FALSE]

\* etcd forgets a lease and deletes the key attached to it.
DropLease(l) ==
  /\ live' = live \ {l}
  /\ keyOwner' = IF keyLease = l THEN NoNode ELSE keyOwner
  /\ keyLease' = IF keyLease = l THEN NoLease ELSE keyLease

\* "etcd lease revoke ${lease} || true": nothing happens when the call fails.
\* Revoking a lease that has already expired fails without an effect.
RevokeLease(l) ==
  \/ NoFault /\ DropLease(l)
  \/ Fault("etcd") /\ UNCHANGED etcdVars

\* etcd never hands out an identifier that is in use.
Unused(l) == l \notin live /\ \A n \in Node : lease[n] # l

\* Mutant: stopping the service leaves "ready" set.
StopServiceStaysReady(n) ==
  /\ unit' = [unit EXCEPT ![n] = FALSE]
  /\ app' = [app EXCEPT ![n] = FALSE]
  /\ UNCHANGED ready
  /\ NoFault

\* Mutant: only an active unit is stopped, whatever containers run.
StopServiceActiveOnly(n) ==
  /\ unit' = [unit EXCEPT ![n] = FALSE]
  /\ ready' = [ready EXCEPT ![n] = FALSE]
  /\ app' = [app EXCEPT ![n] = app[n] /\ ~unit[n]]
  /\ NoFault

\* stop_service: an active unit is stopped through systemd, otherwise the stop
\* command is run directly.  Either way the unit is not active afterwards and
\* the payload is gone unless ExecStop fails, which "|| true" hides.
StopService(n) ==
  /\ unit' = [unit EXCEPT ![n] = FALSE]
  /\ ready' = [ready EXCEPT ![n] = FALSE]
  /\ \/ NoFault /\ app' = [app EXCEPT ![n] = FALSE]
     \/ app[n] /\ Fault("stop") /\ UNCHANGED app

\* Outcome of the health probe: it can only succeed while the payload runs.
Healthy(n)   == app[n] /\ NoFault
Unhealthy(n) == IF app[n] THEN Fault("health") ELSE NoFault

-----------------------------------------------------------------------------
(* The loop, one action per command. *)

\* systemd starts the controller: at boot, after a failure (Restart=always) or
\* from the playbook's last task.
Boot(n) ==
  /\ At(n, "down")
  /\ Goto(n, "grant")
  /\ FreshShell(n)
  /\ NoFault
  /\ UNCHANGED <<etcdVars, hostVars, resume>>

Grant(n) ==
  /\ At(n, "grant")
  /\ \/ /\ lease[n] # NoLease
        /\ Goto(n, "keepalive")
        /\ NoFault
        /\ UNCHANGED <<live, lease>>
     \/ /\ lease[n] = NoLease
        /\ \E l \in Lease :
             /\ Unused(l)
             /\ live' = live \cup {l}
             /\ lease' = [lease EXCEPT ![n] = l]
        /\ Goto(n, "keepalive")
        /\ NoFault
     \/ /\ lease[n] = NoLease
        /\ Fault("etcd")
        /\ Goto(n, "stop")
        /\ UNCHANGED <<live, lease>>
  /\ UNCHANGED <<keyOwner, keyLease, leader, ready, hostVars, resume>>

\* Mutant: a failed keep-alive leaves "leader" set.
KeepAliveStaysLeader(n) ==
  /\ At(n, "keepalive")
  /\ \/ lease[n] \in live /\ NoFault /\ Goto(n, "txn") /\ UNCHANGED lease
     \/ /\ IF lease[n] \in live THEN Fault("etcd") ELSE NoFault
        /\ lease' = [lease EXCEPT ![n] = NoLease]
        /\ Goto(n, "stop")
  /\ UNCHANGED <<etcdVars, leader, ready, hostVars, resume>>

\* Mutant: the loop does not stop the service when its lease is lost.
KeepAliveGoesOn(n) ==
  /\ At(n, "keepalive")
  /\ \/ lease[n] \in live /\ NoFault /\ Goto(n, "txn") /\ UNCHANGED <<lease, leader>>
     \/ /\ IF lease[n] \in live THEN Fault("etcd") ELSE NoFault
        /\ lease' = [lease EXCEPT ![n] = NoLease]
        /\ leader' = [leader EXCEPT ![n] = FALSE]
        /\ Goto(n, "sleep")
  /\ UNCHANGED <<etcdVars, ready, hostVars, resume>>

\* A keep-alive that fails makes the controller forget the lease; it does not
\* revoke it, so the lease and the key under it live on until the TTL runs out.
KeepAlive(n) ==
  /\ At(n, "keepalive")
  /\ \/ /\ lease[n] \in live
        /\ NoFault
        /\ Goto(n, "txn")
        /\ UNCHANGED <<lease, leader>>
     \/ /\ IF lease[n] \in live THEN Fault("etcd") ELSE NoFault
        /\ lease' = [lease EXCEPT ![n] = NoLease]
        /\ leader' = [leader EXCEPT ![n] = FALSE]
        /\ Goto(n, "stop")
  /\ UNCHANGED <<etcdVars, ready, hostVars, resume>>

CanPut(n) == keyOwner = NoNode /\ lease[n] \in live

PutKey(n) ==
  /\ CanPut(n)
  /\ keyOwner' = n
  /\ keyLease' = lease[n]

\* Mutant: the transaction puts the key whoever holds it.
TxnUnconditional(n) ==
  /\ At(n, "txn")
  /\ Goto(n, "owner")
  /\ \/ leader[n] /\ UNCHANGED <<keyOwner, keyLease, leader>>
     \/ /\ ~leader[n] /\ lease[n] \in live
        /\ keyOwner' = n /\ keyLease' = lease[n]
        /\ leader' = [leader EXCEPT ![n] = TRUE]
  /\ NoFault
  /\ UNCHANGED <<live, lease, ready, hostVars, resume>>

\* The transaction puts the key when its version is 0.  A transaction that
\* reports an error may still have been applied.
Txn(n) ==
  /\ At(n, "txn")
  /\ Goto(n, "owner")
  /\ \/ /\ leader[n] \/ ~CanPut(n)
        /\ NoFault
        /\ UNCHANGED <<keyOwner, keyLease, leader>>
     \/ /\ ~leader[n]
        /\ PutKey(n)
        /\ leader' = [leader EXCEPT ![n] = TRUE]
        /\ NoFault
     \/ /\ ~leader[n]
        /\ Fault("etcd")
        /\ PutKey(n) \/ UNCHANGED <<keyOwner, keyLease>>
        /\ UNCHANGED leader
  /\ UNCHANGED <<live, lease, ready, hostVars, resume>>

\* Mutant: a controller that is not the owner does not stop its service.
OwnerKeepsService(n) ==
  /\ At(n, "owner")
  /\ \/ /\ keyOwner = n
        /\ Goto(n, IF ready[n] THEN "check" ELSE "start")
        /\ UNCHANGED leader
     \/ /\ keyOwner # n
        /\ leader' = [leader EXCEPT ![n] = FALSE]
        /\ Goto(n, "sleep")
  /\ NoFault
  /\ UNCHANGED <<etcdVars, lease, ready, hostVars, resume>>

\* The owner read back is what decides: the identity alone is compared, not
\* the lease the key is attached to.
Owner(n) ==
  /\ At(n, "owner")
  /\ \/ /\ keyOwner = n
        /\ NoFault
        /\ Goto(n, IF ready[n] THEN "check" ELSE "start")
        /\ UNCHANGED leader
     \/ /\ IF keyOwner = n THEN Fault("etcd") ELSE NoFault
        /\ leader' = [leader EXCEPT ![n] = FALSE]
        /\ Goto(n, "stop")
  /\ UNCHANGED <<etcdVars, lease, ready, hostVars, resume>>

\* systemctl start is a no-op on an active unit.  An ExecStart that fails may
\* have started the payload before it failed.
Start(n) ==
  /\ At(n, "start")
  /\ \/ /\ NoFault
        /\ unit' = [unit EXCEPT ![n] = TRUE]
        /\ app' = [app EXCEPT ![n] = unit[n] => app[n]]
        /\ Goto(n, "wait")
     \/ /\ ~unit[n]
        /\ Fault("start")
        /\ \E up \in BOOLEAN : app' = [app EXCEPT ![n] = app[n] \/ up]
        /\ Goto(n, "giveup")
        /\ UNCHANGED unit
  /\ UNCHANGED <<etcdVars, shell, resume>>

\* wait_health: a probe succeeds, or all of them are going to fail.
WaitHealth(n) ==
  /\ At(n, "wait")
  /\ \/ /\ Healthy(n)
        /\ ready' = [ready EXCEPT ![n] = TRUE]
        /\ Goto(n, "sleep")
     \/ /\ Unhealthy(n)
        /\ Goto(n, "retry")
        /\ UNCHANGED ready
  /\ UNCHANGED <<etcdVars, lease, leader, hostVars, resume>>

\* The probes that fail have used up retries times interval (60 s by default,
\* the TTL is 30 s), the payload running all the while and no keep-alive sent.
RetriesEnd(n) ==
  /\ At(n, "retry")
  /\ Goto(n, "giveup")
  /\ NoFault
  /\ UNCHANGED <<etcdVars, shell, hostVars, resume>>

Check(n) ==
  /\ At(n, "check")
  /\ \/ Healthy(n) /\ Goto(n, "sleep")
     \/ Unhealthy(n) /\ Goto(n, "stop")
  /\ UNCHANGED <<etcdVars, shell, hostVars, resume>>

Stop(n) ==
  /\ At(n, "stop")
  /\ StopService(n)
  /\ Goto(n, "sleep")
  /\ UNCHANGED <<etcdVars, lease, leader, resume>>

\* Mutant: the lease is given up while the payload may still run.
GiveUpRunning(n) ==
  /\ At(n, "giveup")
  /\ NoFault
  /\ Goto(n, "revoke")
  /\ UNCHANGED <<etcdVars, shell, hostVars, resume>>

GiveUp(n) ==
  /\ At(n, "giveup")
  /\ StopService(n)
  /\ Goto(n, "revoke")
  /\ UNCHANGED <<etcdVars, lease, leader, resume>>

Revoke(n) ==
  /\ At(n, "revoke")
  /\ RevokeLease(lease[n])
  /\ lease' = [lease EXCEPT ![n] = NoLease]
  /\ leader' = [leader EXCEPT ![n] = FALSE]
  /\ Goto(n, "sleep")
  /\ UNCHANGED <<ready, hostVars, resume>>

Sleep(n) ==
  /\ At(n, "sleep")
  /\ Goto(n, "grant")
  /\ NoFault
  /\ UNCHANGED <<etcdVars, shell, hostVars, resume>>

-----------------------------------------------------------------------------
(* Signals, crashes and the playbook. *)

\* Mutant: the loop goes on even after a killed sleep.
TermResumes(n) ==
  /\ pc[n] \in LoopPoint \cup {"sleep"}
  /\ Fault("term")
  /\ resume' = [resume EXCEPT ![n] = pc[n]]
  /\ Goto(n, "trapstop")
  /\ UNCHANGED <<etcdVars, shell, hostVars>>

\* SIGTERM runs the trap handler before the next command.  Only a killed sleep
\* ends the script (errexit); anywhere else the loop goes on.
Term(n) ==
  /\ pc[n] \in LoopPoint \cup {"sleep"}
  /\ Fault("term")
  /\ resume' = [resume EXCEPT ![n] = IF At(n, "sleep") THEN "exit" ELSE pc[n]]
  /\ Goto(n, "trapstop")
  /\ UNCHANGED <<etcdVars, shell, hostVars>>

TrapStop(n) ==
  /\ At(n, "trapstop")
  /\ StopService(n)
  /\ Goto(n, "traprevoke")
  /\ UNCHANGED <<etcdVars, lease, leader, resume>>

\* release leaves the shell variables alone; on the way out the EXIT trap runs
\* it a second time.
TrapRevoke(n) ==
  /\ At(n, "traprevoke")
  /\ \/ lease[n] # NoLease /\ RevokeLease(lease[n])
     \/ lease[n] = NoLease /\ NoFault /\ UNCHANGED etcdVars
  /\ \/ /\ resume[n] = "exit"
        /\ Goto(n, "trapstop")
        /\ resume' = [resume EXCEPT ![n] = "down"]
        /\ UNCHANGED shell
     \/ /\ resume[n] = "down"
        /\ Goto(n, "down")
        /\ FreshShell(n)
        /\ UNCHANGED resume
     \/ /\ resume[n] \in LoopPoint
        /\ Goto(n, resume[n])
        /\ UNCHANGED <<shell, resume>>
  /\ UNCHANGED hostVars

\* The controller disappears without running its trap; the service unit is a
\* unit of its own and keeps running.
Crash(n) ==
  /\ ~At(n, "down")
  /\ Fault("crash")
  /\ Goto(n, "down")
  /\ FreshShell(n)
  /\ UNCHANGED <<etcdVars, hostVars, resume>>

\* After a power cycle the unit is inactive, but Docker brings back a container
\* whose restart policy is unless-stopped.
Reset(n) ==
  /\ Fault("reset")
  /\ Goto(n, "down")
  /\ FreshShell(n)
  /\ unit' = [unit EXCEPT ![n] = FALSE]
  /\ UNCHANGED <<etcdVars, app, resume>>

\* "Disable direct application startup" stops the unit whoever started it.
PlaybookStop(n) ==
  /\ unit[n]
  /\ Fault("playbook")
  /\ unit' = [unit EXCEPT ![n] = FALSE]
  /\ app' = [app EXCEPT ![n] = FALSE]
  /\ UNCHANGED <<etcdVars, shell, pc, resume>>

\* The loop has been without a keep-alive for a whole readiness wait, or is
\* stopping a service that did not come up.
Overdue(n) == pc[n] \in {"retry", "giveup"}

\* etcd expires a lease nobody refreshed in time.  A controller that is up and
\* not overdue is back at its keep-alive in time, and the owner that just forgot
\* its lease is done with its stop in time, unless a command stalls.
Refreshed(l) ==
  \E n \in Node :
    \/ lease[n] = l /\ ~At(n, "down") /\ ~Overdue(n)
    \/ keyLease = l /\ keyOwner = n /\ At(n, "stop")

Expire(l) ==
  /\ l \in live
  /\ IF Refreshed(l) THEN Fault("stall") ELSE NoFault
  /\ DropLease(l)
  /\ UNCHANGED <<shell, hostVars, pc, resume>>

-----------------------------------------------------------------------------
(* The specification. *)

\* What a controller does by itself, as opposed to what is done to it.
Step(n) ==
  \/ Grant(n) \/ KeepAlive(n)  \/ Txn(n)   \/ Owner(n) \/ Start(n)
  \/ Stop(n)  \/ WaitHealth(n) \/ RetriesEnd(n) \/ Check(n) \/ GiveUp(n)
  \/ Revoke(n) \/ Sleep(n)     \/ TrapStop(n)   \/ TrapRevoke(n)

Disturb(n) == Term(n) \/ Crash(n) \/ Reset(n) \/ PlaybookStop(n)

Next ==
  \/ \E n \in Node : Boot(n) \/ Step(n) \/ Disturb(n)
  \/ \E l \in Lease : Expire(l)

Spec == Init /\ [][Next]_vars

\* The loop runs as long as its process does, and etcd expires a lease nobody
\* refreshes.  Nothing promises that a controller that went down comes back.
Fairness ==
  /\ \A n \in Node : WF_vars(Step(n))
  /\ \A l \in Lease : WF_vars(Expire(l) /\ ~Refreshed(l))

FairSpec == Spec /\ Fairness

-----------------------------------------------------------------------------
(* Properties. *)

\* A controller that believes it is the leader and whose lease is alive really
\* owns the key, under that very lease: the shell variables "leader" and
\* "lease" never drift apart from etcd in a way a keep-alive would not reveal.
LeaderHoldsKey ==
  \A n \in Node :
    leader[n] /\ lease[n] \in live => keyOwner = n /\ keyLease = lease[n]

\* A controller that gives the key up by revoking its lease has stopped its
\* payload before: the service is never handed over while it still runs here.
\* (A stop command that fails breaks this, see the README.)
HandsOverStopped ==
  [][\A n \in Node :
       keyOwner = n /\ (Revoke(n) \/ TrapRevoke(n)) /\ keyOwner' # n => ~app[n]]_vars

\* The service runs on at most one candidate (active-passive).  The repository
\* says so; the code does not keep it, since the key can be lost while the
\* payload runs (see the README).
SingleActive ==
  \A m, n \in Node : app[m] /\ app[n] => m = n

\* Only the holder of the key runs the service under a live lease.  A payload
\* that outlived its controller's lease (in a slow start, a readiness wait that
\* fails or a slow stop) is stopped before the controller has another lease.
OnlyHolderRuns ==
  \A n \in Node :
    app[n] /\ lease[n] \in live => keyOwner = n /\ keyLease = lease[n]

\* Controllers whose lease ran out and that have not got over it: they did not
\* notice yet, or their payload still runs.
LateNodes ==
  {n \in Node : lease[n] \notin live /\ (lease[n] # NoLease \/ app[n])}

\* The controllers hand the service over as ActiveService says: acquire, start,
\* stop, release; whatever runs beside the owner is late and only stops.
Active == INSTANCE ActiveService WITH
            Host <- Node, Nobody <- NoNode, owner <- keyOwner,
            running <- {n \in Node : app[n]}, late <- LateNodes

HandsOver == Active!Spec

-----------------------------------------------------------------------------
(* The inductive invariants behind the proofs in EtcdHA_proofs. *)

\* etcd's side is consistent, controllers do not share leases, and a leader
\* knows its lease: what LeaderHoldsKey needs to be inductive.
HolderInv ==
  /\ keyOwner = NoNode <=> keyLease = NoLease
  /\ keyLease # NoLease => keyLease \in live
  /\ \A m, n \in Node : m # n /\ lease[m] = lease[n] => lease[m] = NoLease
  /\ \A n \in Node : leader[n] => lease[n] # NoLease
  /\ LeaderHoldsKey

\* While etcd answers, hosts and controllers stay up and stops work, the key
\* is attached to its owner's current lease, and a payload belongs to the owner
\* unless its controller's lease is gone.
QuietInv ==
  /\ keyOwner = NoNode <=> keyLease = NoLease
  /\ keyLease # NoLease => keyLease \in live
  /\ keyOwner # NoNode => lease[keyOwner] = keyLease
  /\ \A m, n \in Node : m # n /\ lease[m] = lease[n] => lease[m] = NoLease
  /\ \A n \in Node :
       /\ pc[n] \notin {"trapstop", "traprevoke"}
       /\ pc[n] = "down" => lease[n] = NoLease /\ ~app[n]
       /\ pc[n] = "revoke" => ~app[n]
       /\ pc[n] = "start" => lease[n] # NoLease
       /\ app[n] /\ lease[n] = NoLease => pc[n] = "stop"
       /\ (app[n] \/ pc[n] = "start") /\ lease[n] \in live => keyOwner = n

-----------------------------------------------------------------------------
(* Liveness. *)

\* A payload that runs on a host that does not own the key does not run there
\* for ever: the host wins the key, or its controller stops the payload, or
\* the controller is down and nobody watches the host.
StaleServiceStops ==
  \A n \in Node :
    app[n] /\ keyOwner # n ~> ~app[n] \/ keyOwner = n \/ At(n, "down")

\* Failover: when at least one controller is up for good, some candidate ends up
\* owning the key and running the service for good, whatever the faults left
\* behind: keys of dead owners, forgotten leases, half-stopped services.
Failover ==
  <>[](\E n \in Node : ~At(n, "down"))
    => <>[](\E n \in Node : keyOwner = n /\ app[n] /\ ~At(n, "down"))

\* When every controller is up for good, the cluster also settles on a single
\* active candidate: the owner runs the service and nobody else does.
SettlesOnOne ==
  (\A n \in Node : <>[]~At(n, "down"))
    => <>[](\E n \in Node : keyOwner = n /\ \A m \in Node : app[m] <=> m = n)
=============================================================================
