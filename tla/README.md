# Formal models of drg

TLA+ models of the parts of this repository whose behaviour depends on the order
of concurrent steps, on failures between steps, or on both. The code is the
reference: every definition that models code is listed with its lines under
`map` in `PROJECT.json`. Bounded instances are checked with TLC; every invariant
and action property of these runs is also proved with TLAPS, for all values of the
constants.

    tlc -config EtcdHAHandover.cfg MCEtcdHA         # one run
    tlapm EtcdHA_proofs.tla                         # one proof module

## 1. Inventory

| Component | Source | State | Operations | What is hard | What makes it correct |
|---|---|---|---|---|---|
| **etcd HA controller** | `shared/ansible/roles/etcd_ha` | shell variables `lease`, `leader`, `ready` per host; etcd key and leases; systemd unit and containers per host | the loop: grant, keep-alive, transaction, owner check, start, health check, stop, revoke; trap | several hosts interleave; lease expiry, also while the service starts; failing etcd calls; crashes, reboots, signals; the role runs under it | only the lease holder runs the service; hand-over only of a stopped service, but for late hosts; somebody takes over; stale services stop |
| **NetBox address management** | `shared/terraform/proxmox_lxc_container` | NetBox address objects, primary IPs; Terraform's machines | prepare (find, reserve), create, finalize (find, assign, primary, DNS) | runs of different services interleave per request; a run dies anywhere and is repeated | distinct and stable addresses; no second address; conflicts detected; rollouts not blocked |
| **Service DNS** | `shared/scripts/reconcile_service_dns.py` | records and tags in NetBox | mark eligible, reconcile | read, compare, delete, create as separate requests of concurrent jobs; machines are rebuilt and move | only checked replicas, only at current addresses; convergence |
| **Terraform state migration** | `shared/scripts/migrate_terraform_state.py` | GitLab states, PostgreSQL schemas, report | select, preflight, push, verify | fails half-way; is repeated; Terraform jobs write concurrently; two names in one schema | nothing overwritten; all-or-nothing preflight; success means equal content; truthful report |
| **GitLab pipeline** | `shared/scripts/generate_pipeline.py`, `shared/templates/pipeline` | the jobs and their statuses | compare commits, select and connect jobs; run, play, fail, retry | GitLab's variables differ by version; a `needs` key switches the stage order off; services, contours, platform, zones and routes run concurrently | deploys its own change; contours in order; platform and validation first; HA sync and routes last; not stuck |
| **Woodpecker workflows** | `shared/scripts/generate_woodpecker.py`, `woodpecker_target.py` | workflow files and `depends_on` | select, plan and deployment events, post-rollout | events, skipped workflows, one target of a service | only the affected targets, in order |
| **Configuration extension** | `services/woodpecker/config_extension/main.go` | cached OpenBao token, mutex | configuration, secret requests | concurrent requests, expiring token, incomplete webhooks | no dead token; fails closed; every request answered |
| **Executor and Dagger module** | `shared/scripts/run_pipeline.py`, `ci/dagger` | `tfplan` cache volumes | plan, apply, configure | a plan is applied later, elsewhere, or again | what is applied is what was planned |
| **Platform phases** | `shared/scripts/run_platform.py`, `platform/openstack/scripts` | plan files, OpenStack | eight phases | each a sequence that may stop half-way; the foundation is planned twice | order |
| **Dependency index** | `shared/scripts/ansible_dependency_index.py`, validators | none | roles of a playbook, services of a role | chains of roles | all and only the users of a role |
| Forgejo storage switch | `shared/ansible/roles/forgejo_ha` | DRBD role, mount, containers | start, stop | dead or stand-alone peer | one primary; mounted only where active |
| Pacemaker backend | `pacemaker_ha`, `woodpecker_ha` | Pacemaker's | resource definition | (legacy) | |
| SDN allocation | `services/network/terraform/scripts/netbox_sdn.py` | none | read and translate | ids at their limits | unique ids |
| FreeIPA scripts, OpenBao loader, Docker inventories, roles, Terraform roots | various | none of interest | command sequences, rendering, declarations | | |

How they interact. A change reaches GitLab or Woodpecker. GitLab renders its
pipeline with `generate_pipeline.py`; Woodpecker asks the configuration extension,
which runs `generate_woodpecker.py` on a fresh clone (it uses `build_jobs` of the
same generator) and supplies the OpenBao token. Plan and apply steps run the
Terraform roots through the executor; these call the address management once per
container and keep their state in the backends the migration moves. Configure
steps run the Ansible roles, which install the HA controller, stop its service unit
and, after their health checks, mark replicas eligible; DNS and routes follow. The
controllers then run on their own, coordinated by etcd only.

The hazards found on the way, with their lines and the properties that watch
them, are in `PROJECT.json`.

## 2. Modules

    ActiveService  <---refines---  EtcdHA         MCEtcdHA         EtcdHA_proofs
                                   NetBoxIpam     MCNetBoxIpam     NetBoxIpam_proofs
                                   ServiceDns     MCServiceDns     ServiceDns_proofs
                                   StateMigration MCStateMigration StateMigration_proofs
                                   TokenCache     MCTokenCache     TokenCache_proofs
    ChangeSelection <------------- ServicePipeline
         ^                                        MCServicePipeline
         |                                        ServicePipeline_proofs
         +--- PlatformPhases <--- WoodpeckerWorkflows <--- WoodpeckerRun
                                                  MCWoodpeckerRun
                                                  WoodpeckerRun_proofs

(`<---` is EXTENDS unless labelled.) An `MC` module only defines constants of the
model it extends, a `_proofs` module holds the theorems about it; `NaturalLemmas`
serves the last two of these. A definition
with a comment that begins with "mutant" is a wrong version of its neighbour; no
specification uses it, it shows that a property can fail.

### EtcdHA and ActiveService

One action per command of `etcd-ha-controller.sh.j2`; `pc` is the command a
controller is about to run, `lease`, `leader` and `ready` are the shell variables.
`live`, `keyOwner` and `keyLease` are etcd's leases and the key `ETCD_HA_KEY`;
revoking or expiring a lease deletes the key attached to it. `unit` is the state of
the systemd unit, `app` whether the containers run; they differ after a failed
stop or when Docker restarts the containers at boot (`restart: unless-stopped`).

The trap handler does not exit, so a signal runs `release` and then the loop goes on
at `resume`, with the values the variables had; `set -e` and the second half of a
systemd stop (SIGKILL, `Crash`) end it. `Reset` is a power loss, `PlaybookStop` the
role's task that stops the unit. All that goes wrong is a fault of a named kind
taken from `budget`.

The loop sends one keep-alive per iteration (line 61), and none during `systemctl
start`, `wait_health` and `stop_service`. Time is not counted, so the lease
expires by choice (`Expire`):

* of a controller that is down, or that forgot the lease, at any time;
* from the moment a readiness wait is going to fail (`retry`) until the lease is
  revoked: with the role's defaults such a wait takes 30 times 2 s, the lease 30 s;
* anywhere else, say in a slow start, at the cost of a fault named `stall`. The
  cost only serves liveness, which could not hold if every start took longer than
  the lease; the runs and the theorems about safety include `stall`.

`ActiveService` is the promise. A host becomes the owner before it starts the service
and stops it before it releases the ownership, but ownership is leased: `Lapse` takes
it away at any moment and makes the host `late`. A new owner may then come while the
late host still runs (`Acquire` wants `running \subseteq late`); the late host may
finish a start, and is in the race again only after it stopped or noticed
(`Passivate`, `Rejoin`). `EtcdHA!HandsOver` is this specification with `owner <-
keyOwner`, `running <-` the hosts whose containers run and `late <- LateNodes`, the
hosts whose lease is not alive and that still remember it or still run the payload.
Every other variable of the controllers is hidden; their steps are steps of
`ActiveService` or stutters.

### NetBoxIpam

One run per interface, one step per HTTP request. `ip` holds NetBox's address
objects (status, the VM/interface custom fields as `tag`, the assigned interface as
`owner`), `primary` the VM's primary address, `host` the address of the machine
Terraform created. `prepare` is `Begin`, `ReadAssigned`, `ReadReserved`, `Reserve`;
`finalize` is `FindIp`, `AssignIp`, `SetPrimary`. A run may die at any request and be
repeated; destroying a machine leaves NetBox as it is, since there is no destroy
provisioner. That NetBox hands out an available address atomically, keeps addresses
unique and refuses to reassign a primary address is its documented API, marked
external.

### ServiceDns

The life of a service's replicas from registration to publication. A rollout is
`Apply` (Terraform gives the machine an address, or repeats a registration it
marked as tainted), `EnsureVm` (which replaces the tags and so removes
`dns-eligible`), `ReadZone`/`WriteZone`, `WriteOwn`, `SetPrimary`, then the playbook:
`PassChecks`, `ReadTags`, `MarkEligible`, and `reconcile`: `ReadRecords`, `ReadVms`, one
`DeleteOne` or `CreateOne` per record. Each request is a step, and jobs die before any
of them. `checked` is a history variable, `disturbed` says whether the
reconciliation begun last overlapped another. The rollouts of one replica follow
each other: in Woodpecker its concurrency groups see to it (`WoodpeckerRun`).

### StateMigration

`source` and `dest` map GitLab states and PostgreSQL schemas to documents with
lineage, serial and a revision that stands for the content. `Pull` and `Check`
prepare the whole batch, `Push` and `Verify` write it. Every tofu call may fail, a
failed push may have been stored, the process may be killed. `Accepts` and `Pushed`
are OpenTofu's rules for `state push`, with and without `-force`. Terraform jobs
write to both backends between migrations; whether they also do during one is chosen
when it begins (`quiet`), as the repository's README forbids it and nothing enforces
it.

### ChangeSelection

The pure half of `generate_pipeline.py`: from the variables of the CI system to the
compared commits (`DiffBase`, `DiffHead`, `ChangedFiles`), from the changed paths to
the services whose Terraform root or playbook is affected (`TerraformNeeded`,
`ConfigureNeeded`), to the platform's phases (`PhasesOf`) and to the routes. A path is
the part of the repository it lies in and what it belongs to. `RolesUsed` is the
closure `ansible_dependency_index.py` computes.

### ServicePipeline

The initial state draws an edit, what the target branch changed meanwhile and a set
of GitLab's variables; `ChangeSelection` turns them into what the pipeline is built
for (`terraform`, `configure`, `phases`, `routes`). `concerned` is what the request
itself edits, defined independently (`Concerns`, chains of roles instead of the
closure). `Jobs`, `Needs` and the stage order are those of `build_jobs`,
`render_pipeline` and the templates. `Start`, `Play`, `Finish`, `Fail` and `Retry` are
GitLab's execution: `Unblocked` says when a job may run, with a `needs` key
(`NoNeedsKey` false) or by stages. A job that succeeded is not run again.

### PlatformPhases, WoodpeckerWorkflows, WoodpeckerRun

`PlatformPhases` gives the commands every phase of `run_platform.py` runs.
`WoodpeckerWorkflows` is `expected_workflows`: for an environment of the generator
(event, branch, task, target, changed files) what is refused, which flows (entries of
a workflow's matrix) there are, what each waits for, its steps and its concurrency
group (the committed workflow `validate` has none, and its step runs for requests,
manual runs and pushes to the protected branch only). `WoodpeckerRun` runs them: a webhook is submitted, `/ciconfig` is answered
(`Configure`, `Reject`, `CloneFails`), `/secrets` is answered (`Run`, `RefuseSecrets`,
`LoginFails`), and agents run the flows step by step. `volume` is Dagger's cache volume
of a target, shared by all pipelines of the commit; `effects` collects what the steps
changed, by whom, where and with whose plan. A step that fails may have done part of
its work.

### TokenCache

`openBaoClient.token` for concurrent requests: the cached token with the two ideas of
when it dies (OpenBao's `dies`, the client's `until`), the mutex and the clock. A
login is a request, OpenBao's answer and its arrival, with time in between, limited by
the HTTP client's timeout; it may fail at any point.

## 3. Runs

| Run | Instance | What it shows |
|---|---|---|
| `EtcdHAHandover` | 3 hosts, 4 leases, 3 faults among stalls, failing starts and probes and the role's stop | `OnlyHolderRuns`, `HandsOverStopped`, and the refinement `HandsOver` |
| `EtcdHALiveness` | 2 hosts, 3 leases, any 2 faults, fairness | types, `LeaderHoldsKey`; `StaleServiceStops`, `Failover`, `SettlesOnOne` |
| `EtcdHAAdoptedKey` | 2 hosts, one etcd fault | `SingleActive` violated |
| `NetBoxIpam` | 2 managed interfaces on 2 addresses, 2 static ones with the same third address, which an operator may hold; 2 deaths | addresses distinct, single, stable; conflicts detected; rollouts not refused |
| `StateMigration` | 3 names in 2 schemas, batches of 1 or 2, 3 writes, 1 fault, with and without jobs during a migration | `DestinationKept`, `WritesAfterPreflight`, `ReportIsPrefix`; `OkMeansInSync` when quiet |
| `ServicePipeline` | 2 services and one that is not managed, 2 contours, 2 clusters in the first; every subset of 5 edits and 4 with the platform, every variant of GitLab's variables, 1 failure, fairness | the pipeline deploys its own change, in order, and completes |
| `ServicePipelineOrder` | 2 contours, a playbook edit with a Kolla edit | `ContoursInOrder` violated |
| `Woodpecker` | 2 pipelines of a commit that edits a service and the platform; 8 webhooks, 3 of them refused; 1 fault, fairness | plans, targets and order; missing lists; every pipeline ends |
| `WoodpeckerPush` | the same | `PushesOnlyPlan` violated |
| `TokenCache` | 3 requests, leases of 3, 5 and none, timeout and margin 2, clock to 9, fairness | live tokens, all requests answered |
| `ServiceDns` | 2 replicas, 3 addresses, 1 death, rollouts without end | eligibility and addresses; convergence |
| `ServiceDnsOverlap` | the same without deaths | `PublishesEligible` violated |

Bounds. Two hosts are the deployed Forgejo setup and enough for a conflict over one
key; three add a candidate that waits while two hand over, and the theorems cover any
number. Three leases let one be lost and replaced while the other host holds the
third; an identifier is free again when no lease and no shell uses it, so fewer leases
do not end behaviours early. Two addresses for two managed interfaces reach the
exhausted prefix as soon as a run dies after a reservation that is not found again.
Three writes give a source that changes after its first migration and a foreign
document in the destination. Two contours give one boundary between contours, two
clusters give a contour with more than one target. Two pipelines are enough for one
to overwrite the other's plan. In `TokenCache` timeout and margin are equal, the
tightest case the assumption allows (20 s and 60 s in the code); the theorem covers
any durations. Two replicas and a spare address let each of them move to where the
other was. Pipelines, requests and the bounded clock stop, which is why deadlock is
not checked there; `Completes`, `EveryPipelineEnds` and `Answered` cover being stuck.

Fairness. `EtcdHA`: each controller that runs goes on running (a bash loop whose
calls have timeouts), and a lease that nobody refreshes expires; nothing is assumed
about hosts coming back, so the liveness properties speak of controllers that stay
up. Stalls are limited in number: a service whose start always takes longer than the
lease is handed round for ever. `ServicePipeline`: runners are available, and a person plays manual jobs and
retries failed ones; no fairness among them is needed. `WoodpeckerRun`: the server and
the extension go on with what was submitted, and the agents go on with every pipeline;
no fairness among the flows of a pipeline. `TokenCache`: every handler is scheduled
and the mutex is handed on; failures need no fairness because `Fail` is one of the
handler's own steps, as the client's timeout makes it. The other modules state safety
only.

Limits of `SingleActive`, that the service runs on at most one candidate. Only the
violation run checks it, for the code does not keep it. With the role's defaults a
readiness wait that fails, or a start that takes more than 30 s, outlasts the lease
although etcd is reachable, every host is up and stops work: another candidate takes
the key and starts the service, and both run it until the first one has stopped. (With
`Faults = {"health"}` and one fault TLC finds this in 15 states.) What holds under
these conditions is `OnlyHolderRuns` and `HandsOver`: whatever runs beside the owner is
late, and it stops before it can own the key again. Beyond them more is lost: a stop
that fails (`|| true`) hands the key over with the containers running, Docker may
restart them at boot, a controller that forgot its lease after one failed keep-alive
adopts its old key (the violation run), and a signal between the owner check and the
start lets the service start without a lease. The Forgejo and Woodpecker READMEs
warn that nothing is fenced when a controller is gone or cannot reach etcd; the default
timings, the failing stop and the signal need neither.

Limits of `Converges`. It excludes a last reconciliation that overlapped another; the
violation run shows why. `EligibleIsCurrent` excludes machines whose registration
failed and is to be repeated.

## 4. Proofs

Every invariant and action property that a passing run checks is a theorem, for all
values of the constants that satisfy the named `ASSUME`s. These say that the special
values lie outside their sets, that bounds are natural numbers, that a relation has
the right type and that there are finitely many roles, and

* `TokenCache`: a login's timeout is at most the margin and less than every lease;
* `ChangeSelection`: no contour is named twice (they are the keys of a mapping);
* `WoodpeckerWorkflows`: no service is forced, since the generator calls `build_jobs`
  without that variable (`generate_woodpecker.py:250`), and there is a list of files
  that stands for an unknown one.

TLC evaluates all of them in the runs. Where a theorem needs more, its condition is
part of its statement and named below.

`EtcdHA_proofs`, for any hosts, leases, fault kinds and budget:

* `TypeCorrect`: `TypeOK`, split by groups of variables.
* `LeaderIsHolder`: `LeaderHoldsKey`. It is not inductive: a grant must not return a
  lease another shell still holds, and a dropped lease must take its key along.
  `HolderInv` adds that the key exists if and only if it has a lease, that this lease
  is live, that two controllers never share a lease, and that a leader has one.
* `QuietHolderRuns`: `OnlyHolderRuns`, assuming that `Faults` only contains `stall`,
  `start`, `health` and `playbook`: etcd answers, hosts and controllers stay up and
  stops work, but any lease may expire at any time. `QuietInv` says that the key is
  attached to its owner's current lease, that no trap runs, that a controller about to
  revoke has stopped the service, that one without a lease is about to stop whatever
  it runs, and that whoever runs or is about to start the service under a live lease
  owns the key.
* `QuietHandsOver`: under the same assumption `Spec => HandsOver`. `QuietInv` makes
  every step that changes the key, the containers or the late hosts a step of
  `ActiveService`; all others stutter. A late host acquires nothing because its lease,
  dead or forgotten, cannot hold a key.
* `HandoverIsStopped`: `HandsOverStopped` for every fault but a failing stop, with
  the invariant that a controller at either revocation has no running containers.

`NetBoxIpam_proofs`, for any interfaces, prefix, addresses and number of deaths:

* `TypeCorrect`, with the fact that a run past `prepare` has an address.
* `DistinctHosts`, `SingleAddress`, `StableAddresses` and `RolloutIsNotRefused`, if no
  static address lies in the managed prefix (`Separate`; an operator sees to that, the
  code does not check it). `HeldInv` says that what NetBox holds for a managed
  interface is at most one address of the prefix, that the interface's machine and
  runs use that one, and that only a run of an interface that holds nothing reserves.
* `ConflictsDetected`, if all interfaces are primary. `DoneInv`: the address of a
  rollout that succeeded is the primary one of its owner, which NetBox reassigns to
  nobody. Without the assumption it fails (section 5).

`TokenCache_proofs`, for any requests, leases, durations and clock:

* `TypeCorrect` and `LoginsExclude`, which is inductive by itself.
* `BeliefIsBounded` and `TokensAreLive`: `TimeInv` says that a login lasts no longer
  than the timeout, and that an issued token lives at least its lease, counted from
  when the login was sent. So the client overestimates by at most the timeout, and the margin
  covers that.

`ServiceDns_proofs`, for any replicas, addresses and deaths:

* `TypeCorrect`; `EligibleIsChecked` and `EligibleIsFound` from `RegisteredInv`: a job
  that is about to set the tag has passed its checks, and a machine whose primary
  address is about to be written has its own record up to date.
* `Convergence`: `Converges`. `ConvergesInv` follows the reconciliation begun last as
  long as nothing overlaps it: it is alone, the records are those it has read, and
  what remains to be deleted and created turns the records into what is wanted,
  unless another job has yet to reconcile anyway.

`StateMigration_proofs`, for any states, schemas, batches, writes and faults:

* `TypeCorrect`, with `Progress`: how many documents are prepared and results reported
  at each step of a batch. The documents at `prepared[next]` exist only because of it.
* `ReportTellsWhere`: `ReportIsPrefix`. `ReportInv` adds that nothing is reported as
  migrated before the writing has begun, and that then exactly the states before the
  current one are.
* `PreparesFirst`: `WritesAfterPreflight`, an action property, from the types alone.
* `DestinationIsKept`: `DestinationKept`. The check and the push are far apart, and
  jobs write in between: `KeptInv` says that a schema that was empty at the check and
  is not any more was created by a later job than the state about to be pushed to it,
  so that the lineages differ and tofu refuses the push. Other pushes of the batch
  are no such writers because no two of its names share a schema.
* `SuccessMeansInSync`: `OkMeansInSync`. `SyncInv` holds as long as no job interferes
  (`quiet`): what is prepared is what the sources hold, and the schemas behind the
  current state hold what was prepared for them, where again the schemas are distinct.

`ServicePipeline_proofs`, for any services, targets, contours, roles and edits:

* `TypeCorrect`, with the fact that a change of the platform ends with its smoke test.
* `DeploysOwnChange`: `DeploysItsOwnChange`. Both pairs of commits GitLab may name
  differ by the request's edits (`OwnEdits`, a symmetric difference). The index of the
  roles does as many rounds as there are roles; that this is enough is the pigeonhole
  argument that a shortest chain names no role twice (`ShortestChain`), whether
  roles name each other in a circle or not.
* `PlatformGoesFirst`, `RoutesFollow`, `ValidatesFirst`: all start from `NeedsInv`, that
  a job that started is not blocked, now or then, since succeeded jobs stay so.
  `PhaseInv` chains the platform's phases up to the smoke test, `ValidInv` the jobs up
  to a stage that waits for the validations.
* `RollsOutInOrder` and `ResynchronisedLast`, if the change affects no phase of the
  platform, or plans the Terraform root of every by_contour service it configures
  (`PlatformApart`). `ContourInv` says that a started job of a contour, a plan as much as
  a playbook, has all earlier contours settled behind it. The condition is not for the
  proof's sake: without it a playbook waits for the smoke test alone, and the run
  `ServicePipelineOrder` shows the order violated.

`WoodpeckerRun_proofs`, for any pipelines, webhooks, services, targets, components and
faults. The theorems follow from one invariant, `RunInv`:

* `StageInv`: a pipeline has the workflow of its own webhook; `TypeCorrect` needs it.
  `FailsClosed` (`MissingListFailsClosed`) also takes what the generator answers when
  it does not know the changed files.
* `FlowInv`: a flow that started had all its needs passed.
* `GroupInv` and `VolumeInv`: one flow of a concurrency group runs at a time, among all
  pipelines; so from a flow's plan to its apply the volume of its target holds
  that plan. `PlanIsItsOwn` (`AppliesItsOwnPlan`) is a consequence.
* `EffectInv`: every effect belongs to a flow that has started, carries the pipeline's
  own plan and, in a deployment, its target: `KeepsToTarget` (`TouchesItsTarget`).
* `LeftInv`: what the passed steps of the platform and of the rollouts have left behind.
  With the order of the platform's steps, which `PlatformOrder` reads off the
  concatenation of the phases (all changes but the foundation's come before those of
  the foundation), and the needs of the flows, this gives `InOrder` (`ChangesInOrder`).

`NaturalLemmas` has the least and the greatest element of a set of numbers. Induction is
out of the provers' reach as a rule with an operator for its parameter; what these
proofs need of it they get from a least counterexample: that a recursive
function exists (`Rounds`, `Flattening`), that the search reaches the end of a
chain, that the changes of a phase lie between its first and its last step.

The proofs go by action, one lemma per action or group that touches the invariant.

Only model-checked: the liveness properties `StaleServiceStops`, `Failover`,
`SettlesOnOne`, `Completes`, `EveryPipelineEnds` and `Answered`, since fairness and
ENABLED are out of the prover's reach, and the four violations.

## 5. Divergences

Four runs show disagreements between the code and what the repository says of it;
`findings` quotes the lines:

1. A controller adopts its own old key under a new lease (`EtcdHAAdoptedKey`).
2. Platform jobs switch the order of contours off for playbook-only changes
   (`ServicePipelineOrder`), and with it the order between the rollout and the
   resynchronisation; the theorems `RollsOutInOrder` and `ResynchronisedLast` say that
   this is the only case.
3. The pipeline of a push runs the routes' playbook without `--check`
   (`WoodpeckerPush`). Likewise the phase `dns-ingress` re-runs the service's playbook
   where the README speaks of DNS reconciliation.
4. Overlapping reconciliations leave an eligible replica unpublished
   (`ServiceDnsOverlap`).

Others were met while modelling; the models follow the code:

* A failed readiness wait takes 30 times 2 s without a keep-alive
  (`etcd-ha-controller.sh.j2:35-46,102-109`) while the lease lives 30 s
  (`etcd_ha/defaults/main.yml:19,22-23`): the lease and the key are gone before the
  service is stopped, and another candidate may run it by then. The READMEs of
  Woodpecker (line 91, "only the etcd lease holder runs the server") and of Forgejo
  (lines 21-23) promise otherwise.
* `trap release EXIT INT TERM` does not end the controller: the loop goes on after a
  signal and may start the service after its lease was revoked.
* Two finalize runs of non-primary interfaces with one static address both succeed;
  the conflict check (`netbox_vm_ipam.py:580`) tests what was read before.
* The README's chain of contours in one Woodpecker pipeline: the generator renders
  only the first affected contour (`generate_woodpecker.py:583-594`), and pushes plan
  only.
* The steps of pull requests ask for the secret `openbao_deploy_token`
  (`generate_woodpecker.py:279`); the extension supplies it to deployments only, and
  `openbao_plan_token` to all others (`main.go:212-215`).
* `CI_PIPELINE_PARENT` is never handed to the generator (`main.go:439-447`), so that a
  deployment from another branch is always refused.
* `affected_services` selects the users of FreeIPA when its files change and forgets
  every other edit of the same change (`generate_woodpecker.py:257-258`).
* `kolla-deploy` flushes memcached every time: the remote script lacks a separator
  before `printf`, so that the marker is never written (`run_platform.py:388-389`).
* `foundation-plan` already reconciles DNS records, and `foundation-apply` applies a
  new plan and not the one that was shown.
* A failing `git diff` counts as no change (`generate_pipeline.py:373`).
* Changes of SRV priorities are never applied to existing records.
* A change of routes alone starts the preview without the validation
  (`traefik-preview.yml.j2:22`).

## 6. Not modelled

Wall-clock time outside `TokenCache` (TTLs, poll intervals and timeouts are choices
of order); the content of configurations, playbooks and Terraform roots; the HTTP,
`tofu`, `etcdctl` and `git` clients beyond success, failure and, where it matters,
failure after the effect; interface and MAC objects of NetBox; DNS routing `ingress` and
`static` and the command `reconcile-record`, whose desired set no other job changes;
GitLab's artifacts, re-runs of succeeded jobs and two GitLab pipelines side by side
(`WoodpeckerRun` has two for Woodpecker); the lifetime of a token after it was handed
over; the components marked `not_modelled` in `PROJECT.json`, with their reasons
there.

## 7. Plan

Done: the modules above, in the order HA controller, addresses, migration, GitLab
pipeline, then change selection, Woodpecker, token cache and service DNS; then the
proofs, in the same order. No safety property of a passing run is left without a
theorem.

Next: what the proofs can say beyond the runs. That no pipeline of `ServicePipeline` is
stuck, the half of `Completes` that needs no fairness: the jobs it waits for are always
created and form no circle. That no two flows of `WoodpeckerRun` wait for each other. That
`HandsOver` survives crashes if `late` also holds the hosts whose controller came back
to a service it did not start. Then
`ForgejoStorage`, the DRBD roles, mount and containers under the controller's start
and stop, if the configuration in the repository turns out to determine enough of
DRBD's behaviour.
