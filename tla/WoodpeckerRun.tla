---------------------------- MODULE WoodpeckerRun ----------------------------
(***************************************************************************)
(* Pipelines of one commit in Woodpecker, from the webhook to their last   *)
(* step.                                                                   *)
(*                                                                         *)
(* The server asks the configuration extension for the workflows           *)
(* (/ciconfig, which runs generate_woodpecker.py on a fresh clone) and for *)
(* the OpenBao token (/secrets; TokenCache models where it comes from),    *)
(* then starts the flows as their dependencies and concurrency groups      *)
(* allow.  A rollout's plan and apply are two steps: the plan reaches the  *)
(* apply through a Dagger cache volume named after the target and the      *)
(* commit, which all pipelines of the commit share.                        *)
(***************************************************************************)
EXTENDS WoodpeckerWorkflows

CONSTANTS
  Pipeline,     \* the pipelines of the commit
  Webhooks,     \* the requests the server may send for the commit
  CommitFiles,  \* what the commit changes against its first parent
  MaxFaults     \* failed steps and clones (bounds the behaviours)

ASSUME FaultAssumption == MaxFaults \in Nat /\ CommitFiles \subseteq Path

VARIABLES
  stage,    \* the state of every pipeline
  hook,     \* what its webhook said
  env,      \* what the generator was called with
  workflow, \* the generator's answer: what every flow waits for, and its steps
  status,   \* the state of the pipeline's flows
  next,     \* the number of the flow's next step
  volume,   \* the cache volume of a target: the pipeline whose plan it holds
  effects,  \* what the pipelines changed so far
  faults

vars == <<stage, hook, env, workflow, status, next, volume, effects, faults>>

Effect(p, what, at, plan) == [by |-> p, what |-> what, at |-> at, plan |-> plan]

TypeOK ==
  /\ stage \in [Pipeline -> {"none", "submitted", "configured", "running", "refused"}]
  /\ \A p \in Pipeline :
       /\ stage[p] # "none" => hook[p] \in Webhooks
       /\ stage[p] = "running" =>
            /\ status[p] \in [DOMAIN workflow[p] -> {"waiting", "running", "passed", "failed"}]
            /\ \A f \in DOMAIN workflow[p] : next[p][f] \in 1..(Len(workflow[p][f].steps) + 1)
  /\ volume \in [AllTargets -> Pipeline \cup {Nobody}]
  /\ faults \in 0..MaxFaults

Init ==
  /\ stage = [p \in Pipeline |-> "none"]
  /\ hook = [p \in Pipeline |-> Nobody] /\ env = [p \in Pipeline |-> Nobody]
  /\ workflow = [p \in Pipeline |-> <<>>] /\ status = [p \in Pipeline |-> <<>>]
  /\ next = [p \in Pipeline |-> <<>>]
  /\ volume = [t \in AllTargets |-> Nobody]
  /\ effects = {}
  /\ faults = 0

-----------------------------------------------------------------------------
(* The configuration extension. *)

Becomes(p, st) == stage' = [stage EXCEPT ![p] = st]

\* a push, a pull request or an operator's deployment
Submit(p) ==
  /\ stage[p] = "none"
  /\ Becomes(p, "submitted")
  /\ \E h \in Webhooks : hook' = [hook EXCEPT ![p] = h]
  /\ UNCHANGED <<env, workflow, status, next, volume, effects, faults>>

\* mutant: a missing list of changed files is handed on
FilesOfHandedOn(h) == IF h.event = "deployment" THEN CommitFiles ELSE h.files

\* the list the generator is given: a deployment's webhook carries none, so it
\* is derived from the commit; a missing list becomes an empty one
FilesOf(h) ==
  CASE h.event = "deployment"                           -> CommitFiles
    [] h.event # "deployment" /\ h.files = Unknown      -> {}
    [] OTHER                                            -> h.files

\* CI_PIPELINE_PARENT is not handed on
EnvironmentOf(h) ==
  [event |-> h.event, branch |-> h.branch, parent |-> FALSE, task |-> h.task,
   target |-> h.target, files |-> FilesOf(h)]

\* generate: the commit is cloned, the generator run, its workflows answered
Configure(p) ==
  /\ stage[p] = "submitted"
  /\ hook[p].credentials /\ ~Refused(EnvironmentOf(hook[p]))
  /\ Becomes(p, "configured")
  /\ env' = [env EXCEPT ![p] = EnvironmentOf(hook[p])]
  /\ workflow' = [workflow EXCEPT ![p] =
       LET e == EnvironmentOf(hook[p])
       IN [f \in Flows(e) |-> [needs |-> FlowNeeds(e, f), steps |-> Steps(e, f)]]]
  /\ UNCHANGED <<hook, status, next, volume, effects, faults>>

\* the request lacks its credentials, the generator exits with an error
Reject(p) ==
  /\ stage[p] = "submitted"
  /\ ~hook[p].credentials \/ Refused(EnvironmentOf(hook[p]))
  /\ Becomes(p, "refused")
  /\ UNCHANGED <<hook, env, workflow, status, next, volume, effects, faults>>

\* or a git command fails
CloneFails(p) ==
  /\ stage[p] = "submitted" /\ faults < MaxFaults
  /\ Becomes(p, "refused")
  /\ faults' = faults + 1
  /\ UNCHANGED <<hook, env, workflow, status, next, volume, effects>>

\* mutant: the steps are counted from zero
RunFromZero(p) ==
  /\ stage[p] = "configured" /\ hook[p].allowed
  /\ Becomes(p, "running")
  /\ status' = [status EXCEPT ![p] = [f \in DOMAIN workflow[p] |-> "waiting"]]
  /\ next' = [next EXCEPT ![p] = [f \in DOMAIN workflow[p] |-> 0]]
  /\ UNCHANGED <<hook, env, workflow, volume, effects, faults>>

\* handleSecrets: the repository is on the list and OpenBao answered; Woodpecker
\* starts the pipeline
Run(p) ==
  /\ stage[p] = "configured" /\ hook[p].allowed
  /\ Becomes(p, "running")
  /\ status' = [status EXCEPT ![p] = [f \in DOMAIN workflow[p] |-> "waiting"]]
  /\ next' = [next EXCEPT ![p] = [f \in DOMAIN workflow[p] |-> 1]]
  /\ UNCHANGED <<hook, env, workflow, volume, effects, faults>>

RefuseSecrets(p) ==
  /\ stage[p] = "configured" /\ ~hook[p].allowed
  /\ Becomes(p, "refused")
  /\ UNCHANGED <<hook, env, workflow, status, next, volume, effects, faults>>

\* or the login fails
LoginFails(p) ==
  /\ stage[p] = "configured" /\ hook[p].allowed /\ faults < MaxFaults
  /\ Becomes(p, "refused")
  /\ faults' = faults + 1
  /\ UNCHANGED <<hook, env, workflow, status, next, volume, effects>>

-----------------------------------------------------------------------------
(* Woodpecker runs the flows. *)

\* mutant: the workflows carry no concurrency group
InGroupUnlimited(g) == {}

\* mutant: a failed flow keeps its place in the group
InGroupFailed(g) ==
  UNION {{f \in DOMAIN status[p] : status[p][f] \in {"running", "failed"} /\ Group(f) = g} :
           p \in Pipeline}

\* the running flows of a concurrency group, in all pipelines
InGroup(g) ==
  UNION {{f \in DOMAIN status[p] : status[p][f] = "running" /\ Group(f) = g} :
           p \in Pipeline}

Set(p, f, st) == status' = [status EXCEPT ![p][f] = st]

StartFlow(p, f) ==
  /\ status[p][f] = "waiting"
  /\ \A g \in workflow[p][f].needs : status[p][g] = "passed"
  /\ f # Validate => InGroup(Group(f)) = {}
  /\ Set(p, f, "running")
  /\ UNCHANGED <<stage, hook, env, workflow, next, volume, effects, faults>>

Step(p, f) == workflow[p][f].steps[next[p][f]]

\* tofu_plan: whether the target's Terraform root is planned
Plans(e, t) == t[1] \in Jobs(e) /\ TerraformNeeded(t[1], Known(e))

\* what a step changes.  run_pipeline has one way to run a playbook: the preview
\* of the routes and the DNS step run theirs like any other job.
EffectsOf(p, f, step) ==
  LET e == env[p]
      configured(ts) == {Effect(p, "configure", t, Nobody) :
                           t \in {u \in ts : u[1] \in Jobs(e)
                                               /\ ConfigureNeeded(u[1], Known(e))}}
  IN CASE step.do \in Changing   -> {Effect(p, step.do, step.on, Nobody)}
       [] step.do = "apply"       -> {Effect(p, "apply", t, volume[t]) :
                                        t \in {u \in {f.at} : Plans(e, u)}}
                                       \cup configured({f.at})
       [] step.do = "ha-sync"     -> {Effect(p, "sync", FinalTarget(s), Nobody) : s \in Synced(e)}
       [] step.do \in {"traefik-preview", "traefik-apply"}
                                  -> {Effect(p, "routes", Nowhere, Nobody)}
       [] step.do = "dns-ingress" -> configured(Published(e))
       [] OTHER                   -> {}

\* what it may have changed when it fails: run_pipeline.execute applies the plan
\* before it runs the playbook
PartsOf(p, f, step) ==
  {part \in SUBSET EffectsOf(p, f, step) :
     \/ \A x \in part : x.what # "configure"
     \/ \A x \in EffectsOf(p, f, step) : x.what = "apply" => x \in part}

Advance(p, f) ==
  /\ next' = [next EXCEPT ![p][f] = @ + 1]
  /\ IF next[p][f] = Len(workflow[p][f].steps) THEN Set(p, f, "passed") ELSE UNCHANGED status

\* the plan, if there is one, is copied to the volume by the step's last command
LeavePlan(p, f) ==
  IF Step(p, f).do = "plan" /\ Plans(env[p], f.at)
  THEN volume' = [volume EXCEPT ![f.at] = p] ELSE UNCHANGED volume

FinishStep(p, f) ==
  /\ status[p][f] = "running"
  /\ Advance(p, f)
  /\ effects' = effects \cup EffectsOf(p, f, Step(p, f))
  /\ LeavePlan(p, f)
  /\ UNCHANGED <<stage, hook, env, workflow, faults>>

\* a failed step ends its flow; the flows that need it are never started
FailStep(p, f) ==
  /\ status[p][f] = "running" /\ faults < MaxFaults
  /\ Set(p, f, "failed")
  /\ faults' = faults + 1
  /\ \E part \in PartsOf(p, f, Step(p, f)) : effects' = effects \cup part
  /\ LeavePlan(p, f) \/ UNCHANGED volume
  /\ UNCHANGED <<stage, hook, env, workflow, next>>

FlowStep(p, f) ==
  /\ StartFlow(p, f) \/ FinishStep(p, f) \/ FailStep(p, f)

PipelineStep(p) ==
  \/ Configure(p) \/ Reject(p) \/ CloneFails(p)
  \/ Run(p) \/ RefuseSecrets(p) \/ LoginFails(p)

Next ==
  \E p \in Pipeline : Submit(p) \/ PipelineStep(p) \/ \E f \in DOMAIN status[p] : FlowStep(p, f)

Spec == Init /\ [][Next]_vars

\* the server and the extension go on with what is submitted, the agents with the
\* flows of every pipeline
Fairness ==
  \A p \in Pipeline :
    /\ WF_vars(PipelineStep(p))
    /\ WF_vars(\E f \in DOMAIN status[p] : FlowStep(p, f))

FairSpec == Spec /\ Fairness

-----------------------------------------------------------------------------
(* Properties. *)

Running(p) == stage[p] = "running"

By(p) == {x \in effects : x.by = p}

\* The plan a pipeline applies is its own, the one its log shows, although every
\* pipeline of the commit writes its plans into the same volume.
AppliesItsOwnPlan == \A x \in effects : x.what = "apply" => x.plan = x.by

\* What a deployment applies, configures and resynchronises is its own target; the
\* service is resynchronised as a whole only by the deployment of its final one.
\* (The routes are rendered for every service, and the platform has no target.)
TouchesItsTarget ==
  \A x \in effects :
    (hook[x.by].event = "deployment" /\ x.what \in {"apply", "configure", "sync"})
      => x.at = hook[x.by].target

\* what the platform's part of a pipeline has to change
PlatformChanges(e) ==
  {Effect(Nobody, c.do, c.on, Nobody) :
     c \in {d \in Range(PlatformCommands(PhasesRun(e))) : d.do \in Changing}}

Done(p, change) == [change EXCEPT !.by = p] \in effects

\* The routes are switched and the service resynchronised only after the rollout
\* that belongs to them, that only after everything the platform has to change,
\* and the foundation is applied only to a cloud that is deployed and named.
ChangesInOrder ==
  \A p \in Pipeline : Running(p) =>
    /\ (\E x \in By(p) : x.what \in {"routes", "sync"} /\ Applies(env[p])) =>
         \A t \in Rollouts(env[p]) :
           ConfigureNeeded(t[1], Known(env[p])) /\ t[1] \in Jobs(env[p])
             => \E x \in By(p) : x.what = "configure" /\ x.at = t
    /\ (\E x \in By(p) : x.what \notin Changing) =>
         \A change \in PlatformChanges(env[p]) : Done(p, change)
    /\ (\E x \in By(p) : x.what = "foundation") =>
         \A change \in PlatformChanges(env[p]) :
           change.what # "foundation" => Done(p, change)

\* A webhook without a list of changed files starts nothing but the validation,
\* not a rollout of every service.
MissingListFailsClosed ==
  \A p \in Pipeline :
    (Running(p) /\ hook[p].files = Unknown /\ hook[p].event # "deployment")
      => DOMAIN workflow[p] = {Validate}

\* Every pipeline comes to an end: refused, all flows passed, or one failed and
\* none running.
Ended(p) ==
  \/ stage[p] = "refused"
  \/ /\ stage[p] = "running"
     /\ \/ \A f \in DOMAIN status[p] : status[p][f] = "passed"
        \/ /\ \E f \in DOMAIN status[p] : status[p][f] = "failed"
           /\ \A f \in DOMAIN status[p] : status[p][f] # "running"

EveryPipelineEnds == \A p \in Pipeline : stage[p] = "submitted" ~> Ended(p)

\* "Pushes remain plan-only" (generate_woodpecker.py:511): the pipeline of a push
\* changes nothing.
PushesOnlyPlan == \A x \in effects : hook[x.by].event # "push"
=============================================================================
