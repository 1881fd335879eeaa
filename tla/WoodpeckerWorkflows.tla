------------------------- MODULE WoodpeckerWorkflows -------------------------
(***************************************************************************)
(* The workflows generate_woodpecker.py renders for a pipeline of          *)
(* Woodpecker: what expected_workflows decides from the event, the branch, *)
(* the changed files and the deployment target.                            *)
(*                                                                         *)
(* A flow is one entry of a workflow's matrix: the rollout of one target,  *)
(* the platform, the work after the rollout, or the validation.            *)
(***************************************************************************)
EXTENDS PlatformPhases

CONSTANTS
  FreeIpa,        \* the identity service
  FreeIpaUsers,   \* the services affected_services selects for its changes
  Traefik,        \* the ingress
  Protected,      \* the branch deployments are allowed from
  Unknown         \* no list of changed files

\* pipeline_jobs calls build_jobs without forced services
ASSUME NamesAssumption ==
  /\ {FreeIpa, Traefik} \cup FreeIpaUsers \subseteq Service
  /\ Forced = {} /\ Unknown # {}

\* <<service, cluster, contour>>
AllTargets == UNION {{<<s, t[1], t[2]>> : t \in Targets[s]} : s \in RolledOut}

\* rollout_targets
RolloutTargets(c) == {t \in AllTargets : t[3] = c}

\* An environment e of the generator: its event, branch and deployment task and
\* target, whether the deployment has a parent pipeline, and the changed files.

-----------------------------------------------------------------------------
(* What is affected. *)

Deployment(e) == e.event = "deployment"

Known(e) == IF e.files = Unknown THEN {} ELSE e.files

\* the services build_jobs looks at: a deployment names one
InScope(e) == IF Deployment(e) THEN {e.target[1]} ELSE Service

Jobs(e) == ServicesOf(Known(e)) \cap InScope(e)

\* whether there are jobs that render Traefik's routes
RoutesRendered(e) ==
  \/ Jobs(e) # {}
  \/ \E s \in InScope(e) : Candidate(s) /\ Edits(s, Known(e), {"route"})

EditsService(e, s) == \E f \in Known(e) : f.of = s /\ f.in # "host_vars"

\* affected_services: Traefik's own jobs count as a change of Traefik
Affected(e) ==
  RolledOut \cap
    CASE e.files = Unknown                              -> Service
      [] e.files # Unknown /\ EditsService(e, FreeIpa)  -> FreeIpaUsers
      [] OTHER -> Jobs(e) \cup {s \in {Traefik} : RoutesRendered(e)}

AffectedTargets(e) == {t \in AllTargets : t[1] \in Affected(e)}

Rank(c) == CHOOSE i \in DOMAIN Contours : Contours[i] = c

\* what makes the generator exit with an error
Refused(e) ==
  \/ \E c \in Contour : RolloutTargets(c) = {}
  \/ Deployment(e) /\ \/ e.target = Nowhere
                      \/ e.task # "apply"
                      \/ e.branch # Protected /\ ~e.parent
                      \/ e.target \notin AffectedTargets(e)

-----------------------------------------------------------------------------
(* The flows. *)

Flow(kind, at) == [kind |-> kind, at |-> at]

Validate == Flow("validate", Nowhere)
Platform == Flow("platform", Nowhere)
Post     == Flow("post", Nowhere)

\* Pushes remain plan-only
Applies(e) == e.event \in {"deployment", "pull_request"}

\* outside a deployment, the first contour with an affected target
FirstTargets(e) ==
  {t \in AffectedTargets(e) : \A u \in AffectedTargets(e) : Rank(t[3]) <= Rank(u[3])}

\* mutant: a deployment rolls its service out everywhere
RolloutsEverywhere(e) ==
  IF Deployment(e) THEN {t \in AllTargets : t[1] = e.target[1]} ELSE FirstTargets(e)

Rollouts(e) == IF Deployment(e) THEN {e.target} \cap AffectedTargets(e) ELSE FirstTargets(e)

PhasesRun(e) ==
  IF ~OpenStack \/ ~Deployment(e) THEN {}
  ELSE IF e.files = Unknown THEN Phase ELSE PhasesOf(e.files)

\* the target whose job resynchronises a service
FinalTarget(s) ==
  CHOOSE t \in AllTargets :
    t[1] = s /\ \A u \in AllTargets : u[1] = s => Rank(u[3]) <= Rank(t[3])

Synced(e) ==
  {s \in Jobs(e) : Resynchronised(s, Known(e))
                     /\ (Deployment(e) => e.target = FinalTarget(s))}

Published(e) ==
  {t \in AllTargets : /\ t[1] \in Jobs(e) /\ ConfigureNeeded(t[1], Known(e))
                      /\ Dns[t[1]] = "ingress"
                      /\ Deployment(e) => t = e.target}

Just(name) == Do(name, Nobody)

StepIf(test, name) == IF test THEN <<Just(name)>> ELSE <<>>

PostSteps(e) ==
  StepIf(Applies(e) /\ Synced(e) # {}, "ha-sync")
    \o StepIf(RoutesRendered(e), "traefik-preview")
    \o StepIf(Applies(e) /\ RoutesRendered(e), "traefik-apply")
    \o StepIf(Applies(e) /\ Published(e) # {}, "dns-ingress")

\* the committed workflow's only step is meant for these events; in the others,
\* a deployment above all, the flow clones the repository and passes
Validates(e) ==
  \/ e.event \in {"pull_request", "manual"}
  \/ e.event = "push" /\ e.branch = Protected

ValidateSteps(e) == <<Just(IF Validates(e) THEN "validate" ELSE "clone")>>

Steps(e, f) ==
  CASE f.kind = "validate" -> ValidateSteps(e)
    [] f.kind = "platform" -> PlatformCommands(PhasesRun(e))
    [] f.kind = "rollout"  -> IF Applies(e) THEN <<Just("plan"), Just("apply")>> ELSE <<Just("plan")>>
    [] f.kind = "post"     -> PostSteps(e)

Generated(e) ==
  {Flow("rollout", t) : t \in Rollouts(e)}
    \cup {f \in {Platform} : PhasesRun(e) # {}}
    \cup {f \in {Post} : PostSteps(e) # <<>>}

\* the extension sends the committed validation workflow along
Flows(e) == Generated(e) \cup {Validate}

\* mutant: the work after the rollout waits for the validation alone
FlowNeedsLoose(e, f) ==
  CASE f = Validate -> {}
    [] f.kind = "rollout" -> Flows(e) \cap {IF PhasesRun(e) # {} THEN Platform ELSE Validate}
    [] OTHER -> {Validate}

\* depends_on: every flow of the workflow before
FlowNeeds(e, f) ==
  LET rollouts == {g \in Flows(e) : g.kind = "rollout"}
      platform == {Platform} \cap Flows(e)
      first    == IF platform # {} THEN platform ELSE {Validate}
  IN CASE f = Validate       -> {}
       [] f = Platform       -> {Validate}
       [] f.kind = "rollout" -> first
       [] f = Post           -> IF rollouts # {} THEN rollouts ELSE first

\* concurrency: one flow at a time per service and cluster, whatever its contour;
\* the committed validation workflow names no group
Group(f) == IF f.kind = "rollout" THEN Flow("cluster", <<f.at[1], f.at[2]>>) ELSE f
=============================================================================
