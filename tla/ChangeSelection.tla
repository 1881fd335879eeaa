--------------------------- MODULE ChangeSelection ---------------------------
(***************************************************************************)
(* What a change selects: the first half of generate_pipeline.py.          *)
(*                                                                         *)
(* changed_files_from_environment reads the change from the variables of   *)
(* the CI system, build_jobs decides for every service whether its         *)
(* Terraform root and its playbook are affected, openstack_platform_phases *)
(* which phases of the platform are.  GitLab's pipeline (ServicePipeline)  *)
(* and Woodpecker's workflows (WoodpeckerWorkflows) start from this.       *)
(*                                                                         *)
(* A path is the part of the repository it lies in and the service, role   *)
(* or shared file it belongs to.                                           *)
(***************************************************************************)
EXTENDS Naturals, Sequences, FiniteSets

CONSTANTS
  Service,        \* the services discovered under services/
  Terraformed,    \* those with a Terraform root
  Playbook,       \* those with a playbook
  Unmanaged,      \* those with pipeline.managed: false
  Forced,         \* those named by FORGEJO_SERVICES
  ActivePassive,  \* those with an active-passive topology
  PowerDns,       \* the service that serves the DNS zones
  Dns,            \* "none", "direct" or "ingress": dns.routing.mode
  Contours,       \* rollout_contours of platform.yaml, in their order
  Targets,        \* the <<cluster, contour>> pairs of a by_contour service; {}
                  \* for a service that is deployed at once
  Role,           \* the roles under shared/ansible/roles
  PlaybookRoles,  \* the roles a service's playbook names
  RoleNeeds,      \* the roles a role's metadata and tasks name
  SharedFile,     \* the modules of shared/terraform and shared/ansible/tasks
  SharedUses,     \* those a service's playbook and Terraform files mention
  OpenStack,      \* openstack.enabled
  Nowhere, Nobody \* no target; no service, role or shared file

Contour == {Contours[i] : i \in DOMAIN Contours}

ASSUME ServiceAssumption ==
  /\ Terraformed \subseteq Service /\ Playbook \subseteq Service
  /\ Unmanaged \subseteq Service /\ Forced \subseteq Service
  /\ ActivePassive \subseteq Service /\ PowerDns \in Service
  /\ Dns \in [Service -> {"none", "direct", "ingress"}]
ASSUME ContourAssumption ==
  /\ Contours \in Seq(Contour) /\ Nowhere \notin Contour
  /\ \A i, k \in DOMAIN Contours : Contours[i] = Contours[k] => i = k
  /\ \A s \in Service : \A t \in Targets[s] : t[2] \in Contour /\ t # Nowhere
ASSUME DependencyAssumption ==
  /\ IsFiniteSet(Role)
  /\ PlaybookRoles \in [Service -> SUBSET Role] /\ RoleNeeds \in [Role -> SUBSET Role]
  /\ SharedUses \in [Service -> SUBSET SharedFile] /\ OpenStack \in BOOLEAN

-----------------------------------------------------------------------------
(* Paths. *)

In(kind, name) == [in |-> kind, of |-> name]

Path ==
  {In(k, Nobody) : k \in {"platform.yaml", "environments", "generator", "host",
                          "kolla", "foundation", "inventory", "docs"}}
    \cup {In(k, s) : k \in {"config", "terraform", "ansible", "other", "readme",
                            "route", "host_vars"}, s \in Service}
    \cup {In("role", r) : r \in Role}
    \cup {In(k, f) : k \in {"module", "task"}, f \in SharedFile}

Touches(files, kinds) == \E f \in files : f.in \in kinds

Edits(s, files, kinds) == \E k \in kinds : In(k, s) \in files

-----------------------------------------------------------------------------
(* openstack_platform_phases *)

Phases == <<"validate-platform", "host-preflight", "host-apply",
            "kolla-prechecks", "kolla-deploy",
            "foundation-plan", "foundation-apply", "smoke">>

Phase == {Phases[i] : i \in DOMAIN Phases}

AreaPhases(kind) ==
  CASE kind = "host"                     -> {"host-preflight", "host-apply"}
    [] kind = "kolla"                    -> {"kolla-prechecks", "kolla-deploy"}
    [] kind \in {"foundation", "module"} -> {"foundation-plan", "foundation-apply"}
    [] OTHER                             -> {}

PhasesOf(files) ==
  LET own == UNION {AreaPhases(f.in) : f \in files}
  IN CASE Touches(files, {"platform.yaml", "generator"}) -> Phase
       [] OTHER -> IF own = {} THEN {} ELSE own \cup {"validate-platform", "smoke"}

\* the platform jobs of a pipeline
PlatformJobsOf(files) == IF OpenStack THEN PhasesOf(files) ELSE {}

-----------------------------------------------------------------------------
(* ansible_dependency_index.py: the roles a playbook uses, directly or not. *)

RolesUsed(s) ==
  LET reach[n \in 0..Cardinality(Role)] ==
        IF n = 0 THEN PlaybookRoles[s]
        ELSE reach[n - 1] \cup UNION {RoleNeeds[r] : r \in reach[n - 1]}
  IN reach[Cardinality(Role)]

RoleUsers(r) == {s \in Service : r \in RolesUsed(s)}

-----------------------------------------------------------------------------
(* build_jobs: the affected services. *)

RolledOut == {s \in Service : Targets[s] # {}}

\* has_global_pipeline_impact
GlobalImpact(files) == Touches(files, {"platform.yaml", "environments"})

\* ansible_changed_for_service
AnsibleChanged(s, files) ==
  \/ Edits(s, files, {"ansible", "config", "other", "host_vars"})
  \/ \E f \in SharedUses[s] : In("task", f) \in files
  \/ \E r \in Role : In("role", r) \in files /\ s \in RoleUsers(r)
  \/ Touches(files, {"inventory"})

Candidate(s) == s \notin Unmanaged \/ s \in Forced

TerraformNeeded(s, files) ==
  /\ s \in Terraformed /\ Candidate(s)
  /\ \/ s \in Forced
     \/ Edits(s, files, {"config", "terraform"})
     \/ \E f \in SharedUses[s] : In("module", f) \in files
     \/ In("platform.yaml", Nobody) \in files
     \/ GlobalImpact(files) /\ s \in RolledOut

\* mutant: a change of the Terraform root alone does not select the playbook
ConfigureNeededAlone(s, files) ==
  s \in Playbook /\ Candidate(s) /\ AnsibleChanged(s, files)

ConfigureNeeded(s, files) ==
  /\ s \in Playbook /\ Candidate(s)
  /\ \/ s \in Forced
     \/ TerraformNeeded(s, files)
     \/ GlobalImpact(files) /\ s \in RolledOut
     \/ AnsibleChanged(s, files)

ServicesOf(files) ==
  {s \in Service : TerraformNeeded(s, files) \/ ConfigureNeeded(s, files)}

\* whether the routes of a service are edited
RoutesOf(files) == \E s \in Service : Candidate(s) /\ Edits(s, files, {"route"})

\* an active-passive service over several contours is resynchronised at the end
Resynchronised(s, files) ==
  /\ s \in ActivePassive /\ ConfigureNeeded(s, files)
  /\ Cardinality({t[2] : t \in Targets[s]}) > 1

-----------------------------------------------------------------------------
(* changed_files_from_environment: the two commits GitLab's variables name. *)

\* Which variables the pipeline of a merge request carries.  GitLab runs it on
\* the branch ("detached") or on the result of merging it into its target; older
\* versions leave out the tip of the one or of the other.
Variables ==
  [type : {"detached", "merged_result"}, sourceSha : BOOLEAN, targetSha : BOOLEAN]

\* mutant: the result of a merge is compared like the branch
DiffBaseAlways(v) == "base"

DiffBase(v) ==
  IF v.type = "merged_result" /\ ~v.sourceSha /\ v.targetSha THEN "target" ELSE "base"

DiffHead(v) ==
  IF v.type = "detached" \/ v.sourceSha \/ ~v.targetSha THEN "source" ELSE "merged"

\* what a commit changes in the base of a request that edits "files" and whose
\* target branch has moved on by edits of "moved" since
Edited(commit, files, moved) ==
  CASE commit = "source" -> files \X {"request"}
    [] commit = "target" -> moved \X {"target"}
    [] commit = "merged" -> (files \X {"request"}) \cup (moved \X {"target"})
    [] OTHER             -> {}

\* git diff --name-only
ChangedFiles(v, files, moved) ==
  LET a == Edited(DiffBase(v), files, moved)
      b == Edited(DiffHead(v), files, moved)
  IN {e[1] : e \in (a \ b) \cup (b \ a)}
=============================================================================
