--------------------------- MODULE ServicePipeline ---------------------------
(***************************************************************************)
(* The deployment pipeline generate_pipeline.py renders for a change, and  *)
(* its execution by GitLab.                                                *)
(*                                                                         *)
(* build_jobs selects the jobs of a change and gives each its "needs";     *)
(* render_pipeline lays them out in stages.  A job with a "needs" key waits *)
(* for these jobs alone, a job without one for every job of the earlier    *)
(* stages; jobs that wait for nothing run concurrently.  Approvals and     *)
(* contour completions are manual: somebody has to play them.  A job may   *)
(* fail and be retried.                                                    *)
(***************************************************************************)
EXTENDS ChangeSelection

CONSTANTS
  Changes,        \* the sets of paths a merge request may touch
  Moved,          \* those its target branch may have changed in the meantime
  ManualApply,    \* openstack.manual_apply
  MaxFailures     \* jobs that fail (bounds the behaviours)

ASSUME PathAssumption ==
  Changes \subseteq SUBSET Path /\ Moved \subseteq Path /\ ManualApply \in BOOLEAN
ASSUME MaxFailuresAssumption == MaxFailures \in Nat

VARIABLES
  terraform,   \* services whose Terraform root the change affects
  configure,   \* services whose playbook the change affects
  phases,      \* platform phases it affects
  routes,      \* whether it edits Traefik's routes
  concerned,   \* services the merge request itself concerns
  status,      \* GitLab: the status of every job of the pipeline
  failures     \* jobs that failed so far

change == <<terraform, configure, phases, routes, concerned>>
vars   == <<change, status, failures>>

-----------------------------------------------------------------------------
(* build_jobs: the jobs a change selects. *)

Job(kind, s, at) == [kind |-> kind, service |-> s, at |-> at]
Of(kind)         == Job(kind, Nobody, Nowhere)

Changed == terraform \cup configure

At(s)         == IF Targets[s] = {} THEN {Nowhere} ELSE Targets[s]
ContoursOf(s) == {t[2] : t \in Targets[s]}

TargetKinds(s) ==
  {k \in {"plan", "approve", "apply", "configure", "dns"} :
    /\ k \in {"plan", "apply"}    => s \in terraform
    /\ k \in {"configure", "dns"} => s \in configure
    /\ k = "dns"                  => Dns[s] # "none"}

HaSynced(s) == s \in ActivePassive \cap configure /\ Cardinality(ContoursOf(s)) > 1

ServiceJobs(s) ==
  {Job("validate", s, Nowhere)}
    \cup {Job(k, s, t) : k \in TargetKinds(s), t \in At(s)}
    \cup {Job("complete", s, c) : c \in ContoursOf(s)}
    \cup {Job("ha-sync", s, Nowhere) : x \in {y \in {s} : HaSynced(y)}}

PowerDnsKinds == {"preview-zones", "approve-zones", "apply-zones"}
TraefikKinds  == {"validate-routes", "preview-routes", "approve-routes",
                  "apply-routes"}

Jobs ==
  (UNION {ServiceJobs(s) : s \in Changed})
    \cup {Of(p) : p \in phases}
    \cup {Of(k) : k \in {x \in PowerDnsKinds : PowerDns \in configure}}
    \cup {Of(k) : k \in {x \in TraefikKinds : Changed # {} \/ routes}}

-----------------------------------------------------------------------------
(* render_pipeline: the stages. *)

Place(x, seq) == CHOOSE i \in DOMAIN seq : seq[i] = x

TargetStages == <<"plan", "approve", "apply", "configure">>
PostStages   == <<"ha-sync", "preview-zones", "approve-zones", "apply-zones",
                  "preview-routes", "approve-routes", "apply-routes", "dns">>

ContourIn(j) == IF j.kind = "complete" THEN j.at ELSE j.at[2]

InTargetStage(j) == j.kind \in {"plan", "approve", "apply", "configure", "complete"}
                      \/ (j.kind = "dns" /\ Dns[j.service] # "ingress")

StageKind(j) == IF j.kind \in {"dns", "complete"} THEN "configure" ELSE j.kind

\* stage groups: 0 validate, 1 platform, 2 services deployed at once, then one
\* group per contour, then the post-contour stages
StageGroup(j) ==
  CASE j.kind \in {"validate", "validate-routes"}  -> 0
    [] j.kind \in Phase                            -> 1
    [] InTargetStage(j) /\ j.at = Nowhere          -> 2
    [] InTargetStage(j) /\ j.at # Nowhere          -> 2 + Place(ContourIn(j), Contours)
    [] OTHER                                       -> 3 + Len(Contours)

StageInGroup(j) ==
  CASE StageGroup(j) = 0 -> 1
    [] StageGroup(j) = 1 -> Place(j.kind, Phases)
    [] InTargetStage(j)  -> Place(StageKind(j), TargetStages)
    [] OTHER             -> Place(j.kind, PostStages)

EarlierStage(i, j) ==
  \/ StageGroup(i) < StageGroup(j)
  \/ StageGroup(i) = StageGroup(j) /\ StageInGroup(i) < StageInGroup(j)

-----------------------------------------------------------------------------
(* build_jobs and the job templates: the needs. *)

\* mutant: the first contour of the list instead of the last
FirstOf(S) == CHOOSE c \in S : \A d \in S : Place(c, Contours) <= Place(d, Contours)

Last(S) == CHOOSE c \in S : \A d \in S : Place(d, Contours) <= Place(c, Contours)
Before(s, c) == {d \in ContoursOf(s) : Place(d, Contours) < Place(c, Contours)}

\* mutant: services wait for the first platform job
SmokeIsFirst == {Of(p) : p \in phases \cap {"validate-platform"}}

Smoke == {Of(p) : p \in phases \cap {"smoke"}}

PreviousPhase(p) ==
  {Of(q) : q \in {q \in phases :
     /\ Place(q, Phases) < Place(p, Phases)
     /\ \A r \in phases : Place(r, Phases) < Place(p, Phases)
                                    => Place(r, Phases) <= Place(q, Phases)}}

PreviousContour(s, t) ==
  IF t = Nowhere \/ Before(s, t[2]) = {} THEN {}
  ELSE {Job("complete", s, Last(Before(s, t[2])))}

\* mutant: completion waits for the apply when there is one
CompletionApplied(s) == IF s \in terraform THEN "apply" ELSE "configure"

\* mutant: completion waits for the DNS record of an ingress service too
CompletionDns(s) ==
  CASE s \in configure /\ Dns[s] # "none" -> "dns"
    [] s \in configure /\ Dns[s] = "none" -> "configure"
    [] OTHER                              -> "apply"

\* the job that ends the rollout of one target
CompletionKind(s) ==
  CASE s \in configure /\ Dns[s] = "direct" -> "dns"
    [] s \in configure /\ Dns[s] # "direct" -> "configure"
    [] OTHER                                -> "apply"

\* mutant: the apply jobs are preferred to the configure jobs
RolledOutApplied(s) == IF s \in terraform THEN "apply" ELSE "configure"

\* the job of a target Traefik's preview waits for
RolledOutKind(s) ==
  CASE s \in configure                    -> "configure"
    [] s \in terraform \ configure        -> "apply"
    [] OTHER                              -> "approve"

Needs(j) ==
  LET s == j.service
      Own(kinds) == {Job(k, s, j.at) : k \in kinds \cap TargetKinds(s)}
  IN CASE j.kind = "plan"      -> Smoke \cup PreviousContour(s, j.at)
       [] j.kind = "approve"   -> Smoke \cup Own({"plan"})
       [] j.kind = "apply"     -> Smoke \cup Own({"plan", "approve"})
       [] j.kind = "configure" -> Smoke \cup Own(IF s \in terraform THEN {"apply"}
                                                                    ELSE {"approve"})
       [] j.kind = "dns"       -> IF Dns[s] = "ingress" THEN {Of("apply-routes")}
                                                        ELSE Own({"configure"})
       [] j.kind = "complete"  -> {Job(CompletionKind(s), s, t) :
                                     t \in {t \in Targets[s] : t[2] = j.at}}
       [] j.kind = "ha-sync"   -> {Job("complete", s, Last(ContoursOf(s)))}
       [] j.kind = "preview-zones"  -> {Job("configure", PowerDns, t) : t \in At(PowerDns)}
       [] j.kind = "approve-zones"  -> {Of("preview-zones")}
       [] j.kind = "apply-zones"    -> {Of("approve-zones")}
       [] j.kind = "preview-routes" -> UNION {{Job(RolledOutKind(x), x, t) : t \in At(x)} :
                                                x \in Changed}
       [] j.kind = "approve-routes" -> {Of("preview-routes")}
       [] j.kind = "apply-routes"   -> {Of("approve-routes")}
       [] j.kind \in Phase          -> PreviousPhase(j.kind)
       [] OTHER                     -> {}

\* mutant: the approval always renders its "needs" key
NoNeedsKeyExceptApproval(j) ==
  j.kind \notin {"preview-routes", "approve"} /\ Needs(j) = {}

\* whether the template leaves the "needs" key out; the preview of the routes
\* renders an empty list instead
NoNeedsKey(j) == j.kind # "preview-routes" /\ Needs(j) = {}

Manual(j) ==
  \/ j.kind \in {"approve", "complete", "approve-zones", "approve-routes"}
  \/ ManualApply /\ j.kind \in {"host-apply", "kolla-deploy", "foundation-apply"}

-----------------------------------------------------------------------------
(* GitLab runs the pipeline. *)

Status == {"waiting", "running", "success", "failed"}

\* the jobs GitLab created from the rendered file
Created   == DOMAIN status
Succeeded == {j \in Created : status[j] = "success"}

TypeOK ==
  /\ terraform \subseteq Terraformed
  /\ configure \subseteq Playbook /\ terraform \cap Playbook \subseteq configure
  /\ phases \subseteq Phase /\ routes \in BOOLEAN
  /\ concerned \subseteq Service
  /\ status \in [Jobs -> Status]
  /\ failures \in 0..MaxFailures

\* a playbook runs a role when a chain of roles that name each other leads there
Runs(s, r) ==
  \E n \in 1..Cardinality(Role) : \E chain \in [1..n -> Role] :
    /\ chain[1] \in PlaybookRoles[s] /\ chain[n] = r
    /\ \A i \in 1..(n - 1) : chain[i + 1] \in RoleNeeds[chain[i]]

\* whether an edit of a path calls for a run of a service's playbook
ConcernsPlaybook(f, s) ==
  \/ f.of = s /\ f.in \in {"ansible", "config", "other", "host_vars"}
  \/ f.in = "role" /\ Runs(s, f.of)
  \/ f.in = "task" /\ f.of \in SharedUses[s]
  \/ f.in = "inventory"

\* or of its Terraform root
ConcernsTerraform(f, s) ==
  \/ f.of = s /\ f.in \in {"terraform", "config"}
  \/ f.in = "module" /\ f.of \in SharedUses[s]
  \/ f.in = "platform.yaml"

Concerns(f, s) ==
  \/ s \in Playbook /\ ConcernsPlaybook(f, s)
  \/ s \in Terraformed /\ ConcernsTerraform(f, s)
  \/ /\ s \in RolledOut \cap (Terraformed \cup Playbook)
     /\ f.in \in {"platform.yaml", "environments"}

\* GitLab compares the two commits its variables name
Init ==
  \E files \in Changes, moved \in SUBSET Moved, v \in Variables :
    LET seen == ChangedFiles(v, files, moved)
    IN /\ terraform = {s \in Service : TerraformNeeded(s, seen)}
       /\ configure = {s \in Service : ConfigureNeeded(s, seen)}
       /\ phases = PlatformJobsOf(seen)
       /\ routes = RoutesOf(seen)
       /\ concerned = {s \in Service : \E f \in files : Concerns(f, s)}
       /\ status = [j \in Jobs |-> "waiting"]
       /\ failures = 0

Unblocked(j) ==
  IF NoNeedsKey(j)
  THEN \A i \in Created \ Succeeded : ~EarlierStage(i, j)
  ELSE Needs(j) \subseteq Succeeded

Becomes(j, st) == status' = [status EXCEPT ![j] = st]

\* a runner picks the job up
Start(j) ==
  /\ status[j] = "waiting" /\ ~Manual(j) /\ Unblocked(j)
  /\ Becomes(j, "running")
  /\ UNCHANGED <<change, failures>>

\* somebody plays a manual job
Play(j) ==
  /\ status[j] = "waiting" /\ Manual(j) /\ Unblocked(j)
  /\ Becomes(j, "running")
  /\ UNCHANGED <<change, failures>>

Finish(j) ==
  /\ status[j] = "running"
  /\ Becomes(j, "success")
  /\ UNCHANGED <<change, failures>>

Fail(j) ==
  /\ status[j] = "running" /\ failures < MaxFailures
  /\ Becomes(j, "failed")
  /\ failures' = failures + 1
  /\ UNCHANGED change

Retry(j) ==
  /\ status[j] = "failed"
  /\ Becomes(j, "running")
  /\ UNCHANGED <<change, failures>>

Next == \E j \in Created : Start(j) \/ Play(j) \/ Finish(j) \/ Fail(j) \/ Retry(j)

Spec == Init /\ [][Next]_vars

\* runners are available, somebody plays what waits for a person, and somebody
\* retries what failed
Fairness == WF_vars(Next)

FairSpec == Spec /\ Fairness

-----------------------------------------------------------------------------
(* Properties. *)

\* A merge request deploys the services its own changes concern and no others:
\* not those its target branch has changed in the meantime, whichever commits
\* this version of GitLab names, and also those that run a changed role through
\* other roles.  A service that is not managed is left alone unless an operator
\* names it.
DeploysItsOwnChange ==
  Changed = (concerned \ Unmanaged) \cup (Forced \cap (Terraformed \cup Playbook))

Started(j) == status[j] # "waiting"
Done(j)    == status[j] = "success"

Changing == {"apply", "configure"}   \* the jobs that change machines

\* A by_contour service is rolled out in contour order: no machine of a contour
\* is changed before every target of every earlier contour has been applied and
\* configured and the completion of that contour has been confirmed.
ContoursInOrder ==
  \A j \in Created : (j.kind \in Changing /\ j.at # Nowhere /\ Started(j)) =>
    \A i \in ServiceJobs(j.service) :
      (/\ i.kind \in Changing \cup {"complete"}
       /\ Place(ContourIn(i), Contours) < Place(j.at[2], Contours)) => Done(i)

\* The HA resynchronisation of an active-passive service, which reconfigures all
\* its nodes at once, starts only after the rollout of every contour.
SyncsAfterRollout ==
  \A j \in Created : (j.kind = "ha-sync" /\ Started(j)) =>
    \A i \in ServiceJobs(j.service) : i.kind \in Changing \cup {"complete"} => Done(i)

\* The routes are switched, and the records of ingress services published, only
\* when every service of the change runs its new version everywhere.
RoutesAfterServices ==
  \A j \in Created :
    ((j.kind = "apply-routes" \/ (j.kind = "dns" /\ Dns[j.service] = "ingress"))
       /\ Started(j))
      => \A i \in Created : i.kind \in Changing => Done(i)

\* A change of platform and services reaches no service, its zones or its HA
\* synchronisation before the platform has passed all its phases.
PlatformFirst ==
  \A j \in Created :
    (j.kind \in Changing \cup {"dns", "ha-sync", "apply-zones"} /\ Started(j))
      => \A p \in phases : Done(Of(p))

\* A change of services touches nothing, machines, platform, zones or routes,
\* before every validation of the pipeline has passed.
ValidatedFirst ==
  \A j \in Created :
    (/\ Changed # {} /\ Started(j)
     /\ j.kind \in Changing \cup {"dns", "ha-sync", "apply-zones", "apply-routes",
                                 "host-apply", "kolla-deploy", "foundation-apply"})
      => \A i \in Created : i.kind \in {"validate", "validate-routes"} => Done(i)

\* No pipeline the generator emits is stuck: whatever the change selects, every
\* job can run and, with somebody to approve and retry, all succeed.
Completes == <>(\A j \in Created : Done(j))
=============================================================================
