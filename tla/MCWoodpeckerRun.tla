--------------------------- MODULE MCWoodpeckerRun ---------------------------
(***************************************************************************)
(* Instances of WoodpeckerRun: a service with two clusters in the first    *)
(* contour and one of them in the second, the ingress and the identity     *)
(* service at once, and two pipelines of a commit that edits the service   *)
(* and the platform.                                                       *)
(***************************************************************************)
EXTENDS WoodpeckerRun, TLC

CONSTANTS forgejo, traefik, freeipa, c1, c2, A, B, p, q, network, compute

Services    == {forgejo, traefik, freeipa}
JustForgejo == {forgejo}
NoService   == {}
NoRole      == {}
TwoContours == <<A, B>>
ForgejoOnly == (forgejo :> {<<c1, A>>, <<c2, A>>, <<c1, B>>}) @@ (traefik :> {}) @@ (freeipa :> {})
Ingress     == (forgejo :> "ingress") @@ (traefik :> "none") @@ (freeipa :> "none")
NoRoles     == [s \in Services |-> {}]
NoNeeds     == <<>>

Parts   == <<network, compute>>
Edit    == {In("config", forgejo), In("kolla", Nobody), In("foundation", Nobody)}
TargetA == <<forgejo, c1, A>>
TargetB == <<forgejo, c1, B>>

Hook(event, target, files) ==
  [event |-> event, branch |-> Protected, task |-> "apply", target |-> target,
   files |-> files, credentials |-> TRUE, allowed |-> TRUE]

\* the request is of two commits: the other one edits the identity service
Requested == Hook("pull_request", Nowhere, Edit \cup {In("config", freeipa)})
DeployedA == Hook("deployment", TargetA, Unknown)
DeployedB == Hook("deployment", TargetB, Unknown)
Pushed    == Hook("push", Nowhere, Edit)

\* what is refused: another branch or task, a target that is not affected, no
\* signature, a repository that is not on the list
Bad == {[DeployedA EXCEPT !.branch = "topic"], [DeployedB EXCEPT !.credentials = FALSE],
        [Requested EXCEPT !.allowed = FALSE]}

AllHooks == {Requested, DeployedA, DeployedB, Pushed, Hook("push", Nowhere, Unknown)} \cup Bad
Pushes   == {Pushed}
Requests == {Requested}

Pipelines   == {p, q}
=============================================================================
