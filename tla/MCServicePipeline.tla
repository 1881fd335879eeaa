------------------------- MODULE MCServicePipeline -------------------------
(***************************************************************************)
(* Instances of ServicePipeline: an active-passive service behind the      *)
(* ingress that is rolled out by contour, and the DNS service, which       *)
(* publishes its own record.  The third service is not managed.            *)
(***************************************************************************)
EXTENDS ServicePipeline, TLC

CONSTANTS forgejo, dns, old, c1, c2, A, B, base, app, unused

Services     == {forgejo, dns, old}
JustOld      == {old}
JustForgejo  == {forgejo}
NoService    == {}
NoShared     == {}
TwoContours  == <<A, B>>

\* two clusters in the first contour, one in the second; the other service at once
RolloutTwo == (forgejo :> {<<c1, A>>, <<c2, A>>, <<c1, B>>}) @@ (dns :> {}) @@ (old :> {})
\* one cluster with both contours; the other service in the first contour only
RolloutOne == (forgejo :> {<<c1, A>>, <<c1, B>>}) @@ (dns :> {<<c1, A>>}) @@ (old :> {})

IngressAndDirect == (forgejo :> "ingress") @@ (dns :> "direct") @@ (old :> "none")

\* two playbooks name app, which needs base
Roles       == {base, app, unused}
RolesNamed  == (forgejo :> {app}) @@ (dns :> {}) @@ (old :> {app})
RolesNeeded == (app :> {base}) @@ (base :> {}) @@ (unused :> {})
UsesNothing == (forgejo :> {}) @@ (dns :> {}) @@ (old :> {})

\* edits that select the combinations of Terraform, playbook and route jobs,
\* alone and with phases of the platform
Some == {In("terraform", forgejo), In("role", base), In("role", unused),
         In("route", forgejo), In("ansible", dns)}
ServiceEdits  == SUBSET Some
PlatformEdits == {{In("kolla", Nobody), In("foundation", Nobody)} \cup F :
                    F \in SUBSET {In("config", forgejo), In("ansible", dns)}}
AnyEdits      == ServiceEdits \cup PlatformEdits
OrderEdits    == {{In("ansible", forgejo), In("kolla", Nobody)}}
MovedOn    == {In("ansible", dns)}
=============================================================================
