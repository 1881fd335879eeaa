------------------------ MODULE ServicePipeline_proofs ------------------------
(***************************************************************************)
(* Proofs about the order in which GitLab runs the jobs of a pipeline, for *)
(* any services, targets, contours and changes.                            *)
(*                                                                         *)
(* A job that succeeded stays so, and a job starts only when it is not     *)
(* blocked: so what the needs of a job say of those before it, the         *)
(* invariants carry over from one job to the next.                         *)
(*                                                                         *)
(* What the pipeline deploys is settled when it is rendered: the services  *)
(* selected are those the edited paths concern, for the index finds every  *)
(* role a chain of roles leads to within as many rounds as there are roles.*)
(***************************************************************************)
EXTENDS ServicePipeline, NaturalLemmas, FiniteSetTheorems, TLAPS

-----------------------------------------------------------------------------
(* Types. *)

LEMMA PhaseNames ==
  Phase = {"validate-platform", "host-preflight", "host-apply", "kolla-prechecks",
           "kolla-deploy", "foundation-plan", "foundation-apply", "smoke"}
<1>1. DOMAIN Phases = 1..8
  BY DEF Phases
<1>2. Phase = {Phases[1], Phases[2], Phases[3], Phases[4], Phases[5], Phases[6], Phases[7],
               Phases[8]}
  BY <1>1 DEF Phase
<1>. QED
  BY <1>2 DEF Phases

\* A change of the platform ends with the smoke test.
SmokeLast == phases # {} => "smoke" \in phases

LEMMA PhasesSelected ==
  ASSUME NEW files
  PROVE  /\ PlatformJobsOf(files) \subseteq Phase
         /\ PlatformJobsOf(files) # {} => "smoke" \in PlatformJobsOf(files)
<1>1. \A k : AreaPhases(k) \subseteq Phase
  BY PhaseNames DEF AreaPhases
<1>2. UNION {AreaPhases(f.in) : f \in files} \subseteq Phase
  BY <1>1
<1>. QED
  BY <1>2, PhaseNames DEF PlatformJobsOf, PhasesOf

TypeInv == TypeOK /\ SmokeLast

\* The change a pipeline was rendered for stays as it is, and what follows from it.
LEMMA Fixed ==
  ASSUME UNCHANGED change
  PROVE  /\ Changed' = Changed /\ Jobs' = Jobs
         /\ \A s : ServiceJobs(s)' = ServiceJobs(s)
         /\ \A j : /\ Needs(j)' = Needs(j)
                   /\ NoNeedsKey(j)' <=> NoNeedsKey(j)
                   /\ Manual(j)' <=> Manual(j)
<1>1. \A s : TargetKinds(s)' = TargetKinds(s) /\ (HaSynced(s)' <=> HaSynced(s))
  BY DEF change, TargetKinds, HaSynced
<1>2. Changed' = Changed /\ \A s : ServiceJobs(s)' = ServiceJobs(s)
  BY <1>1 DEF change, Changed, ServiceJobs
<1>3. Jobs' = Jobs
  BY <1>2 DEF Jobs, change
<1>4. \A p : PreviousPhase(p)' = PreviousPhase(p)
  BY DEF PreviousPhase, change
<1>5. \A s : CompletionKind(s)' = CompletionKind(s) /\ RolledOutKind(s)' = RolledOutKind(s)
  BY DEF CompletionKind, RolledOutKind, change
<1>6. Smoke' = Smoke
  BY DEF Smoke, change
<1>7. \A j : Needs(j)' = Needs(j)
  BY <1>1, <1>2, <1>4, <1>5, <1>6 DEF Needs, change
<1>. QED
  BY <1>2, <1>3, <1>7 DEF NoNeedsKey, Manual

\* A step starts a job that is not blocked, or ends or repeats one that was started.
LEMMA Progress ==
  ASSUME TypeInv, [Next]_vars
  PROVE  /\ UNCHANGED change /\ Created' = Created
         /\ \A j \in Created : /\ Done(j) => Done(j)'
                               /\ Started(j)' => Started(j) \/ Unblocked(j)
<1>1. status \in [Created -> Status]
  BY DEF TypeInv, TypeOK, Created
<1>2. ASSUME NEW j \in Created, NEW st \in {"running", "success", "failed"}, Becomes(j, st),
             UNCHANGED change, status[j] # "success", Started(j) \/ Unblocked(j)
      PROVE  /\ UNCHANGED change /\ Created' = Created
             /\ \A i \in Created : /\ Done(i) => Done(i)'
                                   /\ Started(i)' => Started(i) \/ Unblocked(i)
  BY <1>1, <1>2 DEF Becomes, Created, Done, Started
<1>3. CASE UNCHANGED vars
  BY <1>3 DEF vars, change, Created, Done, Started
<1>4. ASSUME NEW j \in Created, Start(j) \/ Play(j)
      PROVE  Becomes(j, "running") /\ UNCHANGED change /\ status[j] # "success" /\ Unblocked(j)
  BY <1>4 DEF Start, Play, change
<1>5. ASSUME NEW j \in Created, Finish(j) \/ Fail(j) \/ Retry(j)
      PROVE  /\ UNCHANGED change /\ status[j] # "success" /\ Started(j)
             /\ \E st \in {"running", "success", "failed"} : Becomes(j, st)
  BY <1>5 DEF Finish, Fail, Retry, Started, change
<1>6. CASE Next
  BY <1>2, <1>4, <1>5, <1>6 DEF Next
<1>. QED
  BY <1>3, <1>6

LEMMA TypeStep == TypeInv /\ [Next]_vars => TypeInv'
<1> SUFFICES ASSUME TypeInv, [Next]_vars PROVE TypeInv'
  OBVIOUS
<1>1. UNCHANGED change /\ Jobs' = Jobs
  BY Progress, Fixed
<1>2. status \in [Created -> Status] /\ Created = Jobs /\ failures \in 0..MaxFailures
  BY DEF TypeInv, TypeOK, Created
<1>3. status' \in [Jobs -> Status] /\ failures' \in 0..MaxFailures
  <2>1. CASE UNCHANGED vars
    BY <1>2, <2>1 DEF vars
  <2>2. CASE Next
    BY <1>2, <2>2, MaxFailuresAssumption
       DEF Next, Start, Play, Finish, Fail, Retry, Becomes, Status
  <2>. QED
    BY <2>1, <2>2
<1>. QED
  BY <1>1, <1>3 DEF TypeInv, TypeOK, SmokeLast, change

LEMMA Typed == Spec => []TypeInv
<1>1. ASSUME Init PROVE TypeInv
  <2>1. PICK files \in Changes, moved \in SUBSET Moved, v \in Variables :
          LET seen == ChangedFiles(v, files, moved)
          IN /\ terraform = {s \in Service : TerraformNeeded(s, seen)}
             /\ configure = {s \in Service : ConfigureNeeded(s, seen)}
             /\ phases = PlatformJobsOf(seen)
             /\ routes = RoutesOf(seen)
             /\ concerned = {s \in Service : \E f \in files : Concerns(f, s)}
             /\ status = [j \in Jobs |-> "waiting"]
             /\ failures = 0
    BY <1>1 DEF Init
  <2> DEFINE seen == ChangedFiles(v, files, moved)
  <2>2. terraform \subseteq Terraformed
    BY <2>1 DEF TerraformNeeded
  <2>3. configure \subseteq Playbook /\ terraform \cap Playbook \subseteq configure
    BY <2>1 DEF ConfigureNeeded, TerraformNeeded
  <2>4. phases \subseteq Phase /\ SmokeLast
    BY <2>1, PhasesSelected DEF SmokeLast
  <2>5. routes \in BOOLEAN
    BY <2>1 DEF RoutesOf
  <2>6. concerned \subseteq Service
    BY <2>1
  <2>7. status \in [Jobs -> Status] /\ failures \in 0..MaxFailures
    BY <2>1, MaxFailuresAssumption DEF Status
  <2>. QED
    BY <2>2, <2>3, <2>4, <2>5, <2>6, <2>7 DEF TypeInv, TypeOK
<1>. QED
  BY <1>1, TypeStep, PTL DEF Spec

\* The jobs of every reachable pipeline have a status, and no others.
THEOREM TypeCorrect == Spec => []TypeOK
<1>1. TypeInv => TypeOK
  BY DEF TypeInv
<1>. QED
  BY <1>1, Typed, PTL
-----------------------------------------------------------------------------
(* The jobs and their needs. *)

TargetJob == {"plan", "approve", "apply", "configure", "dns"}

\* The jobs of a changed service.
LEMMA ServiceShapes ==
  ASSUME NEW s, NEW j \in ServiceJobs(s)
  PROVE  /\ j.service = s
         /\ \/ j.kind = "validate"
            \/ /\ j.kind \in TargetJob /\ j.kind \in TargetKinds(s) /\ j.at \in At(s)
               /\ j = Job(j.kind, s, j.at)
            \/ j.kind = "complete" /\ j.at \in ContoursOf(s) /\ j = Job("complete", s, j.at)
            \/ j.kind = "ha-sync" /\ HaSynced(s) /\ j = Job("ha-sync", s, Nowhere)
<1> USE DEF Job
<1>1. CASE j = Job("validate", s, Nowhere)
  <2>. QED
    BY <1>1
<1>2. ASSUME NEW k \in TargetKinds(s), NEW t \in At(s), j = Job(k, s, t)
      PROVE  j.service = s /\ j.kind = k /\ k \in TargetJob /\ j.at = t
  BY <1>2 DEF TargetKinds, TargetJob
<1>3. CASE \E c \in ContoursOf(s) : j = Job("complete", s, c)
  BY <1>3
<1>4. CASE HaSynced(s) /\ j = Job("ha-sync", s, Nowhere)
  BY <1>4
<1>5. \/ j = Job("validate", s, Nowhere)
      \/ \E k \in TargetKinds(s), t \in At(s) : j = Job(k, s, t)
      \/ \E c \in ContoursOf(s) : j = Job("complete", s, c)
      \/ HaSynced(s) /\ j = Job("ha-sync", s, Nowhere)
  <2> HIDE DEF Job
  <2>. QED
    BY DEF ServiceJobs
<1>. QED
  BY <1>1, <1>2, <1>3, <1>4, <1>5

\* Every job belongs to a changed service, the platform, the zones or the routes.
LEMMA Shapes ==
  ASSUME TypeInv, NEW j \in Jobs
  PROVE  LET s == j.service IN
         /\ j.kind \in TargetJob => /\ s \in Changed /\ j.kind \in TargetKinds(s)
                                    /\ j.at \in At(s) /\ j = Job(j.kind, s, j.at)
         /\ j.kind = "complete" => /\ s \in Changed /\ j.at \in ContoursOf(s)
                                   /\ j = Job("complete", s, j.at)
         /\ j.kind = "ha-sync"  => /\ s \in Changed /\ HaSynced(s)
                                   /\ j = Job("ha-sync", s, Nowhere)
         /\ j.kind \in PowerDnsKinds => PowerDns \in configure /\ j = Of(j.kind)
         /\ j.kind \in TraefikKinds => j = Of(j.kind)
         /\ j.kind \in Phase => j.kind \in phases /\ j = Of(j.kind)
         /\ \/ j.kind \in TargetJob \cup PowerDnsKinds \cup TraefikKinds \cup Phase
            \/ j.kind \in {"validate", "complete", "ha-sync"}
<1> USE PhaseNames DEF Job, Of, TargetJob, PowerDnsKinds, TraefikKinds
<1>2. CASE \E s \in Changed : j \in ServiceJobs(s)
  BY <1>2, ServiceShapes
<1>3. ASSUME NEW p \in phases, j = Of(p) PROVE j.kind \in Phase /\ j.kind \in phases
  BY <1>3 DEF TypeInv, TypeOK
<1>4. ASSUME NEW k \in PowerDnsKinds, PowerDns \in configure, j = Of(k)
      PROVE  j.kind \in PowerDnsKinds /\ j = Of(j.kind)
  BY <1>4
<1>5. ASSUME NEW k \in TraefikKinds, j = Of(k) PROVE j.kind \in TraefikKinds /\ j = Of(j.kind)
  BY <1>5
<1>6. \/ \E s \in Changed : j \in ServiceJobs(s)
      \/ \E p \in phases : j = Of(p)
      \/ \E k \in PowerDnsKinds : PowerDns \in configure /\ j = Of(k)
      \/ \E k \in TraefikKinds : j = Of(k)
  BY DEF Jobs
<1>. QED
  BY <1>2, <1>3, <1>4, <1>5, <1>6

\* What the jobs of a target need.
LEMMA TargetNeeds ==
  ASSUME NEW s, NEW t
  PROVE  LET own(k) == {Job(x, s, t) : x \in {k} \cap TargetKinds(s)} IN
         /\ Needs(Job("plan", s, t)) = Smoke \cup PreviousContour(s, t)
         /\ Needs(Job("approve", s, t)) = Smoke \cup own("plan")
         /\ Needs(Job("apply", s, t)) = Smoke \cup own("plan") \cup own("approve")
         /\ Needs(Job("configure", s, t))
              = Smoke \cup (IF s \in terraform THEN own("apply") ELSE own("approve"))
         /\ Needs(Job("dns", s, t))
              = IF Dns[s] = "ingress" THEN {Of("apply-routes")} ELSE own("configure")
         /\ Needs(Job("complete", s, t)) = {Job(CompletionKind(s), s, u) : u \in {u \in Targets[s] : u[2] = t}}
         /\ Needs(Job("ha-sync", s, t)) = {Job("complete", s, Last(ContoursOf(s)))}
<1> DEFINE own(k) == {Job(x, s, t) : x \in {k} \cap TargetKinds(s)}
<1> USE PhaseNames DEF Job, Of, Needs
<1>1. Needs(Job("plan", s, t)) = Smoke \cup PreviousContour(s, t)
  OBVIOUS
<1>2. Needs(Job("approve", s, t))
        = Smoke \cup own("plan")
  OBVIOUS
<1>3. Needs(Job("apply", s, t))
        = Smoke \cup own("plan")
            \cup own("approve")
  OBVIOUS
<1>4. Needs(Job("configure", s, t))
        = Smoke \cup (IF s \in terraform
                        THEN own("apply")
                        ELSE own("approve"))
  OBVIOUS
<1>5. Needs(Job("dns", s, t))
        = IF Dns[s] = "ingress" THEN {Of("apply-routes")}
          ELSE own("configure")
  OBVIOUS
<1>6. Needs(Job("complete", s, t))
        = {Job(CompletionKind(s), s, u) : u \in {u \in Targets[s] : u[2] = t}}
  OBVIOUS
<1>7. Needs(Job("ha-sync", s, t)) = {Job("complete", s, Last(ContoursOf(s)))}
  OBVIOUS
<1>. QED
  BY <1>1, <1>2, <1>3, <1>4, <1>5, <1>6, <1>7

\* What the jobs of the zones, the routes and the platform need.
LEMMA OtherNeeds ==
  /\ Needs(Of("preview-zones")) = {Job("configure", PowerDns, t) : t \in At(PowerDns)}
  /\ Needs(Of("approve-zones")) = {Of("preview-zones")}
  /\ Needs(Of("apply-zones")) = {Of("approve-zones")}
  /\ Needs(Of("preview-routes"))
       = UNION {{Job(RolledOutKind(x), x, t) : t \in At(x)} : x \in Changed}
  /\ Needs(Of("approve-routes")) = {Of("preview-routes")}
  /\ Needs(Of("apply-routes")) = {Of("approve-routes")}
  /\ \A p \in Phase : Needs(Of(p)) = PreviousPhase(p)
<1> USE PhaseNames DEF Job, Of, Needs
<1>1. /\ Needs(Of("preview-zones")) = {Job("configure", PowerDns, t) : t \in At(PowerDns)}
      /\ Needs(Of("approve-zones")) = {Of("preview-zones")}
      /\ Needs(Of("apply-zones")) = {Of("approve-zones")}
  OBVIOUS
<1>2. Needs(Of("preview-routes"))
        = UNION {{Job(RolledOutKind(x), x, t) : t \in At(x)} : x \in Changed}
  OBVIOUS
<1>3. /\ Needs(Of("approve-routes")) = {Of("preview-routes")}
      /\ Needs(Of("apply-routes")) = {Of("approve-routes")}
  OBVIOUS
<1>4. \A p \in Phase : Needs(Of(p)) = PreviousPhase(p)
  OBVIOUS
<1>. QED
  BY <1>1, <1>2, <1>3, <1>4

-----------------------------------------------------------------------------
(* What a job waited for. *)

\* A job that has started was not blocked and would not be now.
NeedsInv == \A j \in Created : Started(j) => Unblocked(j)

LEMMA NeedsStep == TypeInv /\ NeedsInv /\ [Next]_vars => NeedsInv'
<1> SUFFICES ASSUME TypeInv, NeedsInv, [Next]_vars, NEW j \in Created, Started(j)'
             PROVE  Unblocked(j)'
  BY Progress DEF NeedsInv
<1>1. Unblocked(j)
  BY Progress DEF NeedsInv
<1>2. Succeeded \subseteq Succeeded' /\ Created' = Created
  BY Progress DEF Succeeded, Done
<1>3. Needs(j)' = Needs(j) /\ (NoNeedsKey(j)' <=> NoNeedsKey(j))
  BY Progress, Fixed
<1>4. \A i : EarlierStage(i, j)' <=> EarlierStage(i, j)
  BY DEF EarlierStage, StageGroup, StageInGroup, InTargetStage, ContourIn, StageKind
<1>. QED
  BY <1>1, <1>2, <1>3, <1>4 DEF Unblocked

LEMMA NeedsAlways == Spec => [](TypeInv /\ NeedsInv)
<1>1. Init => NeedsInv
  BY DEF Init, NeedsInv, Started, Created
<1>. QED
  BY <1>1, NeedsStep, Typed, PTL DEF Spec

\* A job that started has what it needs.
LEMMA NeedsDone ==
  ASSUME NEW j \in Created, Unblocked(j), NEW i \in Needs(j)
  PROVE  i \in Created /\ Done(i) /\ Started(i)
BY DEF Unblocked, NoNeedsKey, Succeeded, Done, Started
-----------------------------------------------------------------------------
(* The platform first. *)

LEMMA PlaceOf ==
  ASSUME NEW seq, NEW x, \E i \in DOMAIN seq : seq[i] = x
  PROVE  Place(x, seq) \in DOMAIN seq /\ seq[Place(x, seq)] = x
BY DEF Place

LEMMA PhasePlace ==
  /\ \A p \in Phase : Place(p, Phases) \in 1..8 /\ Phases[Place(p, Phases)] = p
  /\ \A p \in Phase \ {"smoke"} : Place(p, Phases) < Place("smoke", Phases)
<1>1. \A p \in Phase : Place(p, Phases) \in DOMAIN Phases /\ Phases[Place(p, Phases)] = p
  BY PlaceOf DEF Phase
<1>2. DOMAIN Phases = 1..8
  BY DEF Phases
<1>3. \A i \in 1..8 : Phases[i] = "smoke" <=> i = 8
  BY DEF Phases
<1>4. Place("smoke", Phases) = 8
  BY <1>1, <1>2, <1>3, PhaseNames
<1>. QED
  BY <1>1, <1>2, <1>3, <1>4

\* The phases run in their order.
PhaseInv ==
  \A p, q \in phases :
    Place(q, Phases) < Place(p, Phases) /\ Started(Of(p)) => Done(Of(q))

LEMMA PlatformJobs ==
  ASSUME TypeInv, NEW p \in phases PROVE Of(p) \in Created /\ p \in Phase
<1>1. Of(p) \in {Of(q) : q \in phases}
  OBVIOUS
<1>2. Created = Jobs /\ phases \subseteq Phase
  BY DEF TypeInv, TypeOK, Created
<1>. QED
  BY <1>1, <1>2 DEF Jobs

LEMMA PhaseStep == TypeInv /\ PhaseInv /\ [Next]_vars => PhaseInv'
<1> SUFFICES ASSUME TypeInv, PhaseInv, [Next]_vars, NEW p \in phases, NEW q \in phases,
                    Place(q, Phases) < Place(p, Phases), Started(Of(p))'
             PROVE  Done(Of(q))
  BY Progress, PlatformJobs DEF PhaseInv, change, Of, Job
<1>1. CASE Started(Of(p))
  BY <1>1 DEF PhaseInv
<1>2. CASE Unblocked(Of(p))
  <2> DEFINE S == {Place(r, Phases) : r \in {r \in phases : Place(r, Phases) < Place(p, Phases)}}
  <2>1. phases \subseteq Phase
    BY DEF TypeInv, TypeOK
  <2>2. S \subseteq 1..8 /\ S # {}
    BY <2>1, PhasePlace
  <2>3. PICK m \in S : \A n \in S : n <= m
    BY <2>2, Greatest
  <2>4. PICK r \in phases : Place(r, Phases) = m /\ Place(r, Phases) < Place(p, Phases)
    OBVIOUS
  <2>5. Of(r) \in PreviousPhase(p)
    BY <2>3, <2>4 DEF PreviousPhase
  <2>6. Done(Of(r)) /\ Started(Of(r))
    BY <1>2, <2>1, <2>5, OtherNeeds, NeedsDone, PlatformJobs
  <2>7. Place(q, Phases) <= Place(r, Phases)
    BY <2>3, <2>4
  <2>8. CASE Place(q, Phases) = Place(r, Phases)
    <3>1. q = r
      BY <2>1, <2>8, PhasePlace
    <3>. QED
      BY <2>6, <3>1
  <2>9. CASE Place(q, Phases) < Place(r, Phases)
    BY <2>6, <2>9 DEF PhaseInv
  <2>. QED
    BY <2>1, <2>7, <2>8, <2>9, PhasePlace
<1>. QED
  BY <1>1, <1>2, Progress, PlatformJobs

LEMMA PhaseAlways == Spec => [](TypeInv /\ NeedsInv /\ PhaseInv)
<1>1. Init => PhaseInv
  <2> SUFFICES ASSUME Init, NEW p \in phases PROVE ~Started(Of(p))
    BY DEF PhaseInv
  <2>1. status = [j \in Jobs |-> "waiting"]
    BY DEF Init
  <2>2. Of(p) \in {Of(q) : q \in phases}
    OBVIOUS
  <2>3. Of(p) \in Jobs
    BY <2>2 DEF Jobs
  <2>. QED
    BY <2>1, <2>3 DEF Started
<1>. QED
  BY <1>1, PhaseStep, NeedsAlways, PTL DEF Spec

-----------------------------------------------------------------------------
(* Contours have an order. *)

\* The contours of a service are among those of the platform.
LEMMA ServiceContours ==
  ASSUME NEW s \in Service PROVE ContoursOf(s) \subseteq Contour
BY ContourAssumption DEF ContoursOf

LEMMA ContourPlace ==
  ASSUME NEW c \in Contour
  PROVE  Place(c, Contours) \in 1..Len(Contours) /\ Contours[Place(c, Contours)] = c
<1>1. \E i \in DOMAIN Contours : Contours[i] = c
  BY DEF Contour
<1>2. Place(c, Contours) \in DOMAIN Contours /\ Contours[Place(c, Contours)] = c
  BY <1>1, PlaceOf
<1>. QED
  BY <1>2, ContourAssumption

\* Last(S) is in S, and no contour of S comes after it.
LEMMA LastOf ==
  ASSUME NEW S, S \subseteq Contour, S # {}
  PROVE  Last(S) \in S /\ \A d \in S : Place(d, Contours) <= Place(Last(S), Contours)
<1> DEFINE places == {Place(d, Contours) : d \in S}
<1>1. places \in SUBSET (1..Len(Contours)) /\ places # {} /\ Len(Contours) \in Nat
  BY ContourPlace, ContourAssumption
<1>2. \E m \in places : \A k \in places : k <= m
  <2> HIDE DEF places
  <2>. QED
    BY <1>1, Greatest
<1>3. \E c \in S : \A d \in S : Place(d, Contours) <= Place(c, Contours)
  BY <1>2
<1>. QED
  BY <1>3 DEF Last

LEMMA LastContour ==
  ASSUME NEW s \in Service, ContoursOf(s) # {} PROVE Last(ContoursOf(s)) \in ContoursOf(s)
BY ServiceContours, LastOf

-----------------------------------------------------------------------------
(* Nothing before the platform. *)

PlatformDone == \A p \in phases : Done(Of(p))

\* What starts after the smoke test starts after the whole platform.
LEMMA AfterSmoke ==
  ASSUME TypeInv, PhaseInv, NEW j \in Created, Unblocked(j), Smoke \subseteq Needs(j)
  PROVE  PlatformDone
<1> SUFFICES ASSUME NEW p \in phases PROVE Done(Of(p))
  BY DEF PlatformDone
<1>1. "smoke" \in phases
  BY DEF TypeInv, SmokeLast
<1>2. Done(Of("smoke")) /\ Started(Of("smoke"))
  BY <1>1, NeedsDone DEF Smoke
<1>3. p = "smoke" \/ Place(p, Phases) < Place("smoke", Phases)
  BY PlatformJobs, PhasePlace
<1>. QED
  BY <1>1, <1>2, <1>3 DEF PhaseInv

\* The apply and configure jobs of every target.
LEMMA ChangingAfterPlatform ==
  ASSUME TypeInv, NeedsInv, PhaseInv, NEW j \in Created, j.kind \in Changing, Started(j)
  PROVE  PlatformDone
<1>1. j \in Jobs /\ Unblocked(j)
  BY DEF TypeInv, TypeOK, Created, NeedsInv
<1>2. j = Job(j.kind, j.service, j.at) /\ j.kind \in {"apply", "configure"}
  BY <1>1, Shapes DEF Changing, TargetJob
<1>3. Smoke \subseteq Needs(Job("apply", j.service, j.at))
  BY TargetNeeds
<1>4. Smoke \subseteq Needs(Job("configure", j.service, j.at))
  BY TargetNeeds
<1>. QED
  BY <1>1, <1>2, <1>3, <1>4, AfterSmoke

LEMMA Targeted == \A s : \E t : t \in At(s)
BY DEF At

\* The routes are switched after every target of the change was rolled out.
LEMMA AfterRoutes ==
  ASSUME NeedsInv, Of("apply-routes") \in Created, Started(Of("apply-routes")),
         NEW x \in Changed, NEW t \in At(x)
  PROVE  LET i == Job(RolledOutKind(x), x, t) IN i \in Created /\ Done(i) /\ Started(i)
<1>1. Of("approve-routes") \in Created /\ Started(Of("approve-routes"))
  BY OtherNeeds, NeedsDone DEF NeedsInv
<1>2. Of("preview-routes") \in Created /\ Started(Of("preview-routes"))
  BY <1>1, OtherNeeds, NeedsDone DEF NeedsInv
<1>3. Job(RolledOutKind(x), x, t) \in Needs(Of("preview-routes"))
  BY OtherNeeds
<1>. QED
  BY <1>2, <1>3, NeedsDone DEF NeedsInv

\* No machine, zone, record or resynchronisation is touched before the platform
\* of the same change has passed all its phases.
THEOREM PlatformGoesFirst == Spec => []PlatformFirst
<1>1. ASSUME TypeInv, NeedsInv, PhaseInv, NEW j \in Created, Started(j),
             j.kind \in Changing \cup {"dns", "ha-sync", "apply-zones"}
      PROVE  PlatformDone
  <2>1. j \in Jobs /\ Unblocked(j)
    BY <1>1 DEF TypeInv, TypeOK, Created, NeedsInv
  <2>2. ASSUME NEW i \in Created, i.kind \in Changing, Started(i) PROVE PlatformDone
    BY <1>1, <2>2, ChangingAfterPlatform
  <2>3. ASSUME NEW s, NEW t, Job("configure", s, t) \in Created, Started(Job("configure", s, t))
        PROVE  PlatformDone
    BY <2>2, <2>3 DEF Job, Changing
  <2>4. CASE j.kind = "dns"
    <3>1. /\ j = Job("dns", j.service, j.at) /\ j.service \in configure
          /\ "configure" \in TargetKinds(j.service)
      BY <1>1, <2>1, <2>4, Shapes DEF TargetJob, TargetKinds
    <3>2. CASE Dns[j.service] = "ingress"
      <4>1. Of("apply-routes") \in Needs(j)
        BY <3>1, <3>2, TargetNeeds
      <4>2. Of("apply-routes") \in Created /\ Started(Of("apply-routes"))
        BY <2>1, <4>1, NeedsDone
      <4>3. PICK t : t \in At(j.service)
        BY Targeted
      <4>4. RolledOutKind(j.service) = "configure" /\ j.service \in Changed
        BY <3>1 DEF RolledOutKind, Changed
      <4>. QED
        BY <1>1, <2>3, <4>2, <4>3, <4>4, AfterRoutes
    <3>3. CASE Dns[j.service] # "ingress"
      <4>1. Job("configure", j.service, j.at) \in Needs(j)
        BY <3>1, <3>3, TargetNeeds
      <4>. QED
        BY <2>1, <2>3, <4>1, NeedsDone
    <3>. QED
      BY <3>2, <3>3
  <2>5. CASE j.kind = "ha-sync"
    <3>1. /\ HaSynced(j.service) /\ j.service \in Changed
          /\ j = Job("ha-sync", j.service, Nowhere)
      BY <1>1, <2>1, <2>5, Shapes
    <3>2. Job("complete", j.service, Last(ContoursOf(j.service))) \in Needs(j)
      BY <3>1, TargetNeeds
    <3> DEFINE i == Job("complete", j.service, Last(ContoursOf(j.service)))
    <3>3. i \in Created /\ Started(i) /\ Unblocked(i)
      BY <1>1, <2>1, <3>2, NeedsDone DEF NeedsInv
    <3>4. PICK t \in Targets[j.service] : t[2] = Last(ContoursOf(j.service))
      <4>1. ContoursOf(j.service) # {} /\ j.service \in Service
        BY <3>1, FS_EmptySet, ServiceAssumption DEF HaSynced
      <4>. QED
        BY <4>1, LastContour DEF ContoursOf
    <3>5. Job(CompletionKind(j.service), j.service, t) \in Needs(i)
      BY <3>4, TargetNeeds
    <3>6. Dns[j.service] \in {"none", "direct", "ingress"} /\ j.service \in configure
      BY <3>1, ServiceAssumption DEF HaSynced
    <3>7. CASE CompletionKind(j.service) = "configure"
      BY <3>3, <3>5, <3>7, <2>3, NeedsDone
    <3>8. CASE CompletionKind(j.service) = "dns"
      <4>1. Dns[j.service] = "direct" /\ "configure" \in TargetKinds(j.service)
        BY <3>6, <3>8 DEF CompletionKind, TargetKinds
      <4>2. Job("configure", j.service, t) \in Needs(Job("dns", j.service, t))
        BY <4>1, TargetNeeds
      <4>3. Job("dns", j.service, t) \in Created /\ Unblocked(Job("dns", j.service, t))
        BY <1>1, <3>3, <3>5, <3>8, NeedsDone DEF NeedsInv
      <4>. QED
        BY <4>2, <4>3, <2>3, NeedsDone
    <3>. QED
      BY <3>6, <3>7, <3>8 DEF CompletionKind
  <2>6. CASE j.kind = "apply-zones"
    <3>1. j = Of("apply-zones") /\ PowerDns \in configure
      BY <1>1, <2>1, <2>6, Shapes DEF PowerDnsKinds
    <3>2. Of("approve-zones") \in Created /\ Unblocked(Of("approve-zones"))
      BY <1>1, <2>1, <3>1, OtherNeeds, NeedsDone DEF NeedsInv
    <3>3. Of("preview-zones") \in Created /\ Unblocked(Of("preview-zones"))
      BY <1>1, <3>2, OtherNeeds, NeedsDone DEF NeedsInv
    <3>4. PICK t : t \in At(PowerDns)
      BY Targeted
    <3>5. Job("configure", PowerDns, t) \in Needs(Of("preview-zones"))
      BY <3>4, OtherNeeds
    <3>. QED
      BY <2>3, <3>3, <3>5, NeedsDone
  <2>. QED
    BY <1>1, <2>2, <2>4, <2>5, <2>6
<1>2. TypeInv /\ NeedsInv /\ PhaseInv => PlatformFirst
  BY <1>1 DEF PlatformFirst, PlatformDone
<1>. QED
  BY <1>2, PhaseAlways, PTL

\* The routes, and with them the records of ingress services, follow every
\* rollout of the change.
THEOREM RoutesFollow == Spec => []RoutesAfterServices
<1>1. ASSUME TypeInv, NeedsInv, NEW j \in Created, Started(j), NEW i \in Created,
             i.kind \in Changing,
             j.kind = "apply-routes" \/ (j.kind = "dns" /\ Dns[j.service] = "ingress")
      PROVE  Done(i)
  <2>1. i \in Jobs /\ j \in Jobs /\ Unblocked(j)
    BY <1>1 DEF TypeInv, TypeOK, Created, NeedsInv
  <2>2. Of("apply-routes") \in Created /\ Started(Of("apply-routes"))
    <3>1. CASE j.kind = "apply-routes"
      BY <1>1, <2>1, <3>1, Shapes DEF TraefikKinds
    <3>2. CASE j.kind = "dns" /\ Dns[j.service] = "ingress"
      <4>1. j = Job("dns", j.service, j.at)
        BY <1>1, <2>1, <3>2, Shapes DEF TargetJob
      <4>2. Of("apply-routes") \in Needs(j)
        BY <3>2, <4>1, TargetNeeds
      <4>. QED
        BY <2>1, <4>2, NeedsDone
    <3>. QED
      BY <1>1, <3>1, <3>2
  <2> DEFINE s == i.service
             t == i.at
  <2>3. s \in Changed /\ i.kind \in TargetKinds(s) /\ t \in At(s) /\ i = Job(i.kind, s, t)
    BY <1>1, <2>1, Shapes DEF Changing, TargetJob
  <2>4. /\ Job(RolledOutKind(s), s, t) \in Created
        /\ Done(Job(RolledOutKind(s), s, t)) /\ Started(Job(RolledOutKind(s), s, t))
    BY <1>1, <2>2, <2>3, AfterRoutes
  <2>5. CASE s \in configure
    <3>1. RolledOutKind(s) = "configure"
      BY <2>5 DEF RolledOutKind
    <3>2. CASE i.kind = "configure"
      BY <2>3, <2>4, <3>1, <3>2
    <3>3. CASE i.kind = "apply"
      <4>1. s \in terraform
        BY <2>3, <3>3 DEF TargetKinds
      <4>2. i \in Needs(Job("configure", s, t))
        BY <2>3, <3>3, <4>1, TargetNeeds
      <4>. QED
        BY <1>1, <2>4, <3>1, <4>2, NeedsDone DEF NeedsInv
    <3>. QED
      BY <1>1, <3>2, <3>3 DEF Changing
  <2>6. CASE s \notin configure
    <3>1. i.kind = "apply" /\ s \in terraform
      BY <1>1, <2>3, <2>6 DEF TargetKinds, Changing, Changed
    <3>2. RolledOutKind(s) = "apply"
      BY <2>6, <3>1 DEF RolledOutKind
    <3>. QED
      BY <2>3, <2>4, <3>1, <3>2
  <2>. QED
    BY <2>5, <2>6
<1>2. TypeInv /\ NeedsInv => RoutesAfterServices
  BY <1>1 DEF RoutesAfterServices
<1>. QED
  BY <1>2, NeedsAlways, PTL

-----------------------------------------------------------------------------
(* Stages. *)

Validation == {"validate", "validate-routes"}

\* Where a target's jobs stand.
LEMMA AtTargets ==
  ASSUME NEW s \in Service, NEW t \in At(s), t # Nowhere
  PROVE  t \in Targets[s] /\ t[2] \in ContoursOf(s) /\ t[2] \in Contour
<1>1. t \in Targets[s]
  BY DEF At
<1>. QED
  BY <1>1, ContourAssumption DEF ContoursOf

LEMMA InContour ==
  ASSUME TypeInv, NEW j \in Jobs, InTargetStage(j), j.at # Nowhere
  PROVE  ContourIn(j) \in ContoursOf(j.service) /\ ContourIn(j) \in Contour
<1>1. Changed \subseteq Service
  BY ServiceAssumption DEF TypeInv, TypeOK, Changed
<1>2. CASE j.kind = "complete"
  BY <1>1, <1>2, Shapes, ServiceContours DEF ContourIn
<1>3. CASE j.kind # "complete"
  <2>1. j.kind \in TargetJob
    BY <1>3 DEF InTargetStage, TargetJob
  <2>. QED
    BY <1>1, <1>3, <2>1, Shapes, AtTargets DEF ContourIn
<1>. QED
  BY <1>2, <1>3

\* The validations are in the first group of stages, the contours each in one of
\* their own, in their order.
LEMMA Groups ==
  ASSUME TypeInv, NEW j \in Jobs
  PROVE  /\ j.kind \in Validation => StageGroup(j) = 0
         /\ j.kind \notin Validation => StageGroup(j) \in Nat \ {0}
         /\ InTargetStage(j) /\ j.at # Nowhere
              => StageGroup(j) = 2 + Place(ContourIn(j), Contours)
<1> USE PhaseNames DEF StageGroup, Validation, InTargetStage
<1>1. CASE j.kind \in Validation
  BY <1>1
<1>2. CASE j.kind \in Phase
  BY <1>2
<1>3. CASE InTargetStage(j) /\ j.at = Nowhere
  BY <1>3
<1>4. CASE InTargetStage(j) /\ j.at # Nowhere
  <2>1. Place(ContourIn(j), Contours) \in 1..Len(Contours)
    BY <1>4, InContour, ContourPlace
  <2>2. StageGroup(j) = 2 + Place(ContourIn(j), Contours)
    BY <1>4
  <2>3. j.kind \notin Validation
    BY <1>4
  <2>4. StageGroup(j) \in Nat \ {0}
    BY <2>1, <2>2, ContourAssumption
  <2>. QED
    BY <2>2, <2>3, <2>4
<1>5. CASE j.kind \notin Validation /\ j.kind \notin Phase /\ ~InTargetStage(j)
  <2>1. StageGroup(j) = 3 + Len(Contours)
    BY <1>5
  <2>. QED
    BY <1>5, <2>1, ContourAssumption
<1>. QED
  BY <1>1, <1>2, <1>3, <1>4, <1>5

-----------------------------------------------------------------------------
(* The validations first. *)

Validated == \A i \in Created : i.kind \in Validation => Done(i)

\* Every job but the validations itself waits for them, or for one that does.
ValidInv ==
  Changed # {} => \A j \in Created : Started(j) /\ j.kind \notin Validation => Validated

\* No job needs a validation: the stages alone keep them first.
LEMMA NeededKinds ==
  ASSUME TypeInv, NEW j \in Jobs, NEW i \in Needs(j)
  PROVE  i.kind \notin Validation
<1> DEFINE s == j.service
           t == j.at
<1> USE DEF Validation
<1>1. \A k, x, u : Job(k, x, u).kind = k /\ Of(k).kind = k
  BY DEF Job, Of
<1>2. \A i1 \in Smoke : i1.kind = "smoke"
  BY <1>1 DEF Smoke
<1>3. CASE j.kind = "plan"
  <2>1. \A i1 \in PreviousContour(s, t) : i1.kind = "complete"
    BY <1>1 DEF PreviousContour
  <2>2. i \in Smoke \/ i \in PreviousContour(s, t)
    BY <1>3, Shapes, TargetNeeds DEF TargetJob
  <2>. QED
    BY <1>2, <2>1, <2>2
<1>4. CASE j.kind \in {"approve", "apply", "configure"}
  <2>1. i \in Smoke \/ \E k \in {"plan", "approve", "apply"} : i = Job(k, s, t)
    BY <1>4, Shapes, TargetNeeds DEF TargetJob
  <2>. QED
    BY <1>1, <1>2, <2>1
<1>5. CASE j.kind = "dns"
  <2>1. i = Of("apply-routes") \/ i = Job("configure", s, t)
    BY <1>5, Shapes, TargetNeeds DEF TargetJob
  <2>. QED
    BY <1>1, <2>1
<1>6. CASE j.kind = "complete"
  <2>1. \E u \in Targets[s] : i = Job(CompletionKind(s), s, u)
    BY <1>6, Shapes, TargetNeeds
  <2>2. CompletionKind(s) \in {"dns", "configure", "apply"}
    BY DEF CompletionKind
  <2>. QED
    BY <1>1, <2>1, <2>2
<1>7. CASE j.kind = "ha-sync"
  <2>1. i = Job("complete", s, Last(ContoursOf(s)))
    BY <1>7, Shapes, TargetNeeds
  <2>. QED
    BY <1>1, <2>1
<1>8. CASE j.kind \in PowerDnsKinds
  <2>1. \/ \E u \in At(PowerDns) : i = Job("configure", PowerDns, u)
        \/ i = Of("preview-zones") \/ i = Of("approve-zones")
    BY <1>8, Shapes, OtherNeeds DEF PowerDnsKinds
  <2>. QED
    BY <1>1, <2>1
<1>9. CASE j.kind \in TraefikKinds \ Validation
  <2>1. \A x : RolledOutKind(x) \in {"configure", "apply", "approve"}
    BY DEF RolledOutKind
  <2>2. \/ \E x \in Changed : \E u \in At(x) : i = Job(RolledOutKind(x), x, u)
        \/ i = Of("preview-routes") \/ i = Of("approve-routes")
    BY <1>9, Shapes, OtherNeeds DEF TraefikKinds
  <2>. QED
    BY <1>1, <2>1, <2>2
<1>10. CASE j.kind \in Phase
  <2>1. \E q \in phases : i = Of(q)
    BY <1>10, Shapes, OtherNeeds DEF PreviousPhase
  <2>. QED
    BY <1>1, <2>1, PhaseNames DEF TypeInv, TypeOK
<1>11. CASE j.kind \in Validation
  BY <1>11, PhaseNames DEF Needs
<1>. QED
  BY <1>3, <1>4, <1>5, <1>6, <1>7, <1>8, <1>9, <1>10, <1>11, Shapes DEF TargetJob

LEMMA ValidStep == TypeInv /\ ValidInv /\ [Next]_vars => ValidInv'
<1> SUFFICES ASSUME TypeInv, ValidInv, [Next]_vars, Changed # {}, NEW j \in Created,
                    Started(j)', j.kind \notin Validation
             PROVE  Validated
  BY Progress, Fixed DEF ValidInv, Validated
<1>1. j \in Jobs /\ Created = Jobs
  BY DEF TypeInv, TypeOK, Created
<1>2. CASE Started(j)
  BY <1>2 DEF ValidInv
<1>3. ASSUME Unblocked(j), NEW i \in Needs(j) PROVE Validated
  BY <1>1, <1>3, NeedsDone, NeededKinds DEF ValidInv
<1>4. CASE Unblocked(j) /\ NoNeedsKey(j)
  <2> SUFFICES ASSUME NEW i \in Created, i.kind \in Validation, ~Done(i) PROVE FALSE
    BY DEF Validated
  <2>1. ~EarlierStage(i, j)
    BY <1>4 DEF Unblocked, Succeeded, Done
  <2>2. StageGroup(i) = 0 /\ StageGroup(j) \in Nat \ {0}
    BY <1>1, Groups
  <2>. QED
    BY <2>1, <2>2 DEF EarlierStage
<1>5. CASE Unblocked(j) /\ j.kind = "preview-routes"
  <2>1. PICK x \in Changed : TRUE
    OBVIOUS
  <2>2. PICK t : t \in At(x)
    BY Targeted
  <2>3. j = Of("preview-routes")
    BY <1>1, <1>5, Shapes DEF TraefikKinds
  <2>4. Job(RolledOutKind(x), x, t) \in Needs(j)
    BY <2>2, <2>3, OtherNeeds
  <2>. QED
    BY <1>3, <1>5, <2>4
<1>6. Started(j) \/ Unblocked(j)
  BY Progress
<1>. QED
  BY <1>2, <1>3, <1>4, <1>5, <1>6 DEF NoNeedsKey

\* A change of services touches nothing before all its validations have passed,
\* although no job lists them among its needs.
THEOREM ValidatesFirst == Spec => []ValidatedFirst
<1>1. Init => ValidInv
  BY DEF Init, ValidInv, Started, Created
<1>2. ValidInv => ValidatedFirst
  BY DEF ValidInv, ValidatedFirst, Validated, Validation, Changing
<1>. QED
  BY <1>1, <1>2, ValidStep, Typed, PTL DEF Spec

-----------------------------------------------------------------------------
(* Contour after contour. *)

\* Either the change affects no phase of the platform, or it plans a Terraform
\* root of every by_contour service it configures: then the first job of every
\* target waits for the contour before.
PlatformApart == phases = {} \/ configure \cap RolledOut \subseteq terraform

\* What the rollout of a service consists of.
LEMMA RolloutJobs ==
  ASSUME TypeInv, NEW s \in Changed, Targets[s] # {}, NEW i \in ServiceJobs(s),
         i.kind \in Changing \cup {"complete"}
  PROVE  /\ i \in Created /\ InTargetStage(i) /\ i.at # Nowhere
         /\ ContourIn(i) \in ContoursOf(s) /\ ContourIn(i) \in Contour
         /\ i.kind = "complete" => i = Job("complete", s, ContourIn(i))
         /\ i.kind \in Changing => /\ i.at \in Targets[s] /\ i.kind \in TargetKinds(s)
                                   /\ i = Job(i.kind, s, i.at) /\ ContourIn(i) = i.at[2]
<1>1. i \in Jobs
  BY DEF Jobs
<1>2. i \in Created
  BY <1>1 DEF TypeInv, TypeOK, Created
<1>3. InTargetStage(i)
  BY DEF InTargetStage, Changing
<1>4. i.service = s /\ s \in Service
  BY ServiceShapes, ServiceAssumption DEF TypeInv, TypeOK, Changed
<1>5. CASE i.kind = "complete"
  <2>1. i = Job("complete", s, i.at) /\ i.at \in ContoursOf(s) /\ i.at \in Contour
    BY <1>1, <1>4, <1>5, Shapes, ServiceContours
  <2>2. i.at # Nowhere
    BY <2>1, ContourAssumption
  <2>. QED
    BY <1>2, <1>3, <1>5, <2>1, <2>2 DEF ContourIn, Changing
<1>6. CASE i.kind \in Changing
  <2>1. i.kind \in TargetKinds(s) /\ i.at \in At(s) /\ i = Job(i.kind, s, i.at)
    BY <1>1, <1>4, <1>6, Shapes DEF Changing, TargetJob
  <2>2. i.at \in Targets[s] /\ i.at # Nowhere
    BY <1>4, <2>1, ContourAssumption DEF At
  <2>3. i.kind # "complete"
    BY <1>6 DEF Changing
  <2>. QED
    BY <1>1, <1>2, <1>3, <1>4, <1>6, <2>1, <2>2, <2>3, InContour DEF ContourIn
<1>. QED
  BY <1>5, <1>6

\* Everything of a service before a contour is done; its machines in a contour are.
SettledBefore(s, c) ==
  \A i \in ServiceJobs(s) :
    (/\ i.kind \in Changing \cup {"complete"}
     /\ Place(ContourIn(i), Contours) < Place(c, Contours)) => Done(i)

SettledIn(s, c) ==
  \A i \in ServiceJobs(s) : i.kind \in Changing /\ ContourIn(i) = c => Done(i)

RolloutKinds == {"plan", "approve", "apply", "configure"}

\* A job of a target waits, itself or through another, for the contours before, and
\* the completion of a contour for its targets too.
ContourInv ==
  PlatformApart => \A j \in Created : Started(j) =>
    /\ j.kind \in RolloutKinds /\ j.at # Nowhere => SettledBefore(j.service, j.at[2])
    /\ j.kind = "complete" =>
         SettledBefore(j.service, j.at) /\ SettledIn(j.service, j.at)

\* The job that ends a target's rollout follows all that changes the target.
LEMMA RolledOutTarget ==
  ASSUME TypeInv, NeedsInv, NEW s \in Changed, NEW t,
         Job(CompletionKind(s), s, t) \in Created, Done(Job(CompletionKind(s), s, t))
  PROVE  /\ \A k \in Changing \cap TargetKinds(s) :
              Job(k, s, t) \in Created /\ Done(Job(k, s, t)) /\ Started(Job(k, s, t))
         /\ Changing \cap TargetKinds(s) # {}
<1> DEFINE Finished(i) == i \in Created /\ Done(i) /\ Started(i) /\ Unblocked(i)
<1>1. \A i \in Created : Done(i) => Finished(i)
  BY DEF NeedsInv, Done, Started
<1>2. \A i, k : Finished(i) /\ k \in Needs(i) => Finished(k)
  BY <1>1, NeedsDone
<1>3. s \in Service /\ (s \in terraform \/ s \in configure)
  BY ServiceAssumption DEF TypeInv, TypeOK, Changed
<1>4. Finished(Job(CompletionKind(s), s, t))
  BY <1>1
<1>5. s \in configure => Finished(Job("configure", s, t)) /\ "configure" \in TargetKinds(s)
  <2>1. CASE s \in configure /\ Dns[s] = "direct"
    <3>1. CompletionKind(s) = "dns" /\ "configure" \in TargetKinds(s)
      BY <2>1 DEF CompletionKind, TargetKinds
    <3>2. Job("configure", s, t) \in Needs(Job("dns", s, t))
      BY <2>1, <3>1, TargetNeeds
    <3>. QED
      BY <1>2, <1>4, <3>1, <3>2
  <2>2. CASE s \in configure /\ Dns[s] # "direct"
    BY <1>4, <2>2 DEF CompletionKind, TargetKinds
  <2>. QED
    BY <2>1, <2>2
<1>6. s \in terraform => Finished(Job("apply", s, t)) /\ "apply" \in TargetKinds(s)
  <2>1. CASE s \in terraform /\ s \in configure
    <3>1. "apply" \in TargetKinds(s)
      BY <2>1 DEF TargetKinds
    <3>2. Job("apply", s, t) \in Needs(Job("configure", s, t))
      BY <2>1, <3>1, TargetNeeds
    <3>. QED
      BY <1>2, <1>5, <2>1, <3>1, <3>2
  <2>2. CASE s \in terraform /\ s \notin configure
    BY <1>4, <2>2 DEF CompletionKind, TargetKinds
  <2>. QED
    BY <2>1, <2>2
<1>7. \A k \in Changing \cap TargetKinds(s) : Finished(Job(k, s, t))
  BY <1>5, <1>6 DEF Changing, TargetKinds
<1>8. Changing \cap TargetKinds(s) # {}
  BY <1>3, <1>5, <1>6 DEF Changing
<1>. QED
  BY <1>7, <1>8

\* After a completion comes the next contour.
LEMMA AfterCompletion ==
  ASSUME TypeInv, NEW s \in Changed, Targets[s] # {}, NEW c \in Contour, NEW d \in Contour,
         Done(Job("complete", s, d)), SettledBefore(s, d), SettledIn(s, d),
         \A e \in ContoursOf(s) : Place(e, Contours) < Place(c, Contours)
                                    => Place(e, Contours) <= Place(d, Contours)
  PROVE  SettledBefore(s, c)
<1> SUFFICES ASSUME NEW i \in ServiceJobs(s), i.kind \in Changing \cup {"complete"},
                    Place(ContourIn(i), Contours) < Place(c, Contours)
             PROVE  Done(i)
  BY DEF SettledBefore
<1>1. /\ ContourIn(i) \in ContoursOf(s) /\ ContourIn(i) \in Contour
      /\ i.kind = "complete" => i = Job("complete", s, ContourIn(i))
  BY RolloutJobs
<1>2. Place(ContourIn(i), Contours) <= Place(d, Contours)
  BY <1>1
<1>3. CASE Place(ContourIn(i), Contours) < Place(d, Contours)
  BY <1>3 DEF SettledBefore
<1>4. CASE Place(ContourIn(i), Contours) = Place(d, Contours)
  <2>1. ContourIn(i) = d
    BY <1>1, <1>4, ContourPlace
  <2>. QED
    BY <1>1, <2>1 DEF SettledIn
<1>5. Place(ContourIn(i), Contours) \in Int /\ Place(d, Contours) \in Int
  BY <1>1, ContourPlace, ContourAssumption
<1>. QED
  BY <1>2, <1>3, <1>4, <1>5

\* A target's first jobs wait for the contours before.
LEMMA FirstOfTarget ==
  ASSUME TypeInv, ContourInv, PlatformApart, NEW s \in Changed, NEW t \in At(s), t # Nowhere
  PROVE  /\ Job("plan", s, t) \in Created /\ Unblocked(Job("plan", s, t))
              => SettledBefore(s, t[2])
         /\ s \notin terraform /\ Job("approve", s, t) \in Created
              /\ Unblocked(Job("approve", s, t)) => SettledBefore(s, t[2])
<1>1. s \in Service
  BY ServiceAssumption DEF TypeInv, TypeOK, Changed
<1>2. t \in Targets[s] /\ t[2] \in ContoursOf(s) /\ t[2] \in Contour
  BY <1>1, AtTargets
<1>3. ASSUME Job("plan", s, t) \in Created, Unblocked(Job("plan", s, t))
      PROVE  SettledBefore(s, t[2])
  <2>1. CASE Before(s, t[2]) = {}
    BY <1>2, <2>1, RolloutJobs DEF SettledBefore, Before
  <2>2. CASE Before(s, t[2]) # {}
    <3> DEFINE d == Last(Before(s, t[2]))
               i == Job("complete", s, d)
    <3>1. /\ d \in Before(s, t[2]) /\ d \in Contour
          /\ \A e \in Before(s, t[2]) : Place(e, Contours) <= Place(d, Contours)
      BY <1>1, <2>2, LastOf, ServiceContours DEF Before
    <3>2. i \in Needs(Job("plan", s, t))
      BY <2>2, TargetNeeds DEF PreviousContour
    <3>3. i \in Created /\ Done(i) /\ Started(i)
      BY <1>3, <3>2, NeedsDone
    <3>4. SettledBefore(s, d) /\ SettledIn(s, d)
      BY <3>3 DEF ContourInv, Job
    <3> HIDE DEF d
    <3>. QED
      BY <1>2, <3>1, <3>3, <3>4, AfterCompletion DEF Before
  <2>. QED
    BY <2>1, <2>2
<1>4. ASSUME s \notin terraform, Job("approve", s, t) \in Created,
             Unblocked(Job("approve", s, t))
      PROVE  SettledBefore(s, t[2])
  <2> DEFINE j == Job("approve", s, t)
  <2>1. s \in configure /\ s \in RolledOut
    BY <1>1, <1>2, <1>4 DEF Changed, RolledOut
  <2>2. Needs(j) = {}
    BY <1>4, <2>1, TargetNeeds DEF PlatformApart, Smoke, TargetKinds
  <2>3. \A i \in Created \ Succeeded : ~EarlierStage(i, j)
    BY <1>4, <2>2 DEF Unblocked, NoNeedsKey, Job
  <2>4. Created = Jobs
    BY DEF TypeInv, TypeOK, Created
  <2>5. InTargetStage(j) /\ j.at # Nowhere /\ ContourIn(j) = t[2]
    BY <1>2, ContourAssumption DEF InTargetStage, ContourIn, Job
  <2>6. StageGroup(j) = 2 + Place(t[2], Contours)
    BY <1>4, <2>4, <2>5, Groups
  <2> SUFFICES ASSUME NEW i \in ServiceJobs(s), i.kind \in Changing \cup {"complete"},
                      Place(ContourIn(i), Contours) < Place(t[2], Contours)
               PROVE  Done(i)
    BY DEF SettledBefore
  <2>7. i \in Created /\ InTargetStage(i) /\ i.at # Nowhere /\ ContourIn(i) \in Contour
    BY <1>2, RolloutJobs
  <2>8. StageGroup(i) = 2 + Place(ContourIn(i), Contours)
    BY <2>4, <2>7, Groups
  <2>9. StageGroup(i) < StageGroup(j)
    BY <1>2, <2>6, <2>7, <2>8, ContourPlace, ContourAssumption
  <2>. QED
    BY <2>3, <2>7, <2>9 DEF EarlierStage, Succeeded, Done
<1>. QED
  BY <1>3, <1>4

\* The other jobs of a target wait for these.
LEMMA RestOfTarget ==
  ASSUME TypeInv, ContourInv, PlatformApart, NEW j \in Created, Unblocked(j),
         j.kind \in RolloutKinds, j.at # Nowhere
  PROVE  SettledBefore(j.service, j.at[2])
<1> DEFINE s == j.service
           t == j.at
<1>1. s \in Changed /\ t \in At(s) /\ j = Job(j.kind, s, t)
  BY Shapes DEF TypeInv, TypeOK, Created, TargetJob, RolloutKinds
<1>2. ASSUME NEW k \in RolloutKinds, Job(k, s, t) \in Needs(j) PROVE SettledBefore(s, t[2])
  <2>1. Job(k, s, t) \in Created /\ Started(Job(k, s, t))
    BY <1>2, NeedsDone
  <2>. QED
    BY <2>1 DEF ContourInv, Job
<1>3. CASE j.kind = "plan"
  BY <1>1, <1>3, FirstOfTarget
<1>4. CASE j.kind = "approve" /\ s \notin terraform
  BY <1>1, <1>4, FirstOfTarget
<1>5. CASE j.kind = "approve" /\ s \in terraform
  BY <1>1, <1>2, <1>5, TargetNeeds DEF RolloutKinds, TargetKinds
<1>6. CASE j.kind = "apply"
  BY <1>1, <1>2, <1>6, TargetNeeds DEF RolloutKinds, TargetKinds
<1>7. CASE j.kind = "configure"
  BY <1>1, <1>2, <1>7, TargetNeeds DEF RolloutKinds, TargetKinds
<1>. QED
  BY <1>3, <1>4, <1>5, <1>6, <1>7 DEF RolloutKinds

\* A completion waits for all targets of its contour.
LEMMA Completion ==
  ASSUME TypeInv, NeedsInv, ContourInv, PlatformApart, NEW j \in Created, Unblocked(j),
         j.kind = "complete"
  PROVE  SettledBefore(j.service, j.at) /\ SettledIn(j.service, j.at)
<1> DEFINE s == j.service
           c == j.at
<1>1. s \in Changed /\ s \in Service /\ c \in ContoursOf(s) /\ j = Job("complete", s, c)
  BY Shapes, ServiceAssumption DEF TypeInv, TypeOK, Created, Changed
<1>2. \A u \in Targets[s] : u[2] = c =>
        LET i == Job(CompletionKind(s), s, u) IN i \in Created /\ Done(i)
  BY <1>1, TargetNeeds, NeedsDone
<1>3. ASSUME NEW i \in ServiceJobs(s), i.kind \in Changing, ContourIn(i) = c PROVE Done(i)
  <2>1. /\ i.at \in Targets[s] /\ i.kind \in TargetKinds(s)
        /\ i = Job(i.kind, s, i.at) /\ i.at[2] = c
    BY <1>1, <1>3, RolloutJobs DEF ContoursOf
  <2>. QED
    BY <1>1, <1>2, <1>3, <2>1, RolledOutTarget
<1>4. PICK u \in Targets[s] : u[2] = c
  BY <1>1 DEF ContoursOf
<1>5. PICK k \in Changing : Job(k, s, u) \in Created /\ Started(Job(k, s, u))
  BY <1>1, <1>2, <1>4, RolledOutTarget
<1>6. SettledBefore(s, c)
  BY <1>1, <1>4, <1>5, ContourAssumption DEF ContourInv, RolloutKinds, Changing, Job
<1>. QED
  BY <1>3, <1>6 DEF SettledIn

LEMMA ApartFixed == ASSUME UNCHANGED change PROVE PlatformApart' <=> PlatformApart
BY DEF PlatformApart, RolledOut, change

LEMMA ContourStep == TypeInv /\ NeedsInv /\ ContourInv /\ [Next]_vars => ContourInv'
<1> SUFFICES ASSUME TypeInv, NeedsInv, ContourInv, [Next]_vars, PlatformApart,
                    NEW j \in Created, Started(j)'
             PROVE  /\ j.kind \in RolloutKinds /\ j.at # Nowhere
                         => SettledBefore(j.service, j.at[2])'
                    /\ j.kind = "complete" => /\ SettledBefore(j.service, j.at)'
                                              /\ SettledIn(j.service, j.at)'
  BY Progress, ApartFixed DEF ContourInv
<1>1. ASSUME NEW s \in Changed, NEW c
      PROVE  /\ SettledBefore(s, c) => SettledBefore(s, c)'
             /\ SettledIn(s, c) => SettledIn(s, c)'
  <2>1. \A i \in ServiceJobs(s) : i \in Created
    BY DEF Jobs, Created, TypeInv, TypeOK
  <2>2. ServiceJobs(s)' = ServiceJobs(s) /\ \A i \in ServiceJobs(s) : Done(i) => Done(i)'
    BY <2>1, Progress, Fixed
  <2>3. \A i : ContourIn(i)' = ContourIn(i)
    BY DEF ContourIn
  <2>. QED
    BY <2>2, <2>3 DEF SettledBefore, SettledIn
<1>2. Started(j) \/ Unblocked(j)
  BY Progress
<1>3. CASE j.kind \in RolloutKinds /\ j.at # Nowhere
  <2>1. SettledBefore(j.service, j.at[2])
    BY <1>2, <1>3, RestOfTarget DEF ContourInv
  <2>2. j.service \in Changed
    BY <1>3, Shapes DEF TypeInv, TypeOK, Created, TargetJob, RolloutKinds
  <2>. QED
    BY <1>1, <1>3, <2>1, <2>2 DEF RolloutKinds
<1>4. CASE j.kind = "complete"
  <2>1. SettledBefore(j.service, j.at) /\ SettledIn(j.service, j.at)
    BY <1>2, <1>4, Completion DEF ContourInv
  <2>2. j.service \in Changed
    BY <1>4, Shapes DEF TypeInv, TypeOK, Created
  <2>. QED
    BY <1>1, <1>4, <2>1, <2>2 DEF RolloutKinds
<1>. QED
  BY <1>3, <1>4

LEMMA ContourAlways == Spec => [](TypeInv /\ NeedsInv /\ ContourInv)
<1>1. Init => ContourInv
  BY DEF Init, ContourInv, Started, Created
<1>. QED
  BY <1>1, ContourStep, NeedsAlways, PTL DEF Spec

\* A by_contour service is rolled out in contour order, unless the change also
\* affects the platform and configures it without a plan.
THEOREM RollsOutInOrder == Spec => [](PlatformApart => ContoursInOrder)
<1>1. ASSUME ContourInv, PlatformApart PROVE ContoursInOrder
  BY <1>1 DEF ContourInv, ContoursInOrder, SettledBefore, RolloutKinds, Changing
<1>. QED
  BY <1>1, ContourAlways, PTL

\* Under the same condition an active-passive service is resynchronised after the
\* rollout of its last contour.
THEOREM ResynchronisedLast == Spec => [](PlatformApart => SyncsAfterRollout)
<1>1. ASSUME TypeInv, NeedsInv, ContourInv, PlatformApart, NEW j \in Created,
             j.kind = "ha-sync", Started(j), NEW i \in ServiceJobs(j.service),
             i.kind \in Changing \cup {"complete"}
      PROVE  Done(i)
  <2> DEFINE s == j.service
             d == Last(ContoursOf(s))
             k == Job("complete", s, d)
  <2>1. s \in Changed /\ HaSynced(s) /\ j = Job("ha-sync", s, Nowhere) /\ s \in Service
    BY <1>1, Shapes, ServiceAssumption DEF TypeInv, TypeOK, Created, Changed
  <2>2. ContoursOf(s) # {} /\ ContoursOf(s) \subseteq Contour
    BY <2>1, FS_EmptySet, ServiceContours DEF HaSynced
  <2>3. d \in Contour /\ \A e \in ContoursOf(s) : Place(e, Contours) <= Place(d, Contours)
    BY <2>2, LastOf
  <2>4. k \in Needs(j)
    BY <2>1, TargetNeeds
  <2>5. k \in Created /\ Done(k) /\ Started(k)
    BY <1>1, <2>4, NeedsDone DEF NeedsInv
  <2>6. SettledBefore(s, d) /\ SettledIn(s, d)
    BY <1>1, <2>5 DEF ContourInv, Job
  <2>7. Targets[s] # {}
    BY <2>2 DEF ContoursOf
  <2>8. /\ ContourIn(i) \in ContoursOf(s) /\ ContourIn(i) \in Contour
        /\ i.kind = "complete" => i = Job("complete", s, ContourIn(i))
    BY <1>1, <2>1, <2>7, RolloutJobs
  <2> HIDE DEF d
  <2>9. CASE Place(ContourIn(i), Contours) < Place(d, Contours)
    BY <1>1, <2>6, <2>9 DEF SettledBefore
  <2>10. CASE ContourIn(i) = d
    BY <1>1, <2>5, <2>6, <2>8, <2>10 DEF SettledIn
  <2>11. Place(ContourIn(i), Contours) < Place(d, Contours) \/ ContourIn(i) = d
    BY <2>3, <2>8, ContourPlace, ContourAssumption
  <2>. QED
    BY <2>9, <2>10, <2>11
<1>2. TypeInv /\ NeedsInv /\ ContourInv /\ PlatformApart => SyncsAfterRollout
  BY <1>1 DEF SyncsAfterRollout
<1>. QED
  BY <1>2, ContourAlways, PTL

-----------------------------------------------------------------------------
(* The services a change concerns. *)

\* Whatever GitLab's variables name, the comparison yields the request's edits.
LEMMA OwnEdits ==
  ASSUME NEW files, NEW moved, NEW v \in Variables
  PROVE  ChangedFiles(v, files, moved) = files
<1> DEFINE own == files \X {"request"}
           others == moved \X {"target"}
           names(E) == {e[1] : e \in E}
<1>1. own \cap others = {} /\ names(own) = files
  <2>1. names(own) = files
    <3>1. ASSUME NEW f \in files PROVE f \in names(own)
      <4>1. <<f, "request">> \in own /\ <<f, "request">>[1] = f
        OBVIOUS
      <4>. QED
        BY <4>1
    <3>. QED
      BY <3>1
  <2>. QED
    BY <2>1
<1>2. ChangedFiles(v, files, moved) =
        LET a == Edited(DiffBase(v), files, moved)
            b == Edited(DiffHead(v), files, moved)
        IN names((a \ b) \cup (b \ a))
  BY DEF ChangedFiles
<1>3. /\ Edited("base", files, moved) = {} /\ Edited("source", files, moved) = own
      /\ Edited("target", files, moved) = others
      /\ Edited("merged", files, moved) = own \cup others
  BY DEF Edited
<1> HIDE DEF own, others, names
<1>4. CASE DiffBase(v) = "base" /\ DiffHead(v) = "source"
  <2>1. ({} \ own) \cup (own \ {}) = own
    OBVIOUS
  <2>. QED
    BY <1>1, <1>2, <1>3, <1>4, <2>1
<1>5. CASE DiffBase(v) = "target" /\ DiffHead(v) = "merged"
  <2>1. (others \ (own \cup others)) \cup ((own \cup others) \ others) = own
    BY <1>1
  <2>. QED
    BY <1>1, <1>2, <1>3, <1>5, <2>1
<1>6. v.type \in {"detached", "merged_result"} /\ v.sourceSha \in BOOLEAN /\ v.targetSha \in BOOLEAN
  BY DEF Variables
<1>. QED
  BY <1>4, <1>5, <1>6 DEF DiffBase, DiffHead

-----------------------------------------------------------------------------
(* The roles a playbook runs. *)

RoleCount == Cardinality(Role)

LEMMA RoleCountType == RoleCount \in Nat
BY DependencyAssumption, FS_CardinalityType DEF RoleCount

\* The n-th round of the index finds what the roles of the rounds before name.
LEMMA Rounds ==
  ASSUME NEW s
  PROVE  \E reach : /\ reach[0] = PlaybookRoles[s]
                    /\ \A n \in 1..RoleCount :
                         reach[n] = reach[n - 1] \cup UNION {RoleNeeds[r] : r \in reach[n - 1]}
                    /\ RolesUsed(s) = reach[RoleCount]
<1> DEFINE Body(g, n) == IF n = 0 THEN PlaybookRoles[s]
                         ELSE g[n - 1] \cup UNION {RoleNeeds[r] : r \in g[n - 1]}
           Fits(m, g) == g = [n \in 0..m |-> Body(g, n)]
           Unfit == {m \in Nat : ~\E g : Fits(m, g)}
<1>1. \A m \in Nat : \E g : Fits(m, g)
  <2> SUFFICES ASSUME Unfit # {} PROVE FALSE
    OBVIOUS
  <2>1. PICK m \in Unfit : \A k \in Unfit : m <= k
    BY Least
  <2>2. CASE m = 0
    <3>1. Fits(0, [n \in 0..0 |-> PlaybookRoles[s]])
      OBVIOUS
    <3>. QED
      BY <2>1, <2>2, <3>1
  <2>3. CASE m # 0
    <3>1. m - 1 \in Nat /\ m - 1 \notin Unfit
      <4>1. m \in Nat /\ m - 1 \in Nat /\ ~(m <= m - 1)
        BY <2>3
      <4> HIDE DEF Unfit
      <4>. QED
        BY <2>1, <4>1
    <3>2. PICK g : Fits(m - 1, g)
      BY <3>1
    <3> DEFINE h == [n \in 0..m |-> IF n = m THEN Body(g, n) ELSE g[n]]
    <3>3. \A n \in 0..(m - 1) : g[n] = Body(g, n)
      BY <3>2
    <3>4. \A n \in 0..m : h[n] = Body(h, n)
      <4> SUFFICES ASSUME NEW n \in 0..m PROVE h[n] = Body(h, n)
        OBVIOUS
      <4>1. h[n] = Body(g, n)
        <5>1. CASE n = m
          BY <5>1
        <5>2. CASE n # m
          <6>1. n \in 0..(m - 1)
            BY <3>1, <5>2
          <6>2. h[n] = g[n]
            BY <5>2
          <6> HIDE DEF h
          <6>. QED
            BY <3>3, <6>1, <6>2
        <5>. QED
          BY <5>1, <5>2
      <4>2. CASE n = 0
        BY <4>1, <4>2
      <4>3. CASE n # 0
        <5>1. n - 1 \in 0..m /\ n - 1 # m
          BY <3>1, <4>3
        <5>2. h[n - 1] = g[n - 1]
          BY <5>1
        <5>3. Body(g, n) = Body(h, n)
          <6> HIDE DEF h
          <6>. QED
            BY <4>3, <5>2
        <5>. QED
          BY <4>1, <5>3
      <4>. QED
        BY <4>2, <4>3
    <3>5. h = [n \in 0..m |-> Body(h, n)]
      <4>1. h = [n \in 0..m |-> h[n]]
        OBVIOUS
      <4> HIDE DEF h
      <4>. QED
        BY <3>4, <4>1
    <3>. QED
      BY <2>1, <3>5
  <2>. QED
    BY <2>2, <2>3
<1> DEFINE reach == CHOOSE g : Fits(RoleCount, g)
<1>2. Fits(RoleCount, reach)
  <2> HIDE DEF Fits
  <2>. QED
    BY <1>1, RoleCountType
<1>3. RolesUsed(s) = reach[RoleCount]
  BY DEF RolesUsed, RoleCount
<1> HIDE DEF reach
<1>4. ASSUME NEW n \in 0..RoleCount PROVE reach[n] = Body(reach, n)
  <2>1. reach = [k \in 0..RoleCount |-> Body(reach, k)]
    BY <1>2
  <2> HIDE DEF Body
  <2>. QED
    BY <2>1
<1>5. reach[0] = PlaybookRoles[s]
  <2>1. 0 \in 0..RoleCount
    BY RoleCountType
  <2>2. reach[0] = Body(reach, 0)
    <3> HIDE DEF Body
    <3>. QED
      BY <1>4, <2>1
  <2>. QED
    BY <2>2
<1>6. ASSUME NEW n \in 1..RoleCount
      PROVE  reach[n] = reach[n - 1] \cup UNION {RoleNeeds[r] : r \in reach[n - 1]}
  <2>1. n \in 0..RoleCount /\ n # 0
    BY RoleCountType
  <2>. QED
    BY <1>4, <2>1
<1>. QED
  BY <1>3, <1>5, <1>6

\* A chain of n roles from a playbook to the role r.
ChainTo(s, r, n, chain) ==
  /\ chain \in [1..n -> Role] /\ chain[1] \in PlaybookRoles[s] /\ chain[n] = r
  /\ \A i \in 1..(n - 1) : chain[i + 1] \in RoleNeeds[chain[i]]

\* A shortest chain names no role twice.
LEMMA ShortestChain ==
  ASSUME NEW s, NEW r, NEW m \in Nat \ {0}, NEW c, ChainTo(s, r, m, c),
         \A k \in Nat \ {0} : (\E d : ChainTo(s, r, k, d)) => m <= k
  PROVE  m <= RoleCount
<1>1. \A i, j \in 1..m : i < j => c[i] # c[j]
  <2> SUFFICES ASSUME NEW i \in 1..m, NEW j \in 1..m, i < j, c[i] = c[j] PROVE FALSE
    OBVIOUS
  <2> DEFINE l == m - (j - i)
             d == [k \in 1..l |-> IF k <= i THEN c[k] ELSE c[k + (j - i)]]
  <2>1. l \in Nat \ {0} /\ ~(m <= l) /\ i <= l /\ i >= 1 /\ j - i >= 1 /\ j <= m
    OBVIOUS
  <2>2. \A k \in 1..l : k \in 1..m /\ k + (j - i) \in 1..m
    BY <2>1
  <2>3. \A k \in 1..l : d[k] \in Role
    BY <2>2 DEF ChainTo
  <2>4. d \in [1..l -> Role]
    BY <2>3
  <2>5. d[1] = c[1]
    BY <2>1
  <2>6. d[l] = c[m]
    <3>1. CASE l = i
      <4>1. j = m /\ d[l] = c[i]
        BY <2>1, <3>1
      <4>. QED
        BY <4>1
    <3>2. CASE l # i
      <4>1. l \in 1..l /\ ~(l <= i) /\ l + (j - i) = m
        BY <2>1, <3>2
      <4>. QED
        BY <4>1
    <3>. QED
      BY <3>1, <3>2
  <2>7. ASSUME NEW k \in 1..(l - 1) PROVE d[k + 1] \in RoleNeeds[d[k]]
    <3>0. k \in 1..l /\ k + 1 \in 1..l
      BY <2>1
    <3>1. CASE k + 1 <= i
      <4>1. d[k] = c[k] /\ d[k + 1] = c[k + 1] /\ k \in 1..(m - 1)
        BY <2>1, <3>0, <3>1
      <4>. QED
        BY <4>1 DEF ChainTo
    <3>2. CASE k = i
      <4>1. d[k] = c[j] /\ d[k + 1] = c[(k + 1) + (j - i)]
        BY <2>1, <3>0, <3>2
      <4>2. (k + 1) + (j - i) = j + 1 /\ j \in 1..(m - 1)
        BY <2>1, <3>2
      <4>. QED
        BY <4>1, <4>2 DEF ChainTo
    <3>3. CASE ~(k + 1 <= i) /\ k # i
      <4>1. ~(k <= i)
        BY <3>3
      <4>2. d[k] = c[k + (j - i)] /\ d[k + 1] = c[(k + 1) + (j - i)]
        BY <3>0, <3>3, <4>1
      <4>3. (k + 1) + (j - i) = (k + (j - i)) + 1 /\ k + (j - i) \in 1..(m - 1)
        BY <2>1
      <4>. QED
        BY <4>2, <4>3 DEF ChainTo
    <3>. QED
      BY <3>1, <3>2, <3>3
  <2> HIDE DEF d, l
  <2>8. ChainTo(s, r, l, d)
    BY <2>4, <2>5, <2>6, <2>7 DEF ChainTo
  <2>. QED
    BY <2>1, <2>8
<1>2. \A i, j \in 1..m : i # j => c[i] # c[j]
  BY <1>1
<1>3. IsFiniteSet(1..m) /\ Cardinality(1..m) = m
  BY FS_Interval
<1>4. c \in [1..m -> Role]
  BY DEF ChainTo
<1> SUFFICES ASSUME ~(m <= RoleCount) PROVE FALSE
  OBVIOUS
<1>5. Cardinality(Role) < Cardinality(1..m)
  BY <1>3, RoleCountType DEF RoleCount
<1>6. \E x, y \in 1..m : x # y /\ c[x] = c[y]
  BY <1>3, <1>4, <1>5, DependencyAssumption, FS_PigeonHole
<1>. QED
  BY <1>2, <1>6

\* The index finds the roles to which a chain leads, and no others.
LEMMA RolesRun ==
  ASSUME NEW s \in Service, NEW r \in Role
  PROVE  r \in RolesUsed(s) <=> Runs(s, r)
<1>1. PICK reach : /\ reach[0] = PlaybookRoles[s]
                   /\ \A n \in 1..RoleCount :
                        reach[n] = reach[n - 1] \cup UNION {RoleNeeds[q] : q \in reach[n - 1]}
                   /\ RolesUsed(s) = reach[RoleCount]
  BY Rounds
<1>2. RoleCount \in Nat
  BY RoleCountType
<1>3. Runs(s, r) <=> \E n \in 1..RoleCount : \E c : ChainTo(s, r, n, c)
  BY DEF Runs, ChainTo, RoleCount
<1>4. ASSUME NEW n \in 1..RoleCount, NEW c, ChainTo(s, r, n, c) PROVE r \in reach[RoleCount]
  <2>1. \A i \in 1..n : c[i] \in reach[i - 1]
    <3> DEFINE Bad == {i \in 1..n : c[i] \notin reach[i - 1]}
    <3> SUFFICES ASSUME Bad # {} PROVE FALSE
      OBVIOUS
    <3>1. PICK i \in Bad : \A k \in Bad : i <= k
      <4>1. Bad \in SUBSET Nat
        OBVIOUS
      <4> HIDE DEF Bad
      <4>. QED
        BY <4>1, Least
    <3>2. i \in 1..n /\ i \in Nat
      OBVIOUS
    <3>3. i # 1
      BY <1>1, <1>4 DEF ChainTo
    <3>4. i - 1 \in 1..n /\ i - 1 \in 1..(n - 1) /\ i - 1 \in 1..RoleCount /\ ~(i <= i - 1)
      BY <1>2, <3>2, <3>3
    <3>5. c[i - 1] \in reach[(i - 1) - 1]
      BY <3>1, <3>4
    <3>6. c[(i - 1) + 1] \in RoleNeeds[c[i - 1]]
      BY <1>4, <3>4 DEF ChainTo
    <3>7. reach[i - 1] = reach[(i - 1) - 1] \cup UNION {RoleNeeds[q] : q \in reach[(i - 1) - 1]}
      BY <1>1, <3>4
    <3>8. (i - 1) + 1 = i
      BY <3>2
    <3>9. c[i] \in reach[i - 1]
      BY <3>5, <3>6, <3>7, <3>8
    <3>. QED
      BY <3>9
  <2>2. r \in reach[n - 1]
    BY <1>2, <1>4, <2>1 DEF ChainTo
  <2>3. \A k \in (n - 1)..RoleCount : r \in reach[k]
    <3> DEFINE Bad == {k \in (n - 1)..RoleCount : r \notin reach[k]}
    <3> SUFFICES ASSUME Bad # {} PROVE FALSE
      OBVIOUS
    <3>1. PICK i \in Bad : \A k \in Bad : i <= k
      <4>1. Bad \in SUBSET Nat
        BY <1>2
      <4> HIDE DEF Bad
      <4>. QED
        BY <4>1, Least
    <3>2. i \in (n - 1)..RoleCount /\ i # n - 1
      BY <2>2
    <3>3. i \in 1..RoleCount /\ i - 1 \in (n - 1)..RoleCount /\ ~(i <= i - 1)
      BY <1>2, <3>2
    <3>4. r \in reach[i - 1]
      BY <3>1, <3>3
    <3>5. reach[i] = reach[i - 1] \cup UNION {RoleNeeds[q] : q \in reach[i - 1]}
      BY <1>1, <3>3
    <3>6. r \in reach[i]
      BY <3>4, <3>5
    <3>. QED
      BY <3>6
  <2>. QED
    BY <1>2, <2>3
<1> DEFINE Ends(q) == \E m \in Nat \ {0} : \E c : ChainTo(s, q, m, c)
<1>5. ASSUME NEW q \in PlaybookRoles[s] PROVE Ends(q)
  <2>1. q \in Role
    BY DependencyAssumption
  <2> DEFINE c == [k \in 1..1 |-> q]
  <2>2. ChainTo(s, q, 1, c)
    BY <2>1 DEF ChainTo
  <2>. QED
    BY <2>2
<1>6. ASSUME NEW p, Ends(p), NEW q \in RoleNeeds[p] PROVE Ends(q)
  <2>1. PICK m \in Nat \ {0} : \E c : ChainTo(s, p, m, c)
    BY <1>6
  <2>2. PICK c : ChainTo(s, p, m, c)
    BY <2>1
  <2>3. p \in Role
    BY <2>2 DEF ChainTo
  <2>4. q \in Role
    BY <2>3, DependencyAssumption
  <2> DEFINE d == [k \in 1..(m + 1) |-> IF k = m + 1 THEN q ELSE c[k]]
  <2>5. \A k \in 1..m : k \in 1..(m + 1) /\ k # m + 1
    OBVIOUS
  <2>6. \A k \in 1..m : d[k] = c[k]
    BY <2>5
  <2>7. d[m + 1] = q
    OBVIOUS
  <2>8. d \in [1..(m + 1) -> Role]
    <3>1. \A k \in 1..(m + 1) : k # m + 1 => k \in 1..m
      OBVIOUS
    <3>2. \A k \in 1..m : c[k] \in Role
      BY <2>2 DEF ChainTo
    <3>3. \A k \in 1..(m + 1) : d[k] \in Role
      BY <2>4, <3>1, <3>2
    <3>. QED
      BY <3>3
  <2> HIDE DEF d
  <2>9. d[1] \in PlaybookRoles[s]
    BY <2>2, <2>6 DEF ChainTo
  <2>10. ASSUME NEW k \in 1..m PROVE d[k + 1] \in RoleNeeds[d[k]]
    <3>1. CASE k = m
      <4>1. d[k] = p /\ d[k + 1] = q
        BY <2>2, <2>6, <2>7, <3>1 DEF ChainTo
      <4>. QED
        BY <1>6, <4>1
    <3>2. CASE k # m
      <4>1. k \in 1..(m - 1) /\ k + 1 \in 1..m
        BY <3>2
      <4>2. c[k + 1] \in RoleNeeds[c[k]]
        BY <2>2, <4>1 DEF ChainTo
      <4>. QED
        BY <2>6, <4>1, <4>2
    <3>. QED
      BY <3>1, <3>2
  <2>11. (m + 1) - 1 = m /\ m + 1 \in Nat \ {0}
    OBVIOUS
  <2>12. ChainTo(s, q, m + 1, d)
    BY <2>7, <2>8, <2>9, <2>10, <2>11 DEF ChainTo
  <2>. QED
    BY <2>11, <2>12
<1>7. \A n \in 0..RoleCount : \A q \in reach[n] : Ends(q)
  <2> DEFINE Bad == {n \in 0..RoleCount : \E q \in reach[n] : ~Ends(q)}
  <2> SUFFICES ASSUME Bad # {} PROVE FALSE
    OBVIOUS
  <2>1. PICK n \in Bad : \A k \in Bad : n <= k
    <3>1. Bad \in SUBSET Nat
      BY <1>2
    <3> HIDE DEF Bad
    <3>. QED
      BY <3>1, Least
  <2>2. PICK q \in reach[n] : ~Ends(q)
    BY <2>1
  <2> HIDE DEF Ends
  <2>3. n # 0
    BY <1>1, <1>5, <2>2
  <2>4. n \in 1..RoleCount /\ n - 1 \in 0..RoleCount /\ ~(n <= n - 1)
    BY <1>2, <2>3
  <2>5. \A p \in reach[n - 1] : Ends(p)
    BY <2>1, <2>4
  <2>6. reach[n] = reach[n - 1] \cup UNION {RoleNeeds[p] : p \in reach[n - 1]}
    BY <1>1, <2>4
  <2>7. CASE q \in reach[n - 1]
    BY <2>2, <2>5, <2>7
  <2>8. CASE q \in UNION {RoleNeeds[p] : p \in reach[n - 1]}
    <3>1. PICK p \in reach[n - 1] : q \in RoleNeeds[p]
      BY <2>8
    <3>. QED
      BY <1>6, <2>2, <2>5, <3>1
  <2>. QED
    BY <2>2, <2>6, <2>7, <2>8
<1>8. ASSUME r \in reach[RoleCount] PROVE \E n \in 1..RoleCount : \E c : ChainTo(s, r, n, c)
  <2> DEFINE Lengths == {m \in Nat \ {0} : \E c : ChainTo(s, r, m, c)}
  <2>1. Ends(r)
    BY <1>2, <1>7, <1>8
  <2>2. Lengths \in SUBSET Nat /\ Lengths # {}
    BY <2>1
  <2>3. PICK m \in Lengths : \A k \in Lengths : m <= k
    <3> HIDE DEF Lengths
    <3>. QED
      BY <2>2, Least
  <2>4. m \in Nat \ {0}
    OBVIOUS
  <2>5. PICK c : ChainTo(s, r, m, c)
    OBVIOUS
  <2>6. \A k \in Nat \ {0} : (\E d : ChainTo(s, r, k, d)) => m <= k
    BY <2>3
  <2>7. m <= RoleCount
    BY <2>4, <2>5, <2>6, ShortestChain
  <2>. QED
    BY <1>2, <2>4, <2>5, <2>7
<1>. QED
  BY <1>1, <1>3, <1>4, <1>8

\* A service is selected when an operator names it or an edit concerns it.
LEMMA Selected ==
  ASSUME NEW s \in Service, NEW files, files \subseteq Path
  PROVE  (TerraformNeeded(s, files) \/ ConfigureNeeded(s, files)) <=>
           \/ s \in Forced \cap (Terraformed \cup Playbook)
           \/ s \notin Unmanaged /\ \E f \in files : Concerns(f, s)
<1>1. ASSUME NEW k, NEW n PROVE In(k, n).in = k /\ In(k, n).of = n
  BY DEF In
<1>2. ASSUME NEW f \in files
      PROVE  /\ f = In(f.in, f.of)
             /\ f.in \in {"platform.yaml", "environments", "inventory"} => f = In(f.in, Nobody)
             /\ f.in = "role" => f.of \in Role
  BY DEF Path, In
<1>3. ASSUME NEW K
      PROVE  Edits(s, files, K) <=> \E f \in files : f.of = s /\ f.in \in K
  <2>1. ASSUME NEW k \in K, In(k, s) \in files PROVE \E f \in files : f.of = s /\ f.in \in K
    BY <1>1, <2>1
  <2>2. ASSUME NEW f \in files, f.of = s, f.in \in K PROVE \E k \in K : In(k, s) \in files
    BY <1>2, <2>2
  <2>. QED
    BY <2>1, <2>2 DEF Edits
<1>4. ASSUME NEW k
      PROVE  (\E n \in SharedUses[s] : In(k, n) \in files)
               <=> \E f \in files : f.in = k /\ f.of \in SharedUses[s]
  <2>1. ASSUME NEW n \in SharedUses[s], In(k, n) \in files
        PROVE  \E f \in files : f.in = k /\ f.of \in SharedUses[s]
    BY <1>1, <2>1
  <2>2. ASSUME NEW f \in files, f.in = k, f.of \in SharedUses[s]
        PROVE  \E n \in SharedUses[s] : In(k, n) \in files
    BY <1>2, <2>2
  <2>. QED
    BY <2>1, <2>2
<1>5. (\E r \in Role : In("role", r) \in files /\ s \in RoleUsers(r))
        <=> \E f \in files : f.in = "role" /\ Runs(s, f.of)
  <2>1. ASSUME NEW r \in Role, In("role", r) \in files, s \in RoleUsers(r)
        PROVE  \E f \in files : f.in = "role" /\ Runs(s, f.of)
    <3>1. Runs(s, r)
      BY <2>1, RolesRun DEF RoleUsers
    <3>. QED
      BY <1>1, <2>1, <3>1
  <2>2. ASSUME NEW f \in files, f.in = "role", Runs(s, f.of)
        PROVE  \E r \in Role : In("role", r) \in files /\ s \in RoleUsers(r)
    <3>1. f.of \in Role /\ In("role", f.of) \in files
      BY <1>2, <2>2
    <3>2. s \in RoleUsers(f.of)
      BY <2>2, <3>1, RolesRun DEF RoleUsers
    <3>. QED
      BY <3>1, <3>2
  <2>. QED
    BY <2>1, <2>2
<1>6. AnsibleChanged(s, files) <=> \E f \in files : ConcernsPlaybook(f, s)
  BY <1>3, <1>4, <1>5 DEF AnsibleChanged, ConcernsPlaybook, Touches
<1>7. In("platform.yaml", Nobody) \in files <=> \E f \in files : f.in = "platform.yaml"
  BY <1>1, <1>2
<1>8. (\/ Edits(s, files, {"config", "terraform"})
       \/ \E n \in SharedUses[s] : In("module", n) \in files
       \/ In("platform.yaml", Nobody) \in files)
        <=> \E f \in files : ConcernsTerraform(f, s)
  BY <1>3, <1>4, <1>7 DEF ConcernsTerraform
<1> DEFINE WholePlatform == \E f \in files : f.in \in {"platform.yaml", "environments"}
           OfPlaybook    == \E f \in files : ConcernsPlaybook(f, s)
           OfTerraform   == \E f \in files : ConcernsTerraform(f, s)
<1>9. (\E f \in files : Concerns(f, s)) <=>
         \/ s \in Playbook /\ OfPlaybook
         \/ s \in Terraformed /\ OfTerraform
         \/ s \in RolledOut \cap (Terraformed \cup Playbook) /\ WholePlatform
  BY DEF Concerns
<1>10. GlobalImpact(files) <=> WholePlatform
  BY DEF GlobalImpact, Touches
<1>11. TerraformNeeded(s, files) <=>
         s \in Terraformed /\ Candidate(s)
           /\ (s \in Forced \/ OfTerraform \/ (WholePlatform /\ s \in RolledOut))
  <2> HIDE DEF OfTerraform, WholePlatform
  <2>1. TerraformNeeded(s, files) <=>
          s \in Terraformed /\ Candidate(s)
            /\ (s \in Forced
                 \/ (\/ Edits(s, files, {"config", "terraform"})
                     \/ \E n \in SharedUses[s] : In("module", n) \in files
                     \/ In("platform.yaml", Nobody) \in files)
                 \/ (GlobalImpact(files) /\ s \in RolledOut))
    BY DEF TerraformNeeded
  <2>. QED
    BY <1>8, <1>10, <2>1 DEF OfTerraform
<1>12. ConfigureNeeded(s, files) <=>
         s \in Playbook /\ Candidate(s)
           /\ (s \in Forced \/ TerraformNeeded(s, files)
                 \/ (WholePlatform /\ s \in RolledOut) \/ OfPlaybook)
  <2> HIDE DEF OfPlaybook, WholePlatform
  <2>. QED
    BY <1>6, <1>10 DEF ConfigureNeeded, OfPlaybook
<1> HIDE DEF OfPlaybook, OfTerraform, WholePlatform
<1>. QED
  BY <1>9, <1>11, <1>12 DEF Candidate

\* A pipeline deploys the services its merge request concerns and no others,
\* whatever the target branch changed meanwhile, however long the chain of roles
\* from an edited role to a playbook: the index of the roles used is complete.
THEOREM DeploysOwnChange == Spec => []DeploysItsOwnChange
<1>1. Init => DeploysItsOwnChange
  <2> SUFFICES ASSUME Init PROVE DeploysItsOwnChange
    OBVIOUS
  <2>1. PICK files \in Changes, moved \in SUBSET Moved, v \in Variables :
          LET seen == ChangedFiles(v, files, moved)
          IN /\ terraform = {s \in Service : TerraformNeeded(s, seen)}
             /\ configure = {s \in Service : ConfigureNeeded(s, seen)}
             /\ concerned = {s \in Service : \E f \in files : Concerns(f, s)}
    BY DEF Init
  <2>2. ChangedFiles(v, files, moved) = files
    BY OwnEdits
  <2>3. /\ terraform = {s \in Service : TerraformNeeded(s, files)}
        /\ configure = {s \in Service : ConfigureNeeded(s, files)}
        /\ concerned = {s \in Service : \E f \in files : Concerns(f, s)}
    BY <2>1, <2>2
  <2>4. files \subseteq Path
    BY PathAssumption
  <2>5. ASSUME NEW s \in Service
        PROVE  s \in Changed <=>
                 s \in (concerned \ Unmanaged) \cup (Forced \cap (Terraformed \cup Playbook))
    <3>1. s \in Changed <=> TerraformNeeded(s, files) \/ ConfigureNeeded(s, files)
      BY <2>3 DEF Changed
    <3>2. s \in concerned <=> \E f \in files : Concerns(f, s)
      BY <2>3
    <3>. QED
      BY <2>4, <3>1, <3>2, Selected
  <2>6. Changed \subseteq Service /\ concerned \subseteq Service /\ Forced \subseteq Service
    BY <2>3, ServiceAssumption DEF Changed
  <2>. QED
    BY <2>5, <2>6 DEF DeploysItsOwnChange
<1>2. DeploysItsOwnChange /\ [Next]_vars => DeploysItsOwnChange'
  <2>1. [Next]_vars => UNCHANGED change
    BY DEF Next, Start, Play, Finish, Fail, Retry, vars, change
  <2>. QED
    BY <2>1 DEF DeploysItsOwnChange, Changed, change
<1>. QED
  BY <1>1, <1>2, PTL DEF Spec
=============================================================================
