SPECIFICATION FairSpec
CONSTANTS
  forgejo = forgejo
  traefik = traefik
  freeipa = freeipa
  c1 = c1
  c2 = c2
  A = A
  B = B
  p = p
  q = q
  network = network
  compute = compute
  Nowhere = Nowhere
  Nobody = Nobody
  Unknown = Unknown
  Protected = "drunk"
  Service <- Services
  Terraformed <- JustForgejo
  Playbook <- Services
  Unmanaged <- NoService
  Forced <- NoService
  ActivePassive <- JustForgejo
  PowerDns = traefik
  Dns <- Ingress
  Contours <- TwoContours
  Targets <- ForgejoOnly
  Role <- NoRole
  PlaybookRoles <- NoRoles
  RoleNeeds <- NoNeeds
  SharedFile <- NoRole
  SharedUses <- NoRoles
  OpenStack = TRUE
  Components <- Parts
  FreeIpa = freeipa
  FreeIpaUsers <- JustForgejo
  Traefik = traefik
  Webhooks <- AllHooks
  CommitFiles <- Edit
  MaxFaults = 1
  Pipeline <- Pipelines
INVARIANTS TypeOK AppliesItsOwnPlan TouchesItsTarget ChangesInOrder MissingListFailsClosed
PROPERTIES EveryPipelineEnds
CHECK_DEADLOCK FALSE
