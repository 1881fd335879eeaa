SPECIFICATION Spec
CONSTANTS
  forgejo = forgejo
  dns = dns
  old = old
  c1 = c1
  c2 = c2
  A = A
  B = B
  base = base
  app = app
  unused = unused
  Nowhere = Nowhere
  Nobody = Nobody
  Service <- Services
  PowerDns = dns
  ActivePassive <- JustForgejo
  Dns <- IngressAndDirect
  Playbook <- Services
  Contours <- TwoContours
  Unmanaged <- JustOld
  Forced <- NoService
  Role <- Roles
  PlaybookRoles <- RolesNamed
  RoleNeeds <- RolesNeeded
  SharedFile <- NoShared
  SharedUses <- UsesNothing
  OpenStack = TRUE
  Moved <- MovedOn
  Terraformed <- Services
  Targets <- RolloutOne
  Changes <- OrderEdits
  ManualApply = FALSE
  MaxFailures = 0
INVARIANT ContoursInOrder
CHECK_DEADLOCK FALSE
