SPECIFICATION Spec
CONSTANTS
  v1 = v1
  v2 = v2
  v3 = v3
  a1 = a1
  a2 = a2
  a3 = a3
  a4 = a4
  None = None
  Replica <- Pair
  Addr <- Three
  MaxDeaths = 0
SYMMETRY Perms
INVARIANT PublishesEligible
