SPECIFICATION Spec
CONSTANTS
  m1 = m1
  m2 = m2
  s1 = s1
  s2 = s2
  a1 = a1
  a2 = a2
  a3 = a3
  None = None
  Nic <- Interfaces
  Addr <- Addresses
  Managed <- FromPrefix
  Primary <- AllPrimary
  Static <- SameStatic
  Prefix <- ThePrefix
  Reserved <- OneReserved
  MaxDeaths = 2
SYMMETRY Perms
INVARIANTS TypeOK HostsDistinct OneAddressEach ConflictDetected
PROPERTIES AddressStable RolloutSucceeds
