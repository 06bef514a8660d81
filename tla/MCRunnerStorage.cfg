SPECIFICATION Spec
CONSTANTS
  Address = {a1, a2}
  Shard = {s1}
  None = None
  MachineIdCount = 2
  Expiration = 1
  MaxLost = 1
  MaxTime = 2
SYMMETRY Symmetry
INVARIANTS
  TypeOK
  MachineIdsUnique
  LeaseBacksOwner
PROPERTIES
  LeaseRespected
  RegistrationLasts
