SPECIFICATION Spec
CONSTANTS
  u1 = u1
  u2 = u2
  d1 = d1
  d2 = d2
  k1 = k1
  k2 = k2
  k3 = k3
  w1 = w1
  w2 = w2
  NoUser = NoUser
  NoDevice = NoDevice
  Users <- TwoUsers
  Devices <- TwoDevices
  Keys <- TwoKeys
  Workers <- TwoWorkers
  Terms = {1, 2}
  MaxTime = 1
  MaxVersion = 4
  Requests = {"unbind", "plan"}
SYMMETRY Symmetry
CHECK_DEADLOCK FALSE
INVARIANTS
  ActiveOnBoundDevice
PROPERTIES
  ImplementsLedger
