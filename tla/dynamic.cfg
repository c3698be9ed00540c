\* A host that registers, unregisters and reloads while Run starts and stops.
SPECIFICATION Spec
CONSTANTS
  k1 = k1  k2 = k2  k3 = k3  d1 = d1  d2 = d2  d3 = d3  d4 = d4  d5 = d5
  Keys = {k1}
  Devs = {d1, d2, d4}
  NoDev = NoDev
  Types = {"driverA", "driverB"}
  TypeOf <- MCTypeOf
  Misfits = {d4}
  HardwareDevs = {d1, d2}
  OwnForm = {}
  Doubtful = {}
  Runner = run
  HostThreads = {a, b}
  SetupThreads = {}
  ApiThreads = {}
  NoThread = NoThread
  BootKey <- OneBootKey
  BootDev <- OneBootDev
  MaxRegs = 2
  MaxSessions = 2
  DrainTimesOut = TRUE
INVARIANTS TypeOK SessionHeldOnce ReloadExclusive RegulatedWhileRunning
PROPERTIES ReplacementFirst SessionsAsPromised
SYMMETRY HostSymmetry
CHECK_DEADLOCK FALSE
