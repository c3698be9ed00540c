\* Addresses come and go while Run starts and stops and requests use them.
SPECIFICATION Spec
CONSTANTS
  k1 = k1  k2 = k2  k3 = k3  d1 = d1  d2 = d2  d3 = d3  d4 = d4  d5 = d5
  Keys = {k1, k2, k3}
  Devs = {d1, d2, d3}
  NoDev = NoDev
  Types = {"driverA", "driverB"}
  TypeOf <- MCTypeOf
  Misfits = {}
  HardwareDevs = {}
  OwnForm = {}
  Doubtful = {}
  Runner = run
  HostThreads = {a}
  SetupThreads = {h1}
  ApiThreads = {r1}
  NoThread = NoThread
  BootKey <- TwoBootKeys
  BootDev <- TwoBootDevs
  MaxRegs = 3
  MaxSessions = 0
  DrainTimesOut = FALSE
INVARIANTS RegistryAgrees
CHECK_DEADLOCK FALSE
