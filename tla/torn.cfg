\* One reload and one request at the same device.
SPECIFICATION Spec
CONSTANTS
  k1 = k1  k2 = k2  k3 = k3  d1 = d1  d2 = d2  d3 = d3  d4 = d4  d5 = d5
  Keys = {k1}
  Devs = {d1, d2}
  NoDev = NoDev
  Types = {"driverA", "driverB"}
  TypeOf <- MCTypeOf
  Misfits = {}
  HardwareDevs = {d1, d2}
  OwnForm = {d2}
  Doubtful = {}
  Runner = run
  HostThreads = {}
  SetupThreads = {h1}
  ApiThreads = {r1}
  NoThread = NoThread
  BootKey <- OneBootKey
  BootDev <- OneBootDev
  MaxRegs = 1
  MaxSessions = 2
  DrainTimesOut = FALSE
INVARIANTS WholeDevice
CHECK_DEADLOCK FALSE
