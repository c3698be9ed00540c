\* Devices registered before Run; afterwards only reload forms over HTTP.
SPECIFICATION FairSpec
CONSTANTS
  k1 = k1  k2 = k2  k3 = k3  d1 = d1  d2 = d2  d3 = d3  d4 = d4  d5 = d5
  Keys = {k1, k2}
  Devs = {d1, d2, d3, d5}
  NoDev = NoDev
  Types = {"driverA", "driverB"}
  TypeOf <- MCTypeOf
  Misfits = {}
  HardwareDevs = {d1, d2, d3, d5}
  OwnForm = {d2}
  Doubtful = {d3}
  Runner = run
  HostThreads = {}
  SetupThreads = {h1, h2}
  ApiThreads = {}
  NoThread = NoThread
  BootKey <- TwoBootKeys
  BootDev <- TwoBootDevs
  MaxRegs = 2
  MaxSessions = 4
  DrainTimesOut = FALSE
INVARIANTS OneOpenPerAddress SettingsBeforeOpen NoLostSession ClosedWhenStopped DrainedBeforeClose
PROPERTIES ShutdownCompletes ReloadsReturn
CHECK_DEADLOCK FALSE
