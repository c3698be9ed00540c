\* One client of each kind of device; two of the camera and of the driver.
SPECIFICATION Spec
CONSTANTS
  Clients = {c1, c2}
  Kinds <- AllKinds
  Shared = {"camera", "driver"}
  Circle = 6
  MaxStep = 2
  Slots = 2
  MaxAltitude = 1
  TurnTime = 1
  ShutterTime = 2
  MaxBrightness = 1
  LampTime = 1
  CoverTime = 2
  Switches = 2
  MaxValue = 2
  Axes = {"x"}
  Sensor = 2
  MaxBin = 2
  MaxExposure = 2
  Bins = {0, 1, 2}
  Origins <- MCOrigins
  Sizes <- MCSizes
  Durations <- MCDurations
  Dials = {"setpoint"}
  MaxDial = 1
  Ambient = 1
  CoolTime = 2
  MaxWorkers = 2
INVARIANTS TypeOK OneWorker
PROPERTIES CameraAsPromised FrameFits NoTeleport StillWhenSaid ParkAndHomeAtZero CoverKnown Settles
