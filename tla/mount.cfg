\* One client, any sequence of calls.
SPECIFICATION Spec
CONSTANTS
  Clients = {c1}
  RACircle = 3
  MaxDec = 1
  Targets <- TwoPlaces
  Rates = {0, 1}
  Offsets = {0, 1}
  Patience = 1
  MaxAge = 1
INVARIANTS TypeOK ParkedIsStill
PROPERTIES OnlyUnparkUnparks SlewArrives Continuous
