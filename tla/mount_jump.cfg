\* One client moves an axis and changes its mind.
SPECIFICATION Spec
CONSTANTS
  Clients = {c1}
  RACircle = 3
  MaxDec = 1
  Targets <- OnePlace
  Rates = {0, 1}
  Offsets = {0, 1}
  Patience = 1
  MaxAge = 1
PROPERTIES NeverDoubleCounted
