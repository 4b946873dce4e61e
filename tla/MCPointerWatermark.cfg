SPECIFICATION Spec
CONSTANTS
  None = None
  Terms = {t1}
  Boxes = {b1}
  RunBoxes = {}
  MaxFlights = 2
  MaxMail = 1
  MaxInc = 2
  MaxRestarts = 0
INVARIANTS FlightHoldsWatermark
CHECK_DEADLOCK FALSE
