SPECIFICATION FairSpec
CONSTANTS
  None = None
  Terms = {t1, t2}
  Boxes = {b1}
  RunBoxes = {b1}
  MaxFlights = 1
  MaxMail = 1
  MaxInc = 1
  MaxRestarts = 0
PROPERTIES MailIsPointed
CHECK_DEADLOCK FALSE
