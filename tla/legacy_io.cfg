SPECIFICATION FairSpec
CONSTANTS
  Byte = {b1, b2}
  MaxDelay = 2
  MaxHeld = 2
  MaxOutput = 0
INVARIANTS TypeOK OneReady CountdownHasByte
PROPERTIES StreamSpec Delivered
