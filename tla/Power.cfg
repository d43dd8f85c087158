CONSTANTS
  MAX_CHANGES = 2
  Torn = Torn
SPECIFICATION FairSpec
INVARIANTS ShipModeIsKept
PROPERTIES EmptyPowersOff ChangesAreStored
