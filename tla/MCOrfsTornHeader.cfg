CONSTANTS
  SECTOR_COUNT = 3
  WORDS = 2
  JOURNAL_YOUNGEST = 3
  Value = {Blank, x}
  Blank = Blank
SPECIFICATION Spec
CHECK_DEADLOCK FALSE
INVARIANTS ScanStaysInBounds
