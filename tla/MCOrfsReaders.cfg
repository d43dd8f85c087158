CONSTANTS
  SECTOR_COUNT = 3
  WORDS = 2
  JOURNAL_YOUNGEST = 2
  Value = {Blank, x}
  Blank = Blank
  Thread = {event, app}
  event = event
  app = app
  MayPatch <- OneWriter
SPECIFICATION Spec
INVARIANTS NoAssertionFails PointerSurvivesOnePatch
