CONSTANTS
  Thread = {event, app}
  event = event
  Sender = {event, app}
  Prompt = {event}
  NoThread = NoThread
SPECIFICATION FairSpec
PROPERTIES CallsReturn
CHECK_DEADLOCK FALSE
