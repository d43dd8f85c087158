CONSTANTS
  Thread = {event, app}
  event = event
  Sender = {event, app}
  Prompt = {event, app}
  NoThread = NoThread
SPECIFICATION FairSpec
INVARIANTS TransmissionComplete NoRxDamage
PROPERTIES ReceiverNeverStuck CallsReturn
