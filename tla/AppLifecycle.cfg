CONSTANTS
  App = {launcher, led, other}
  launcher = launcher
  led = led
  NoApp = NoApp
SPECIFICATION FairSpec
INVARIANTS TypeOK TimerIsOwn CompletionHasList
PROPERTIES AskedToEndEnds HomeIsAnswered RequestsAreRun ReleaseCancels
