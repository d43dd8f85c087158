CONSTANTS
  Key = {Home, k, l}
  Home = Home
SPECIFICATION FairSpec
INVARIANTS HomeIsSeen KeysAreTold
PROPERTIES HeldHomeIsSeen
