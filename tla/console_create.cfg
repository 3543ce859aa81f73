SPECIFICATION Spec
CONSTANTS
  Addresses <- MCAddresses
  Legs <- MCLegs
  MaxPosts = 2
INVARIANTS
  NoDoubleSubmit
  ToldWhichAddress
PROPERTIES
  FareForJourney
  ShownIsCharged
