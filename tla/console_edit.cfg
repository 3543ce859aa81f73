SPECIFICATION Spec
CONSTANTS
  b1 = b1
  b2 = b2
  s1 = s1
  s2 = s2
  None = None
  Ids <- MCIds
  Slots <- MCSlots
SYMMETRY MCSymmetry
INVARIANTS
  ValuesStayHome
  ActsOnWhatIsShown
  OneWayHasNoReturn
