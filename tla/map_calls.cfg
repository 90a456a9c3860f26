\* Every history of calls with six keys and two values.
CONSTANTS
  keyLimit = 8
  valueLimit = 4
  Keys <- SomeKeys
  Values <- SomeValues
SPECIFICATION Spec
INVARIANTS
  Sorted
  SearchNarrows
PROPERTIES
  CallsReturn
  
