SPECIFICATION Spec
CONSTANTS
  Strings <- MCStrings
  ElementIds <- MCElementIds
  Ints <- MCInts
  ListMax = 1
  NewerField = 15
INVARIANTS
  HasBitsSound
  WireIsSchema
  RoundTrip
  MergeIsConcat
  CopiesEqual
  BindingsAgree
  
