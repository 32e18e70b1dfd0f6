CONSTANTS
  Keys <- MCKeys
  CountRange = 4
SPECIFICATION Spec
INVARIANTS
  NoPhantomKey
  Debounced
PROPERTIES
  KeyIsPrinted
