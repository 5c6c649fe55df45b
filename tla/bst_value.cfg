SPECIFICATION Spec
CONSTANTS
  MaxKey = 3
  Keys <- MCKeys
  Messages <- MCMessages
  Addresses = {a1, a2, a3, a4}
  nullptr = nullptr
SYMMETRY MCSymmetry
PROPERTY ImplementsMap
