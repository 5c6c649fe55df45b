SPECIFICATION Spec
CONSTANTS
  MaxKey = 4
  Keys <- MCKeys
  Messages <- MCMessages
  Addresses = {a1, a2, a3, a4, a5}
  nullptr = nullptr
SYMMETRY MCSymmetry
INVARIANTS TypeOK SearchTree NoLeakNoDangling BeginIsLeast
PROPERTIES  ImplementsMapAtBegin ReferencesStable
