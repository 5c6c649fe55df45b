SPECIFICATION Spec
CONSTANTS
  Threads = {t1, t2}
  None = None
  Keys <- MCKeys
  Messages <- MCMessages
  Addresses = {a1, a2, a3, a4}
  nullptr = nullptr
  MaxKey = 3
  Operations = {"contains", "insert", "remove", "at", "size"}
  Builds = {TRUE, FALSE}
SYMMETRY MCSymmetry
INVARIANTS TypeOK LookupStillHolds ConsistentUnderLock
PROPERTIES ReferencesLive ImplementsTree
