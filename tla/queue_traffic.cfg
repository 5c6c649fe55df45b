SPECIFICATION MCFairSpec
CONSTANT MaxQueue = 6
INVARIANT TypeOK
PROPERTIES LowIndexNotOvertaken LowIndexPopped
