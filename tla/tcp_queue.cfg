SPECIFICATION MCSpec
CONSTANTS
  Messages = {m1}
  MaxPushes = 7
INVARIANTS TypeOK Accounted AppendsUntilFirstPop LossNeedsBacklog OrderNeedsBacklog
PROPERTY FollowsTraffic
CHECK_DEADLOCK FALSE
