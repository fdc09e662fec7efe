CONSTANTS
  Workers = {w1, w2, w3}
  Items   = {i1, i2, i3}
SPECIFICATION FairSpec
PROPERTIES ImplementsWorkPool NoWakeUpIsLost
CHECK_DEADLOCK FALSE
