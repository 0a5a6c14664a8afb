SPECIFICATION FairSpec
CONSTANTS
  SessionIds = {s1, s2}
  Devices = {p1, p2}
  NoDevice = NoDevice
  MaxRestarts = 1
INVARIANT StatusSettled
PROPERTIES StatusForward PendingSettles
