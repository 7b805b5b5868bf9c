SPECIFICATION FairSpec
CONSTANTS
  u1 = u1
  u2 = u2
  Fan = Fan
  Nobody = Nobody
  Users <- MCUsers
  MaxRequests = 2
  MaxMishaps = 2
  MaxFds = 1
INVARIANTS
  BusyIsTrue
  ButtonIsHeld
PROPERTIES
  StartsOnRequest
  ActionsEnd
  HotHostGoesOff
