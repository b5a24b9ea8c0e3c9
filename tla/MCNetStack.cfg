CONSTANTS
  gw = gw
  near = near
  other = other
  far = far
  zero = zero
  broadcast = broadcast
  us = us
  us2 = us2
  mine = mine
  DESCRIPTORS = 3
  ARP_CACHE_SIZE = 1
  DNS_TABLE_SIZE = 2
  Hosts = {gw, near, other}
  Zero = zero
  Broadcast = broadcast
  Default <- MCDefault
  Leases <- MCLeases
  Zone <- MCZone
  DNS_SERVER = far
  Traffic <- MCTraffic
SPECIFICATION Spec
INVARIANTS
  RingHasNoGap
  FrameGoesToItsHost
PROPERTY
  HostGetsAddress
CHECK_DEADLOCK FALSE
