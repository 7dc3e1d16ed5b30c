\* A request of 1-3 units of head and 0-3 of body read in any pieces; 3 frames.
\* Two addresses and two connections; 3 wrong passwords in a minute of 2 ticks.
SPECIFICATION Spec
CONSTANTS
  MaxHead = 2
  MaxBody = 2
  MaxEvents = 2
  MaxFrames = 3
  Ips = {a, b}
  Conns = {x, y}
  PerIp = 2
  Global = 3
  W = 2
  MaxTime = 3
  MaxManagers = 2
  Addresses = {a}
  Cap = 2
  Window = 3
  MaxClock = 5
 
 
INVARIANT DoorHonest
CHECK_DEADLOCK FALSE
