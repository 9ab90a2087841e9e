\* What becomes of a client after ProcessAccept.
SPECIFICATION Spec
CONSTANTS
  Workers = {w1}
  Main = main
  Events = {e1}
  Sessions = {1, 2}
  Clients = {c1}
  None = 0
  MaxFaults = 0
INVARIANT SessionConnected
