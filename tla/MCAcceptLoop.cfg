\* Two events, two workers, two clients, and just as many sockets as they need.
SPECIFICATION FairSpec
CONSTANTS
  Workers = {w1, w2}
  Main = main
  Events = {e1, e2}
  Sessions = {1, 2, 3, 4, 5}
  Clients = {c1, c2}
  None = 0
  MaxFaults = 1
INVARIANTS TypeOK OneHolder PendingKept OneSessionPerClient NoSocketShortage
PROPERTIES NoSilentClose Served FailStop
