SPECIFICATION FairSpec
CONSTANTS
  Clients = {a}
  Modes = {on, off}
  a = a
  on = on
  off = off
  Off = off
  Limit = 2
  MaxEvents = 3
INVARIANTS
  TypeOK
  NothingSkipped
  ControlIsShown
PROPERTIES
  ImplementsMonotonicReads
  EventsArrive
  StreamsEnd
