CONSTANTS
  Addr4 = {a1, a2}
  Addr6 = {b1}
  Port = {80, 81}
SPECIFICATION Spec
INVARIANTS OverlapIsReal DisjointIsReal UnknownIsOpen
CHECK_DEADLOCK FALSE
