\* Each socket listens on its interface only.
SPECIFICATION Spec
CONSTANTS
  Interfaces = {1, 2}
  Loopback = 0
  Localhost = "127.0.0.1"
  Assignable <- MCAssignable
  Neighbors = {"10.1.1.9"}
  MaxChanges = 8
INVARIANT EveryInterfaceListens
CHECK_DEADLOCK FALSE
