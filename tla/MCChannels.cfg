SPECIFICATION MonologueSpec
CONSTANTS
  Node = {n1, n2, n3}
  main = main
  side = side
  Channel <- MCChannel
  Classes <- MCClasses
  DefaultMaxLineout = 2
  MinMaxLineout = 1
  MaxMaxLineout = 2
  Limits = {0, 1, 3}
  LineoutBound = 2
CONSTRAINT Scenarios
SYMMETRY NodeSymmetry
VIEW WithoutSent
INVARIANTS ServerInvariant NoGhosts
PROPERTIES ImplementsRoster MonologuesEnd ChangesAnnounced
CHECK_DEADLOCK FALSE
