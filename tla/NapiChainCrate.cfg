SPECIFICATION Spec
CONSTANTS
  Calls = {c1, c2}
  Genesis = Genesis
  NoBlock = NoBlock
  Bridges = {"crate"}
  MaxCrashes = 0
INVARIANTS
  BlocksAreAccepted
CHECK_DEADLOCK FALSE
